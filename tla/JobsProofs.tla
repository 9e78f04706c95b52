----------------------------- MODULE JobsProofs -----------------------------
(***************************************************************************)
(* Safety of the workers, for every number of workers and of their tasks,  *)
(* part by part: the consumer runtime (messages, receipts), the print      *)
(* tasks, the notifications, the reminders, the nightly check of the       *)
(* tickets, the provider's bills and the customer's assets. Each part has  *)
(* an inductive invariant of its own; they share no state, and come        *)
(* together at the end.                                                    *)
(***************************************************************************)
EXTENDS MCJobs, SumTheorems, TLAPS

\* A copy that is retried has retries left; a handler whose fan-out is due has written its
\* rows and, once the fan-out is done, may close the receipt; a copy is marked dead only
\* after it was handed to the dead queue.
SessionsOK ==
    \A s \in Sessions :
        /\ sess[s].pc = "retry" => sess[s].retry + 1 \in Retries
        /\ sess[s].pc \in {"post", "close"} => effect[sess[s].pair]
        /\ sess[s].pc = "close" => posted[sess[s].pair]
        /\ sess[s].pc = "mark" => \/ sess[s].pair \in misjudged
                                  \/ deadq[sess[s].pair] > 0
                                  \/ letter[sess[s].pair] # "none"

\* A session that still has to do something with a copy of the message, beyond the ack.
HasCopy(s, p) == sess[s].pc \notin {"idle", "ack"} /\ sess[s].pair = p

\* Where a message is safe from an acknowledgement.
Safe(p) ==
    \/ Done(p) \/ letter[p] # "none" \/ deadq[p] > 0
    \/ \E k \in Retries : ready[p][k] > 0 \/ delayed[p][k] > 0
    \/ \E s \in Sessions : HasCopy(s, p)

\* NothingLost, without counting the copies that are only waiting for their ack: two of
\* them must not vouch for each other.
AckedIsSafe == \A p \in Pairs : sent[p] > 0 /\ p \notin misjudged => Safe(p)

CInv == TypeOK /\ SessionsOK /\ AckedIsSafe /\ SucceededIsDone /\ DeadIsReported

----------------------------------------
LEMMA CInvImplies == CInv => MessagesKept
BY DEF CInv, MessagesKept, NothingLost, AckedIsSafe, Safe, HasCopy, InBroker, At

LEMMA CInitially == ConsumerInit => CInv
<1> SUFFICES ASSUME ConsumerInit PROVE CInv
 OBVIOUS
<1>0. 0 \in Retries BY ConsumerAssumption DEF Retries
<1>1. TypeOK BY <1>0, ConsumerAssumption DEF ConsumerInit, TypeOK, Resting, Steps, Retries, NoPair
<1>2. SessionsOK BY <1>1 DEF ConsumerInit, SessionsOK, Resting
<1>3. AckedIsSafe /\ SucceededIsDone /\ DeadIsReported
 BY DEF ConsumerInit, AckedIsSafe, SucceededIsDone, DeadIsReported
<1> QED BY <1>1, <1>2, <1>3 DEF CInv

----------------------------------------
\* What putting a copy into a queue and taking one out does to it.
LEMMA EnqueuedFacts ==
    ASSUME NEW queue \in [Pairs -> [Retries -> Nat]], NEW p \in Pairs, NEW k \in Retries
    PROVE  /\ Enqueued(queue, p, k) \in [Pairs -> [Retries -> Nat]] /\ Enqueued(queue, p, k)[p][k] > 0
           /\ \A q \in Pairs, n \in Retries : queue[q][n] > 0 => Enqueued(queue, p, k)[q][n] > 0
<1>1. queue[p] \in [Retries -> Nat] /\ queue[p][k] \in Nat OBVIOUS
<1>2. Enqueued(queue, p, k) = [queue EXCEPT ![p] = [queue[p] EXCEPT ![k] = queue[p][k] + 1]] BY DEF Enqueued
<1> QED BY <1>1, <1>2

LEMMA TakeFacts ==
    ASSUME NEW queue \in [Pairs -> [Retries -> Nat]], NEW p \in Pairs, NEW k \in Retries,
           queue[p][k] > 0
    PROVE  /\ Take(queue, p, k) \in [Pairs -> [Retries -> Nat]]
           /\ \A q \in Pairs : q # p => Take(queue, p, k)[q] = queue[q]
<1>1. queue[p] \in [Retries -> Nat] /\ queue[p][k] \in Nat /\ queue[p][k] - 1 \in Nat OBVIOUS
<1>2. Take(queue, p, k) = [queue EXCEPT ![p] = [queue[p] EXCEPT ![k] = queue[p][k] - 1]] BY DEF Take
<1> QED BY <1>1, <1>2

\* A session that moves on keeps its copy and stays well formed.
LEMMA GotoFacts ==
    ASSUME TypeOK, NEW s \in Sessions, NEW pc \in Steps, sess[s].pc # "idle", Goto(s, pc)
    PROVE  /\ sess' \in [Sessions -> [pc : Steps, pair : Pairs \cup {NoPair}, retry : Retries,
                                      terminal : BOOLEAN, late : BOOLEAN]]
           /\ sess'[s].pc = pc /\ sess'[s].pair = sess[s].pair /\ sess'[s].retry = sess[s].retry
           /\ sess'[s].pair \in Pairs
           /\ \A t \in Sessions : t # s => sess'[t] = sess[t]
           /\ \A t \in Sessions : sess'[t].pc # "idle" => sess'[t].pair \in Pairs
<1>1. /\ sess \in [Sessions -> [pc : Steps, pair : Pairs \cup {NoPair}, retry : Retries,
                               terminal : BOOLEAN, late : BOOLEAN]]
      /\ \A t \in Sessions : sess[t].pc # "idle" => sess[t].pair \in Pairs
 BY DEF TypeOK
<1>2. sess' = [sess EXCEPT ![s].pc = pc] BY DEF Goto
<1>3. /\ sess' \in [Sessions -> [pc : Steps, pair : Pairs \cup {NoPair}, retry : Retries,
                                terminal : BOOLEAN, late : BOOLEAN]]
      /\ sess'[s].pc = pc /\ sess'[s].pair = sess[s].pair /\ sess'[s].retry = sess[s].retry
      /\ \A t \in Sessions : t # s => sess'[t] = sess[t]
 BY <1>1, <1>2
<1> QED BY <1>1, <1>3

\* A session that lets go of its copy.
LEMMA RestFacts ==
    ASSUME TypeOK, NEW s \in Sessions, NEW late \in BOOLEAN,
           sess' = [sess EXCEPT ![s] = Resting(late)]
    PROVE  /\ sess' \in [Sessions -> [pc : Steps, pair : Pairs \cup {NoPair}, retry : Retries,
                                      terminal : BOOLEAN, late : BOOLEAN]]
           /\ sess'[s].pc = "idle"
           /\ \A t \in Sessions : t # s => sess'[t] = sess[t]
           /\ \A t \in Sessions : sess'[t].pc # "idle" => sess'[t].pair \in Pairs
<1>1. 0 \in Retries BY ConsumerAssumption DEF Retries
<1>2. Resting(late) \in [pc : Steps, pair : Pairs \cup {NoPair}, retry : Retries,
                         terminal : BOOLEAN, late : BOOLEAN]
 BY <1>1 DEF Resting, Steps
<1>3. Resting(late).pc = "idle" BY DEF Resting
<1> QED BY <1>2, <1>3 DEF TypeOK

\* The part of TypeOK that most steps leave to one variable.
LEMMA Unfold ==
    ASSUME CInv
    PROVE  /\ TypeOK /\ SessionsOK /\ AckedIsSafe /\ SucceededIsDone /\ DeadIsReported
           /\ \A s \in Sessions : sess[s].pc # "idle" => sess[s].pair \in Pairs /\ sess[s].retry \in Retries
BY DEF CInv, TypeOK

----------------------------------------
(* The broker. *)

LEMMA SendStep == ASSUME CInv, NEW p \in Pairs, Send(p) PROVE CInv'
<1>0. /\ TypeOK /\ SessionsOK /\ AckedIsSafe /\ SucceededIsDone /\ DeadIsReported /\ 0 \in Retries
 BY Unfold, ConsumerAssumption DEF Retries
<1>1. /\ ready' \in [Pairs -> [Retries -> Nat]] /\ ready'[p][0] > 0
      /\ \A q \in Pairs, n \in Retries : ready[q][n] > 0 => ready'[q][n] > 0
 BY <1>0, EnqueuedFacts DEF TypeOK, Send
<1>2. TypeOK' BY <1>0, <1>1, ConsumerAssumption DEF TypeOK, Send
<1>3. SessionsOK' /\ SucceededIsDone' /\ DeadIsReported'
 BY <1>0 DEF Send, SessionsOK, SucceededIsDone, DeadIsReported, Done
<1>4. AckedIsSafe'
 <2> SUFFICES ASSUME NEW q \in Pairs, sent'[q] > 0, q \notin misjudged' PROVE Safe(q)'
  BY DEF AckedIsSafe
 <2>1. CASE q = p
  BY <1>0, <1>1, <2>1 DEF Safe
 <2>2. CASE q # p
  BY <1>0, <1>1, <2>2 DEF TypeOK, Safe, AckedIsSafe, Send, Done, HasCopy
 <2> QED BY <2>1, <2>2
<1> QED BY <1>2, <1>3, <1>4 DEF CInv

LEMMA DelayExpiresStep ==
    ASSUME CInv, NEW p \in Pairs, NEW k \in Retries, DelayExpires(p, k) PROVE CInv'
<1>0. TypeOK /\ SessionsOK /\ AckedIsSafe /\ SucceededIsDone /\ DeadIsReported BY Unfold
<1>1. /\ ready' \in [Pairs -> [Retries -> Nat]] /\ ready'[p][k] > 0
      /\ \A q \in Pairs, n \in Retries : ready[q][n] > 0 => ready'[q][n] > 0
 BY <1>0, EnqueuedFacts DEF TypeOK, DelayExpires
<1>1a. /\ delayed' \in [Pairs -> [Retries -> Nat]]
       /\ \A q \in Pairs : q # p => delayed'[q] = delayed[q]
 <2>1. delayed \in [Pairs -> [Retries -> Nat]] /\ delayed[p][k] > 0 /\ delayed' = Take(delayed, p, k)
  BY <1>0 DEF TypeOK, DelayExpires
 <2> QED BY <2>1, TakeFacts
<1>2. TypeOK' BY <1>0, <1>1, <1>1a DEF TypeOK, DelayExpires
<1>3. SessionsOK' /\ SucceededIsDone' /\ DeadIsReported'
 BY <1>0 DEF DelayExpires, SessionsOK, SucceededIsDone, DeadIsReported, Done
<1>4. AckedIsSafe'
 <2> SUFFICES ASSUME NEW q \in Pairs, sent'[q] > 0, q \notin misjudged' PROVE Safe(q)'
  BY DEF AckedIsSafe
 <2>1. CASE q = p
  BY <1>1, <2>1 DEF Safe
 <2>2. CASE q # p
  BY <1>0, <1>1, <1>1a, <2>2 DEF TypeOK, Safe, AckedIsSafe, DelayExpires, Done, HasCopy
 <2> QED BY <2>1, <2>2
<1> QED BY <1>2, <1>3, <1>4 DEF CInv

\* A session gives its copy back to the queue, whatever else becomes of the faults and the
\* answer under way.
LEMMA RequeueStep ==
    ASSUME CInv, NEW s \in Sessions, NEW late \in BOOLEAN, sess[s].pc # "idle",
           ready' = Enqueued(ready, sess[s].pair, sess[s].retry),
           sess' = [sess EXCEPT ![s] = Resting(late)],
           faults' \in 0..MaxFaults,
           delayed' \in [Pairs -> [Retries -> Nat]], deadq' \in [Pairs -> Nat],
           \A q \in Pairs, k \in Retries : delayed[q][k] > 0 => delayed'[q][k] > 0,
           \A q \in Pairs : deadq[q] > 0 => deadq'[q] > 0,
           UNCHANGED <<kind, sent, receipt, effect, posted, letter, misjudged>>
    PROVE  CInv'
<1>0. /\ TypeOK /\ SessionsOK /\ AckedIsSafe /\ SucceededIsDone /\ DeadIsReported
      /\ sess[s].pair \in Pairs /\ sess[s].retry \in Retries
 BY Unfold
<1>1. /\ ready' \in [Pairs -> [Retries -> Nat]] /\ ready'[sess[s].pair][sess[s].retry] > 0
      /\ \A q \in Pairs, n \in Retries : ready[q][n] > 0 => ready'[q][n] > 0
 BY <1>0, EnqueuedFacts DEF TypeOK
<1>2. TypeOK' BY <1>0, <1>1, RestFacts DEF TypeOK
<1>3. SessionsOK' /\ SucceededIsDone' /\ DeadIsReported'
 BY <1>0, RestFacts DEF SessionsOK, SucceededIsDone, DeadIsReported, Done
<1>4. AckedIsSafe'
 <2> SUFFICES ASSUME NEW q \in Pairs, sent'[q] > 0, q \notin misjudged' PROVE Safe(q)'
  BY DEF AckedIsSafe
 <2>1. CASE q = sess[s].pair
  BY <1>0, <1>1, <2>1 DEF Safe
 <2>2. CASE q # sess[s].pair
  <3>1. Safe(q) BY <1>0 DEF AckedIsSafe
  <3>2. \A t \in Sessions : HasCopy(t, q) => HasCopy(t, q)' BY <1>0, <2>2, RestFacts DEF HasCopy
  <3> QED BY <1>1, <3>1, <3>2 DEF Safe, Done
 <2> QED BY <2>1, <2>2
<1> QED BY <1>2, <1>3, <1>4 DEF CInv

LEMMA SessionEndsStep == ASSUME CInv, NEW s \in Sessions, SessionEnds(s) PROVE CInv'
<1>1. faults' \in 0..MaxFaults BY Unfold, ConsumerAssumption DEF TypeOK, SessionEnds, Fault
<1>2. delayed' \in [Pairs -> [Retries -> Nat]] /\ deadq' \in [Pairs -> Nat] BY Unfold DEF TypeOK, SessionEnds
<1> QED BY <1>1, <1>2, RequeueStep DEF SessionEnds, At

----------------------------------------
(* handleDelivery. *)

LEMMA ReceiveStep ==
    ASSUME CInv, NEW s \in Sessions, NEW p \in Pairs, NEW k \in Retries, ReceiveMessage(s, p, k)
    PROVE  CInv'
<1>0. TypeOK /\ SessionsOK /\ AckedIsSafe /\ SucceededIsDone /\ DeadIsReported BY Unfold
<1>1. /\ ready' \in [Pairs -> [Retries -> Nat]]
      /\ \A q \in Pairs : q # p => ready'[q] = ready[q]
 <2>1. ready \in [Pairs -> [Retries -> Nat]] /\ ready[p][k] > 0 /\ ready' = Take(ready, p, k)
  BY <1>0 DEF TypeOK, ReceiveMessage
 <2> QED BY <2>1, TakeFacts
<1>2. /\ sess' \in [Sessions -> [pc : Steps, pair : Pairs \cup {NoPair}, retry : Retries,
                                 terminal : BOOLEAN, late : BOOLEAN]]
      /\ sess'[s].pc \in {"dead", "got"} /\ sess'[s].pair = p
      /\ \A t \in Sessions : t # s => sess'[t] = sess[t]
      /\ sess[s].pc = "idle"
 <2> DEFINE new == [pc |-> IF kind[p] = "malformed" THEN "dead" ELSE "got", pair |-> p,
                    retry |-> k, terminal |-> kind[p] = "malformed", late |-> sess[s].late]
 <2>1. sess' = [sess EXCEPT ![s] = new] BY DEF ReceiveMessage
 <2>2. new \in [pc : Steps, pair : Pairs \cup {NoPair}, retry : Retries,
                terminal : BOOLEAN, late : BOOLEAN]
  BY <1>0 DEF TypeOK, Steps
 <2>3. new.pc \in {"dead", "got"} /\ new.pair = p OBVIOUS
 <2> HIDE DEF new
 <2> QED BY <1>0, <2>1, <2>2, <2>3 DEF TypeOK, ReceiveMessage, At
<1>3. TypeOK' BY <1>0, <1>1, <1>2 DEF TypeOK, ReceiveMessage
<1>4. SessionsOK' /\ SucceededIsDone' /\ DeadIsReported'
 BY <1>0, <1>2 DEF ReceiveMessage, SessionsOK, SucceededIsDone, DeadIsReported, Done
<1>5. AckedIsSafe'
 <2> SUFFICES ASSUME NEW q \in Pairs, sent'[q] > 0, q \notin misjudged' PROVE Safe(q)'
  BY DEF AckedIsSafe
 <2>1. CASE q = p
  BY <1>2, <2>1 DEF Safe, HasCopy
 <2>2. CASE q # p
  BY <1>0, <1>1, <1>2, <2>2 DEF Safe, AckedIsSafe, ReceiveMessage, Done, HasCopy
 <2> QED BY <2>1, <2>2
<1> QED BY <1>3, <1>4, <1>5 DEF CInv

\* A session that goes on with its copy while copies may be added to the delay queues and the
\* dead queue. What it has to show for the step it goes to, and what it writes about its pair,
\* are up to the caller.
LEMMA MovesOn ==
    ASSUME CInv, NEW s \in Sessions, NEW pc \in Steps, sess[s].pc # "idle", pc # "idle",
           NEW p \in Pairs, p = sess[s].pair,
           sess' \in [Sessions -> [pc : Steps, pair : Pairs \cup {NoPair}, retry : Retries,
                                   terminal : BOOLEAN, late : BOOLEAN]],
           sess'[s].pc = pc, sess'[s].pair = p, sess'[s].retry = sess[s].retry,
           \A t \in Sessions : t # s => sess'[t] = sess[t],
           receipt' \in [Pairs -> {"none", "processing", "post_commit", "succeeded", "dead"}],
           effect' \in [Pairs -> BOOLEAN], posted' \in [Pairs -> BOOLEAN],
           \A q \in Pairs : q # p => receipt'[q] = receipt[q],
           \A q \in Pairs : (effect[q] => effect'[q]) /\ (posted[q] => posted'[q]),
           UNCHANGED <<kind, sent, ready, letter>>,
           delayed' \in [Pairs -> [Retries -> Nat]], deadq' \in [Pairs -> Nat],
           misjudged \subseteq misjudged', misjudged' \subseteq Pairs,
           \A q \in Pairs, k \in Retries : delayed[q][k] > 0 => delayed'[q][k] > 0,
           \A q \in Pairs : deadq[q] > 0 => deadq'[q] > 0,
           faults' \in 0..MaxFaults,
           pc = "retry" => sess[s].retry + 1 \in Retries,
           pc \in {"post", "close"} => effect'[p],
           pc = "close" => posted'[p],
           pc = "mark" => p \in misjudged' \/ deadq'[p] > 0 \/ letter[p] # "none",
           pc = "ack" => \/ Done(p)' \/ p \in misjudged' \/ deadq'[p] > 0 \/ letter[p] # "none"
                         \/ \E k \in Retries : delayed'[p][k] > 0,
           receipt'[p] = "succeeded" => Done(p)',
           receipt'[p] = "dead" => p \in misjudged' \/ deadq'[p] > 0 \/ letter[p] # "none"
    PROVE  CInv'
<1>0. TypeOK /\ SessionsOK /\ AckedIsSafe /\ SucceededIsDone /\ DeadIsReported BY Unfold
<1>1. TypeOK' BY <1>0 DEF TypeOK
<1>2. SessionsOK'
 <2> SUFFICES ASSUME NEW t \in Sessions
              PROVE  /\ sess'[t].pc = "retry" => sess'[t].retry + 1 \in Retries
                     /\ sess'[t].pc \in {"post", "close"} => effect'[sess'[t].pair]
                     /\ sess'[t].pc = "close" => posted'[sess'[t].pair]
                     /\ sess'[t].pc = "mark" => \/ sess'[t].pair \in misjudged'
                                                \/ deadq'[sess'[t].pair] > 0
                                                \/ letter'[sess'[t].pair] # "none"
  BY DEF SessionsOK
 <2>1. CASE t = s
  BY <2>1
 <2>2. CASE t # s
  <3>1. sess'[t] = sess[t] /\ (sess[t].pc # "idle" => sess[t].pair \in Pairs) BY <1>0, <2>2 DEF TypeOK
  <3> QED BY <1>0, <3>1 DEF SessionsOK
 <2> QED BY <2>1, <2>2
<1>3. \A q \in Pairs : Done(q) => Done(q)' BY DEF Done
<1>4. SucceededIsDone' /\ DeadIsReported' BY <1>0, <1>3 DEF SucceededIsDone, DeadIsReported
<1>5. AckedIsSafe'
 <2> SUFFICES ASSUME NEW q \in Pairs, sent'[q] > 0, q \notin misjudged' PROVE Safe(q)'
  BY DEF AckedIsSafe
 <2>1. Safe(q) BY <1>0 DEF AckedIsSafe
 <2>2. CASE q # p
  <3>1. \A t \in Sessions : HasCopy(t, q) => HasCopy(t, q)' BY <2>2 DEF HasCopy
  <3> QED BY <1>3, <2>1, <3>1 DEF Safe
 <2>3. CASE q = p /\ pc = "ack"
  BY <2>3 DEF Safe
 <2>4. CASE q = p /\ pc # "ack"
  BY <2>4 DEF Safe, HasCopy
 <2> QED BY <2>2, <2>3, <2>4
<1> QED BY <1>1, <1>2, <1>4, <1>5 DEF CInv

\* The same for a step that leaves the queues as they are.
LEMMA GoesOn ==
    ASSUME CInv, NEW s \in Sessions, NEW pc \in Steps, sess[s].pc # "idle", pc # "idle",
           NEW p \in Pairs, p = sess[s].pair,
           sess' \in [Sessions -> [pc : Steps, pair : Pairs \cup {NoPair}, retry : Retries,
                                   terminal : BOOLEAN, late : BOOLEAN]],
           sess'[s].pc = pc, sess'[s].pair = p, sess'[s].retry = sess[s].retry,
           \A t \in Sessions : t # s => sess'[t] = sess[t],
           receipt' \in [Pairs -> {"none", "processing", "post_commit", "succeeded", "dead"}],
           effect' \in [Pairs -> BOOLEAN], posted' \in [Pairs -> BOOLEAN],
           \A q \in Pairs : q # p => receipt'[q] = receipt[q],
           \A q \in Pairs : (effect[q] => effect'[q]) /\ (posted[q] => posted'[q]),
           UNCHANGED <<kind, sent, ready, delayed, deadq, letter, misjudged>>,
           faults' \in 0..MaxFaults,
           pc = "retry" => sess[s].retry + 1 \in Retries,
           pc \in {"post", "close"} => effect'[p],
           pc = "close" => posted'[p],
           pc = "mark" => p \in misjudged \/ deadq[p] > 0 \/ letter[p] # "none",
           pc = "ack" => Done(p)' \/ p \in misjudged \/ deadq[p] > 0 \/ letter[p] # "none",
           receipt'[p] = "succeeded" => Done(p)',
           receipt'[p] = "dead" => p \in misjudged \/ deadq[p] > 0 \/ letter[p] # "none"
    PROVE  CInv'
<1>1. /\ delayed' \in [Pairs -> [Retries -> Nat]] /\ deadq' \in [Pairs -> Nat]
      /\ misjudged \subseteq misjudged' /\ misjudged' \subseteq Pairs
 BY Unfold DEF TypeOK
<1> QED BY <1>1, MovesOn

LEMMA DuplicateStep == ASSUME CInv, NEW s \in Sessions, ProcessDuplicate(s) PROVE CInv'
<1>0. PICK p \in Pairs : p = sess[s].pair BY Unfold DEF ProcessDuplicate, At
<1>a. TypeOK /\ SucceededIsDone /\ DeadIsReported
 BY Unfold
<1>1. sess[s].pc # "idle" /\ "ack" \in Steps /\ Goto(s, "ack") BY DEF ProcessDuplicate, At, Steps
<1>2. /\ receipt[p] = "succeeded"
      /\ UNCHANGED <<kind, sent, ready, delayed, deadq, receipt, effect, posted, letter, faults, misjudged>>
 BY <1>0 DEF ProcessDuplicate
<1>3. Done(p)' BY <1>a, <1>2 DEF SucceededIsDone, Done
<1>4. /\ sess' \in [Sessions -> [pc : Steps, pair : Pairs \cup {NoPair}, retry : Retries,
                                 terminal : BOOLEAN, late : BOOLEAN]]
      /\ sess'[s].pc = "ack" /\ sess'[s].pair = p /\ sess'[s].retry = sess[s].retry
      /\ \A t \in Sessions : t # s => sess'[t] = sess[t]
 BY <1>0, <1>a, <1>1, GotoFacts
<1>5. /\ receipt' \in [Pairs -> {"none", "processing", "post_commit", "succeeded", "dead"}]
      /\ effect' \in [Pairs -> BOOLEAN] /\ posted' \in [Pairs -> BOOLEAN] /\ faults' \in 0..MaxFaults
 BY <1>a, <1>2 DEF TypeOK
<1> QED BY <1>0, <1>1, <1>2, <1>3, <1>4, <1>5, GoesOn

LEMMA EnvelopeStep == ASSUME CInv, NEW s \in Sessions, ProcessEnvelope(s) PROVE CInv'
<1>p. PICK p \in Pairs : p = sess[s].pair
 BY Unfold DEF ProcessEnvelope, At
<1>0. TypeOK BY Unfold
<1>1. PICK next \in {"post", "ack"} :
         /\ sess[s].pc # "idle" /\ next \in Steps /\ Goto(s, next)
         /\ (next = "ack" => kind[p] # "reliable")
 BY <1>p DEF ProcessEnvelope, At, Steps
<1>2. /\ effect' = [effect EXCEPT ![p] = TRUE] /\ receipt' = [receipt EXCEPT ![p] = HandledStatus(p)]
      /\ UNCHANGED <<kind, sent, ready, delayed, deadq, posted, letter, faults, misjudged>>
 BY <1>p DEF ProcessEnvelope
<1>3. HandledStatus(p) \in {"post_commit", "succeeded"} BY DEF HandledStatus
<1>4. /\ effect' \in [Pairs -> BOOLEAN] /\ effect'[p]
      /\ receipt' \in [Pairs -> {"none", "processing", "post_commit", "succeeded", "dead"}]
      /\ receipt'[p] = HandledStatus(p)
      /\ \A q \in Pairs : q # p => receipt'[q] = receipt[q]
      /\ \A q \in Pairs : (effect[q] => effect'[q]) /\ (posted[q] => posted'[q])
 BY <1>0, <1>2, <1>3 DEF TypeOK
<1>5. kind[p] # "reliable" => Done(p)' BY <1>2, <1>4 DEF Done
<1>6. receipt'[p] = "succeeded" => kind[p] # "reliable" BY <1>4 DEF HandledStatus
<1>8. /\ posted' \in [Pairs -> BOOLEAN] /\ faults' \in 0..MaxFaults
      /\ sess' \in [Sessions -> [pc : Steps, pair : Pairs \cup {NoPair}, retry : Retries,
                                 terminal : BOOLEAN, late : BOOLEAN]]
      /\ sess'[s].pc = next /\ sess'[s].pair = p /\ sess'[s].retry = sess[s].retry
      /\ \A t \in Sessions : t # s => sess'[t] = sess[t]
 BY <1>p, <1>0, <1>1, <1>2, GotoFacts DEF TypeOK
<1>9. receipt'[p] # "dead" BY <1>3, <1>4
<1> QED BY <1>p, <1>1, <1>2, <1>4, <1>5, <1>6, <1>8, <1>9, GoesOn

LEMMA FailsStep ==
    ASSUME CInv, NEW s \in Sessions, NEW terminal \in BOOLEAN, ProcessFails(s, terminal)
    PROVE  CInv'
<1>p. PICK p \in Pairs : p = sess[s].pair /\ sess[s].pc # "idle"
 BY Unfold DEF ProcessFails, At
<1>0. TypeOK /\ SucceededIsDone /\ DeadIsReported BY Unfold
<1>t. /\ sess \in [Sessions -> [pc : Steps, pair : Pairs \cup {NoPair}, retry : Retries,
                                terminal : BOOLEAN, late : BOOLEAN]]
      /\ sess' = [sess EXCEPT ![s].pc = "fail", ![s].terminal = terminal]
 BY <1>0 DEF TypeOK, ProcessFails
<1>f. "fail" \in Steps
 BY DEF Steps
<1>1. /\ sess' \in [Sessions -> [pc : Steps, pair : Pairs \cup {NoPair}, retry : Retries,
                                 terminal : BOOLEAN, late : BOOLEAN]]
      /\ sess'[s].pc = "fail" /\ sess'[s].pair = p /\ sess'[s].retry = sess[s].retry
      /\ \A t \in Sessions : t # s => sess'[t] = sess[t]
      /\ "fail" \in Steps
 BY <1>p, <1>t, <1>f
<1>2. UNCHANGED <<kind, sent, ready, delayed, deadq, receipt, effect, posted, letter, faults, misjudged>>
 BY DEF ProcessFails
<1>3. /\ receipt'[p] = "succeeded" => Done(p)'
      /\ receipt'[p] = "dead" => p \in misjudged \/ deadq[p] > 0 \/ letter[p] # "none"
 BY <1>0, <1>2 DEF SucceededIsDone, DeadIsReported, Done
<1>4. /\ receipt' \in [Pairs -> {"none", "processing", "post_commit", "succeeded", "dead"}]
      /\ effect' \in [Pairs -> BOOLEAN] /\ posted' \in [Pairs -> BOOLEAN] /\ faults' \in 0..MaxFaults
 BY <1>0, <1>2 DEF TypeOK
<1> QED BY <1>p, <1>1, <1>2, <1>3, <1>4, GoesOn

LEMMA AfterCommitStep == ASSUME CInv, NEW s \in Sessions, AfterCommit(s) PROVE CInv'
<1>p. PICK p \in Pairs : p = sess[s].pair /\ sess[s].pc = "post"
 BY Unfold DEF AfterCommit, At
<1>0. TypeOK /\ SessionsOK /\ SucceededIsDone /\ DeadIsReported BY Unfold
<1>1. PICK next \in {"close", "fail"} :
         /\ Goto(s, next)
         /\ posted' = IF next = "close" THEN [posted EXCEPT ![p] = TRUE] ELSE posted
         /\ UNCHANGED <<kind, sent, ready, delayed, deadq, receipt, effect, letter, faults, misjudged>>
 BY <1>p DEF AfterCommit
<1>2. /\ posted' \in [Pairs -> BOOLEAN] /\ (next = "close" => posted'[p])
      /\ \A q \in Pairs : posted[q] => posted'[q]
 BY <1>0, <1>1 DEF TypeOK
<1>3. effect[p] BY <1>p, <1>0 DEF SessionsOK
<1>4. receipt'[p] = "succeeded" => Done(p)' BY <1>0, <1>1, <1>2 DEF SucceededIsDone, Done
<1>5. receipt'[p] = "dead" => p \in misjudged \/ deadq[p] > 0 \/ letter[p] # "none"
 BY <1>0, <1>1 DEF DeadIsReported
<1>6. /\ next \in Steps /\ sess[s].pc # "idle"
      /\ sess' \in [Sessions -> [pc : Steps, pair : Pairs \cup {NoPair}, retry : Retries,
                                 terminal : BOOLEAN, late : BOOLEAN]]
      /\ sess'[s].pc = next /\ sess'[s].pair = p /\ sess'[s].retry = sess[s].retry
      /\ \A t \in Sessions : t # s => sess'[t] = sess[t]
 BY <1>p, <1>0, <1>1, GotoFacts DEF Steps
<1>7. /\ receipt' \in [Pairs -> {"none", "processing", "post_commit", "succeeded", "dead"}]
      /\ effect' \in [Pairs -> BOOLEAN] /\ faults' \in 0..MaxFaults
 BY <1>0, <1>1 DEF TypeOK
<1> QED BY <1>p, <1>1, <1>2, <1>3, <1>4, <1>5, <1>6, <1>7, GoesOn

LEMMA CloseStep == ASSUME CInv, NEW s \in Sessions, CloseReceipt(s) PROVE CInv'
<1>p. PICK p \in Pairs : p = sess[s].pair /\ sess[s].pc = "close"
 BY Unfold DEF CloseReceipt, At
<1>0. TypeOK /\ SessionsOK /\ SucceededIsDone /\ DeadIsReported BY Unfold
<1>1. PICK next \in {"ack", "fail"} :
         /\ Goto(s, next)
         /\ receipt' = IF next = "ack" THEN [receipt EXCEPT ![p] = "succeeded"] ELSE receipt
         /\ faults' = faults \/ Fault
         /\ UNCHANGED <<kind, sent, ready, delayed, deadq, effect, posted, letter, misjudged>>
 BY <1>p DEF CloseReceipt
<1>2. /\ receipt' \in [Pairs -> {"none", "processing", "post_commit", "succeeded", "dead"}]
      /\ (next = "ack" => receipt'[p] = "succeeded") /\ (next = "fail" => receipt' = receipt)
      /\ \A q \in Pairs : q # p => receipt'[q] = receipt[q]
      /\ faults' \in 0..MaxFaults
 BY <1>0, <1>1, ConsumerAssumption DEF TypeOK, Fault
<1>3. Done(p)' BY <1>p, <1>0, <1>1 DEF SessionsOK, Done
<1>5. receipt'[p] = "dead" => p \in misjudged \/ deadq[p] > 0 \/ letter[p] # "none"
 BY <1>0, <1>2 DEF DeadIsReported
<1>6. /\ next \in Steps /\ sess[s].pc # "idle"
      /\ sess' \in [Sessions -> [pc : Steps, pair : Pairs \cup {NoPair}, retry : Retries,
                                 terminal : BOOLEAN, late : BOOLEAN]]
      /\ sess'[s].pc = next /\ sess'[s].pair = p /\ sess'[s].retry = sess[s].retry
      /\ \A t \in Sessions : t # s => sess'[t] = sess[t]
 BY <1>p, <1>0, <1>1, GotoFacts DEF Steps
<1>7. effect' \in [Pairs -> BOOLEAN] /\ posted' \in [Pairs -> BOOLEAN] BY <1>0, <1>1 DEF TypeOK
<1> QED BY <1>p, <1>1, <1>2, <1>3, <1>5, <1>6, <1>7, GoesOn

LEMMA FaultFacts == ASSUME TypeOK, Fault PROVE faults' \in 0..MaxFaults
BY ConsumerAssumption DEF TypeOK, Fault

\* A session that gives its copy back and changes nothing else but the faults.
LEMMA GivesBack ==
    ASSUME CInv, NEW s \in Sessions, sess[s].pc # "idle", Requeue(s), Fault,
           UNCHANGED <<kind, sent, delayed, deadq, receipt, effect, posted, letter, misjudged>>
    PROVE  CInv'
<1>0. TypeOK BY Unfold
<1>1. /\ faults' \in 0..MaxFaults /\ sess[s].late \in BOOLEAN
      /\ delayed' \in [Pairs -> [Retries -> Nat]] /\ deadq' \in [Pairs -> Nat]
 BY <1>0, FaultFacts DEF TypeOK
<1>2. /\ ready' = Enqueued(ready, sess[s].pair, sess[s].retry) /\ sess' = [sess EXCEPT ![s] = Resting(sess[s].late)]
 BY DEF Requeue, SessionIdle
<1> QED BY <1>1, <1>2, RequeueStep

LEMMA RecordFailureStep == ASSUME CInv, NEW s \in Sessions, RecordFailure(s) PROVE CInv'
<1>p. PICK p \in Pairs : p = sess[s].pair /\ sess[s].pc = "fail" /\ sess[s].retry \in Retries
 BY Unfold DEF RecordFailure, At
<1>0. TypeOK BY Unfold
<1>1. CASE /\ receipt' = [receipt EXCEPT ![p] = "processing"]
           /\ Goto(s, IF Exhausted(s) THEN "dead" ELSE "retry")
           /\ UNCHANGED <<kind, sent, ready, delayed, deadq, effect, posted, letter, faults, misjudged>>
 <2>1. PICK next \in {"dead", "retry"} : Goto(s, next) /\ (next = "retry" => ~Exhausted(s)) BY <1>1
 <2>2. next = "retry" => sess[s].retry + 1 \in Retries
  BY <1>p, <2>1, ConsumerAssumption DEF Exhausted, Retries
 <2>3. /\ next \in Steps /\ sess[s].pc # "idle"
       /\ sess' \in [Sessions -> [pc : Steps, pair : Pairs \cup {NoPair}, retry : Retries,
                                  terminal : BOOLEAN, late : BOOLEAN]]
       /\ sess'[s].pc = next /\ sess'[s].pair = p /\ sess'[s].retry = sess[s].retry
       /\ \A t \in Sessions : t # s => sess'[t] = sess[t]
  BY <1>p, <1>0, <2>1, GotoFacts DEF Steps
 <2>4. /\ receipt' \in [Pairs -> {"none", "processing", "post_commit", "succeeded", "dead"}]
       /\ receipt'[p] = "processing" /\ \A q \in Pairs : q # p => receipt'[q] = receipt[q]
       /\ effect' \in [Pairs -> BOOLEAN] /\ posted' \in [Pairs -> BOOLEAN] /\ faults' \in 0..MaxFaults
  BY <1>0, <1>1 DEF TypeOK
 <2> QED BY <1>p, <1>1, <2>2, <2>3, <2>4, GoesOn
<1>2. CASE /\ Fault /\ Requeue(s)
           /\ UNCHANGED <<kind, sent, delayed, deadq, receipt, effect, posted, letter, misjudged>>
 BY <1>p, <1>2, GivesBack
<1> QED BY <1>p, <1>1, <1>2 DEF RecordFailure

LEMMA MarkDeadStep == ASSUME CInv, NEW s \in Sessions, MarkDead(s) PROVE CInv'
<1>p. PICK p \in Pairs : p = sess[s].pair /\ sess[s].pc = "mark"
 BY Unfold DEF MarkDead, At
<1>0. TypeOK /\ SessionsOK BY Unfold
<1>1. CASE /\ receipt' = [receipt EXCEPT ![p] = IF @ = "none" THEN "none" ELSE "dead"]
           /\ Goto(s, "ack")
           /\ UNCHANGED <<kind, sent, ready, delayed, deadq, effect, posted, letter, faults, misjudged>>
 <2>1. p \in misjudged \/ deadq[p] > 0 \/ letter[p] # "none" BY <1>p, <1>0 DEF SessionsOK
 <2>3. /\ "ack" \in Steps /\ sess[s].pc # "idle"
       /\ sess' \in [Sessions -> [pc : Steps, pair : Pairs \cup {NoPair}, retry : Retries,
                                  terminal : BOOLEAN, late : BOOLEAN]]
       /\ sess'[s].pc = "ack" /\ sess'[s].pair = p /\ sess'[s].retry = sess[s].retry
       /\ \A t \in Sessions : t # s => sess'[t] = sess[t]
  BY <1>p, <1>0, <1>1, GotoFacts DEF Steps
 <2>4. /\ receipt' \in [Pairs -> {"none", "processing", "post_commit", "succeeded", "dead"}]
       /\ receipt'[p] # "succeeded" /\ \A q \in Pairs : q # p => receipt'[q] = receipt[q]
       /\ effect' \in [Pairs -> BOOLEAN] /\ posted' \in [Pairs -> BOOLEAN] /\ faults' \in 0..MaxFaults
  BY <1>0, <1>1 DEF TypeOK
 <2> QED BY <1>p, <1>1, <2>1, <2>3, <2>4, GoesOn
<1>2. CASE /\ Fault /\ Requeue(s)
           /\ UNCHANGED <<kind, sent, delayed, deadq, receipt, effect, posted, letter, misjudged>>
 BY <1>p, <1>2, GivesBack
<1> QED BY <1>p, <1>1, <1>2 DEF MarkDead

\* publishConfirmed: a copy that arrives, one whose answer was another's, and one that goes
\* back. vouched says where the arriving copy went.
LEMMA PublishStep ==
    ASSUME CInv, NEW s \in Sessions, NEW next \in {"ack", "mark"}, NEW p \in Pairs,
           p = sess[s].pair, sess[s].pc # "idle",
           delayed' \in [Pairs -> [Retries -> Nat]], deadq' \in [Pairs -> Nat],
           \A q \in Pairs, k \in Retries : delayed[q][k] > 0 => delayed'[q][k] > 0,
           \A q \in Pairs : deadq[q] > 0 => deadq'[q] > 0,
           NEW arrives \in BOOLEAN,
           arrives => \/ deadq'[p] > 0
                      \/ next = "ack" /\ \E k \in Retries : delayed'[p][k] > 0,
           Publish(s, next, arrives),
           UNCHANGED <<kind, sent, receipt, effect, posted, letter>>
    PROVE  CInv'
<1>0. TypeOK /\ SucceededIsDone /\ DeadIsReported /\ next \in Steps /\ next # "idle" BY Unfold DEF Steps
<1>1. CASE /\ Goto(s, next) /\ UNCHANGED ready /\ (Fault \/ UNCHANGED faults)
           /\ \/ arrives /\ misjudged' = misjudged
              \/ misjudged' = misjudged \cup {p}
 <2>1. /\ misjudged \subseteq misjudged' /\ misjudged' \subseteq Pairs
       /\ arrives \/ p \in misjudged'
  BY <1>0, <1>1 DEF TypeOK
 <2>2. /\ sess' \in [Sessions -> [pc : Steps, pair : Pairs \cup {NoPair}, retry : Retries,
                                  terminal : BOOLEAN, late : BOOLEAN]]
       /\ sess'[s].pc = next /\ sess'[s].pair = p /\ sess'[s].retry = sess[s].retry
       /\ \A t \in Sessions : t # s => sess'[t] = sess[t]
  BY <1>0, <1>1, GotoFacts
 <2>3. /\ receipt' \in [Pairs -> {"none", "processing", "post_commit", "succeeded", "dead"}]
       /\ effect' \in [Pairs -> BOOLEAN] /\ posted' \in [Pairs -> BOOLEAN] /\ faults' \in 0..MaxFaults
  BY <1>0, <1>1, FaultFacts DEF TypeOK
 <2>4. receipt'[p] = "succeeded" => Done(p)' BY <1>0 DEF SucceededIsDone, Done
 <2>5. receipt'[p] = "dead" => p \in misjudged' \/ deadq'[p] > 0 \/ letter[p] # "none"
  BY <1>0, <2>1 DEF DeadIsReported
 <2>6. UNCHANGED <<kind, sent, ready, letter>> BY <1>1
 <2> QED BY <1>0, <2>1, <2>2, <2>3, <2>4, <2>5, <2>6, MovesOn
<1>2. CASE /\ Fault /\ ready' = Enqueued(ready, sess[s].pair, sess[s].retry)
           /\ sess' = [sess EXCEPT ![s] = Resting(TRUE)] /\ UNCHANGED misjudged
 <2>1. faults' \in 0..MaxFaults BY <1>0, <1>2, FaultFacts
 <2> QED BY <1>2, <2>1, RequeueStep
<1>3. CASE Fault /\ Requeue(s) /\ UNCHANGED <<delayed, deadq, misjudged>>
 BY <1>3, GivesBack
<1> QED BY <1>1, <1>2, <1>3 DEF Publish

LEMMA RetryLaterStep == ASSUME CInv, NEW s \in Sessions, RetryLater(s) PROVE CInv'
<1>p. PICK p \in Pairs : p = sess[s].pair /\ sess[s].pc = "retry"
 BY Unfold DEF RetryLater, At
<1>0. TypeOK /\ SessionsOK BY Unfold
<1>k. PICK k \in Retries : k = sess[s].retry + 1
 BY <1>p, <1>0 DEF SessionsOK
<1>1. CASE delayed' = Enqueued(delayed, p, k) /\ UNCHANGED deadq
 <2>1. /\ delayed' \in [Pairs -> [Retries -> Nat]] /\ delayed'[p][k] > 0
       /\ \A q \in Pairs, n \in Retries : delayed[q][n] > 0 => delayed'[q][n] > 0
       /\ deadq' \in [Pairs -> Nat]
  BY <1>0, <1>1, EnqueuedFacts DEF TypeOK
 <2>2. Publish(s, "ack", TRUE) /\ UNCHANGED <<kind, sent, receipt, effect, posted, letter>>
  BY <1>p, <1>k, <1>1 DEF RetryLater, Publish
 <2> QED BY <1>p, <1>1, <2>1, <2>2, PublishStep
<1>2. CASE ~(delayed' = Enqueued(delayed, p, k) /\ UNCHANGED deadq)
 <2>1. /\ Publish(s, "ack", FALSE) /\ UNCHANGED <<kind, sent, receipt, effect, posted, letter>>
       /\ UNCHANGED <<delayed, deadq>>
  BY <1>p, <1>k, <1>2 DEF RetryLater, Publish
 <2>2. delayed' \in [Pairs -> [Retries -> Nat]] /\ deadq' \in [Pairs -> Nat] BY <1>0, <2>1 DEF TypeOK
 <2> QED BY <1>p, <2>1, <2>2, PublishStep
<1> QED BY <1>1, <1>2

LEMMA DeadLetterStep == ASSUME CInv, NEW s \in Sessions, DeadLetter(s) PROVE CInv'
<1>p. PICK p \in Pairs : p = sess[s].pair /\ sess[s].pc = "dead"
 BY Unfold DEF DeadLetter, At
<1>0. TypeOK BY Unfold
<1>1. CASE deadq' = [deadq EXCEPT ![p] = @ + 1] /\ UNCHANGED delayed
 <2>1. /\ delayed' \in [Pairs -> [Retries -> Nat]] /\ deadq' \in [Pairs -> Nat] /\ deadq'[p] > 0
       /\ \A q \in Pairs : deadq[q] > 0 => deadq'[q] > 0
  BY <1>0, <1>1 DEF TypeOK
 <2>2. Publish(s, "mark", TRUE) /\ UNCHANGED <<kind, sent, receipt, effect, posted, letter>>
  BY <1>p, <1>1 DEF DeadLetter, Publish
 <2> QED BY <1>p, <1>1, <2>1, <2>2, PublishStep
<1>2. CASE ~(deadq' = [deadq EXCEPT ![p] = @ + 1] /\ UNCHANGED delayed)
 <2>1. /\ Publish(s, "mark", FALSE) /\ UNCHANGED <<kind, sent, receipt, effect, posted, letter>>
       /\ UNCHANGED <<delayed, deadq>>
  BY <1>p, <1>2 DEF DeadLetter, Publish
 <2>2. delayed' \in [Pairs -> [Retries -> Nat]] /\ deadq' \in [Pairs -> Nat] BY <1>0, <2>1 DEF TypeOK
 <2> QED BY <1>p, <2>1, <2>2, PublishStep
<1> QED BY <1>1, <1>2

\* The ack gives up a copy that AckedIsSafe never counted.
LEMMA AckStep == ASSUME CInv, NEW s \in Sessions, Ack(s) PROVE CInv'
<1>0. /\ TypeOK /\ SessionsOK /\ AckedIsSafe /\ SucceededIsDone /\ DeadIsReported
 BY Unfold
<1>1. /\ sess[s].late \in BOOLEAN /\ sess' = [sess EXCEPT ![s] = Resting(sess[s].late)] /\ sess[s].pc = "ack"
      /\ UNCHANGED <<kind, sent, ready, delayed, deadq, receipt, effect, posted, letter, faults, misjudged>>
 BY <1>0 DEF TypeOK, Ack, SessionIdle, At
<1>2. /\ sess' \in [Sessions -> [pc : Steps, pair : Pairs \cup {NoPair}, retry : Retries,
                                 terminal : BOOLEAN, late : BOOLEAN]]
      /\ sess'[s].pc = "idle"
      /\ \A t \in Sessions : t # s => sess'[t] = sess[t]
      /\ \A t \in Sessions : sess'[t].pc # "idle" => sess'[t].pair \in Pairs
 BY <1>0, <1>1, RestFacts
<1>3. TypeOK' BY <1>0, <1>1, <1>2 DEF TypeOK
<1>4. SessionsOK' /\ SucceededIsDone' /\ DeadIsReported'
 BY <1>0, <1>1, <1>2 DEF SessionsOK, SucceededIsDone, DeadIsReported, Done
<1>5. AckedIsSafe'
 <2> SUFFICES ASSUME NEW q \in Pairs, sent'[q] > 0, q \notin misjudged' PROVE Safe(q)'
  BY DEF AckedIsSafe
 <2>1. Safe(q) BY <1>0, <1>1 DEF AckedIsSafe
 <2>2. \A t \in Sessions : HasCopy(t, q) => HasCopy(t, q)' BY <1>1, <1>2 DEF HasCopy
 <2> QED BY <1>1, <2>1, <2>2 DEF Safe, Done
<1> QED BY <1>3, <1>4, <1>5 DEF CInv

----------------------------------------
(* The dead sink, the administrator and the scans. *)

LEMMA PersistStep == ASSUME CInv, NEW p \in Pairs, Persist(p) PROVE CInv'
<1>0. TypeOK /\ SessionsOK /\ AckedIsSafe /\ SucceededIsDone /\ DeadIsReported BY Unfold
<1>1. /\ deadq' \in [Pairs -> Nat] /\ faults' \in 0..MaxFaults
      /\ \A q \in Pairs : q # p => deadq'[q] = deadq[q]
 <2>1. deadq[p] \in Nat /\ deadq[p] - 1 \in Nat /\ faults \in 0..MaxFaults /\ deadq \in [Pairs -> Nat]
  BY <1>0 DEF TypeOK, Persist
 <2>2. CASE deadq' = [deadq EXCEPT ![p] = @ - 1] /\ UNCHANGED faults
  BY <2>1, <2>2
 <2>3. CASE Fault /\ UNCHANGED deadq
  BY <1>0, <2>1, <2>3, FaultFacts
 <2> QED BY <2>2, <2>3 DEF Persist
<1>2. /\ letter' \in [Pairs -> {"none", "open", "replayed"}] /\ letter'[p] # "none"
      /\ \A q \in Pairs : q # p => letter'[q] = letter[q]
      /\ UNCHANGED <<kind, sent, ready, delayed, receipt, effect, posted, sess, misjudged>>
 BY <1>0 DEF TypeOK, Persist
<1>3. TypeOK' BY <1>0, <1>1, <1>2 DEF TypeOK
<1>4. SessionsOK' BY <1>0, <1>1, <1>2 DEF TypeOK, SessionsOK
<1>5. SucceededIsDone' /\ DeadIsReported' BY <1>0, <1>1, <1>2 DEF SucceededIsDone, DeadIsReported, Done
<1>6. AckedIsSafe'
 <2> SUFFICES ASSUME NEW q \in Pairs, sent'[q] > 0, q \notin misjudged' PROVE Safe(q)'
  BY DEF AckedIsSafe
 <2>1. CASE q = p
  BY <1>2, <2>1 DEF Safe
 <2>2. CASE q # p
  BY <1>0, <1>1, <1>2, <2>2 DEF Safe, AckedIsSafe, Done, HasCopy
 <2> QED BY <2>1, <2>2
<1> QED BY <1>3, <1>4, <1>5, <1>6 DEF CInv

LEMMA ReplayStep == ASSUME CInv, NEW p \in Pairs, Replay(p) PROVE CInv'
<1>0. TypeOK /\ SessionsOK /\ AckedIsSafe /\ SucceededIsDone /\ DeadIsReported BY Unfold
<1>1. /\ letter' \in [Pairs -> {"none", "open", "replayed"}]
      /\ \A q \in Pairs : letter[q] # "none" => letter'[q] # "none"
      /\ UNCHANGED <<kind, sent, ready, delayed, deadq, receipt, effect, posted, sess, faults, misjudged>>
 BY <1>0 DEF TypeOK, Replay
<1>2. TypeOK' BY <1>0, <1>1 DEF TypeOK
<1>3. SessionsOK' BY <1>0, <1>1 DEF TypeOK, SessionsOK
<1>4. SucceededIsDone' /\ DeadIsReported' BY <1>0, <1>1 DEF SucceededIsDone, DeadIsReported, Done
<1>5. AckedIsSafe' BY <1>0, <1>1 DEF Safe, AckedIsSafe, Done, HasCopy
<1> QED BY <1>2, <1>3, <1>4, <1>5 DEF CInv

\* A scan that writes about its pair and moves no copy.
LEMMA ScanStep ==
    ASSUME CInv, NEW p \in Pairs,
           NEW status \in {"succeeded", "processing"},
           effect' = IF status = "succeeded" THEN [effect EXCEPT ![p] = TRUE] ELSE effect,
           receipt' = [receipt EXCEPT ![p] = status],
           kind[p] # "reliable",
           UNCHANGED <<kind, sent, ready, delayed, deadq, posted, letter, sess, faults, misjudged>>
    PROVE  CInv'
<1>0. TypeOK /\ SessionsOK /\ AckedIsSafe /\ SucceededIsDone /\ DeadIsReported BY Unfold
<1>1. /\ effect' \in [Pairs -> BOOLEAN] /\ \A q \in Pairs : effect[q] => effect'[q]
      /\ status = "succeeded" => effect'[p]
      /\ receipt' \in [Pairs -> {"none", "processing", "post_commit", "succeeded", "dead"}]
      /\ receipt'[p] = status /\ \A q \in Pairs : q # p => receipt'[q] = receipt[q]
 BY <1>0 DEF TypeOK
<1>2. \A q \in Pairs : Done(q) => Done(q)' BY <1>1 DEF Done
<1>3. status = "succeeded" => Done(p)' BY <1>1 DEF Done
<1>4. TypeOK' BY <1>0, <1>1 DEF TypeOK
<1>5. SessionsOK' BY <1>0, <1>1 DEF TypeOK, SessionsOK
<1>6. SucceededIsDone' /\ DeadIsReported' BY <1>0, <1>1, <1>2, <1>3 DEF SucceededIsDone, DeadIsReported
<1>7. AckedIsSafe' BY <1>0, <1>2 DEF Safe, AckedIsSafe, HasCopy
<1> QED BY <1>4, <1>5, <1>6, <1>7 DEF CInv

LEMMA FanoutStep == ASSUME CInv, NEW p \in Pairs, Fanout(p) PROVE CInv'
BY ScanStep DEF Fanout

LEMMA ReconcileStep == ASSUME CInv, NEW p \in Pairs, ReconcileReceipt(p) PROVE CInv'
<1>1. CASE receipt' = [receipt EXCEPT ![p] = "succeeded"] /\ effect' = [effect EXCEPT ![p] = TRUE]
 BY <1>1, ScanStep DEF ReconcileReceipt
<1>2. CASE receipt' = [receipt EXCEPT ![p] = "processing"] /\ UNCHANGED effect
 BY <1>2, ScanStep DEF ReconcileReceipt
<1> QED BY <1>1, <1>2 DEF ReconcileReceipt

----------------------------------------
LEMMA WorkStep == ASSUME CInv, NEW s \in Sessions, Work(s) PROVE CInv'
<1>1. CASE ProcessDuplicate(s) \/ ProcessEnvelope(s)
 BY <1>1, DuplicateStep, EnvelopeStep
<1>2. CASE \E terminal \in BOOLEAN : ProcessFails(s, terminal)
 BY <1>2, FailsStep
<1>3. CASE AfterCommit(s) \/ CloseReceipt(s) \/ RecordFailure(s)
 BY <1>3, AfterCommitStep, CloseStep, RecordFailureStep
<1>4. CASE RetryLater(s) \/ DeadLetter(s) \/ MarkDead(s) \/ Ack(s)
 BY <1>4, RetryLaterStep, DeadLetterStep, MarkDeadStep, AckStep
<1> QED BY <1>1, <1>2, <1>3, <1>4 DEF Work

LEMMA ConsumerKeeps == CInv /\ [ConsumerNext]_cvars => CInv'
<1> SUFFICES ASSUME CInv, [ConsumerNext]_cvars PROVE CInv'
 OBVIOUS
<1>1. CASE \E p \in Pairs : Send(p) \/ Persist(p) \/ Replay(p) \/ Fanout(p) \/ ReconcileReceipt(p)
 BY <1>1, SendStep, PersistStep, ReplayStep, FanoutStep, ReconcileStep
<1>2. CASE \E p \in Pairs, k \in Retries : DelayExpires(p, k)
 BY <1>2, DelayExpiresStep
<1>3. CASE \E s \in Sessions, p \in Pairs, k \in Retries : ReceiveMessage(s, p, k)
 BY <1>3, ReceiveStep
<1>4. CASE \E s \in Sessions : Work(s) \/ SessionEnds(s)
 BY <1>4, WorkStep, SessionEndsStep
<1>5. CASE UNCHANGED cvars
 BY <1>5 DEF cvars, CInv, TypeOK, SessionsOK, AckedIsSafe, SucceededIsDone, DeadIsReported,
             Safe, HasCopy, Done
<1> QED BY <1>1, <1>2, <1>3, <1>4, <1>5 DEF ConsumerNext

\* No message the publisher handed over is lost, a receipt that says succeeded has its rows
\* and its fan-out, and one that says dead has a letter or a copy on its way to the sink
\* (handleDelivery, retry, deadLetter, DeadSink.persist, the scans), for any number of
\* consumers, events, sessions, retries, crashes and refused publishes.
THEOREM MessagesKeptAlways == ConsumerSpec => []MessagesKept
<1>1. ConsumerSpec => []CInv BY CInitially, ConsumerKeeps, PTL DEF ConsumerSpec
<1> QED BY <1>1, CInvImplies, PTL

----------------------------------------
(* Print tasks. *)

TaskRows == [status : TaskStatus, owner : PrintWorkers \cup {NoWorker}, lapsed : BOOLEAN,
             submitted : BOOLEAN, attempts : Nat]

PrintAttemptsOf == [pc : {"run", "unknown", "query", "finish"}, task : PrintTasks, attempts : Nat,
                    op : {"none", "submit", "query"},
                    result : {"none", "ok", "open", "retryable", "permanent"}]

PrintTypes ==
    /\ setting \in {"none", "on", "off"} /\ task \in [PrintTasks -> TaskRows]
    /\ printer \in [PrintWorkers -> [pc : {"idle"}] \cup PrintAttemptsOf] /\ printed \in [PrintTasks -> Nat]
    /\ printRetries \in 0..MaxPrintRetries /\ interrupted \subseteq PrintTasks

\* A row that is not there was not printed; only one in flight has an owner; every attempt
\* beyond the limit was asked for by the administrator.
TaskOK(t) ==
    /\ task[t].status = "none" => ~task[t].submitted /\ printed[t] = 0
    /\ task[t].status \notin {"processing", "querying"} => task[t].owner = NoWorker
    /\ task[t].status \notin {"succeeded", "dead"} => task[t].attempts <= PrintAttempts + printRetries
    /\ task[t].attempts <= PrintAttempts + printRetries + 1
    /\ task[t].status = "succeeded" => printed[t] > 0

\* What a worker read is so while it owns the task, and it owns it unless it was interrupted.
PrinterOK(w) ==
    printer[w].pc # "idle" =>
        /\ task[printer[w].task].status # "none"
        /\ task[printer[w].task].owner = w => task[printer[w].task].attempts = printer[w].attempts
        /\ printer[w].pc = "finish" /\ printer[w].result = "ok" => printed[printer[w].task] > 0
        /\ printer[w].task \notin interrupted =>
              /\ task[printer[w].task].owner = w /\ ~task[printer[w].task].lapsed
              /\ printer[w].pc = "run" => ~task[printer[w].task].submitted

\* The worker is about to write down that the provider may have the task.
Telling(w, t) ==
    /\ printer[w].pc # "idle" /\ printer[w].task = t
    /\ printer[w].pc = "unknown" \/ (printer[w].pc = "finish" /\ PossiblySubmitted(w))

\* What was printed without an interruption was printed once, and the row says so or will.
PrintKnown(t) ==
    t \notin interrupted =>
        /\ printed[t] <= 1
        /\ printed[t] = 1 => task[t].submitted \/ \E w \in PrintWorkers : Telling(w, t)

PrintInv ==
    /\ PrintTypes /\ \A t \in PrintTasks : TaskOK(t) /\ PrintKnown(t)
    /\ \A w \in PrintWorkers : PrinterOK(w)

LEMMA PrintInvImplies ==
    PrintInv => PrintTypeOK /\ SucceededIsPrinted /\ PrintedAgainOnlyIfInterrupted
<1> SUFFICES ASSUME PrintInv
             PROVE  PrintTypeOK /\ SucceededIsPrinted /\ PrintedAgainOnlyIfInterrupted
 OBVIOUS
<1>1. SucceededIsPrinted BY DEF PrintInv, TaskOK, SucceededIsPrinted
<1>2. PrintedAgainOnlyIfInterrupted BY DEF PrintInv, PrintTypes, PrintKnown, PrintedAgainOnlyIfInterrupted
<1>3. task \in [PrintTasks -> [status : TaskStatus, owner : PrintWorkers \cup {NoWorker},
                               lapsed : BOOLEAN, submitted : BOOLEAN,
                               attempts : 0..(PrintAttempts + MaxPrintRetries + 1)]]
 <2>1. \A t \in PrintTasks : task[t].attempts \in 0..(PrintAttempts + MaxPrintRetries + 1)
  BY PrintAssumption DEF PrintInv, PrintTypes, TaskRows, TaskOK
 <2>2. task \in [PrintTasks -> TaskRows] BY DEF PrintInv, PrintTypes
 <2> QED BY <2>1, <2>2 DEF TaskRows
<1>4. \A w \in PrintWorkers : printer[w].pc \in {"idle", "run", "unknown", "query", "finish"}
 BY DEF PrintInv, PrintTypes, PrintAttemptsOf
<1> QED BY <1>1, <1>2, <1>3, <1>4 DEF PrintInv, PrintTypes, PrintTypeOK

LEMMA PrintInitially == PrintInit => PrintInv
<1> SUFFICES ASSUME PrintInit PROVE PrintInv
 OBVIOUS
<1>1. NoTask \in TaskRows BY DEF NoTask, TaskRows, TaskStatus
<1>2. PrintTypes BY <1>1, PrintAssumption DEF PrintInit, PrintTypes
<1>3. \A t \in PrintTasks : task[t] = NoTask /\ printed[t] = 0 BY DEF PrintInit
<1>4. \A t \in PrintTasks : TaskOK(t) /\ PrintKnown(t)
 BY <1>3, PrintAssumption DEF TaskOK, PrintKnown, NoTask, PrintInit
<1>5. \A w \in PrintWorkers : PrinterOK(w) BY DEF PrintInit, PrinterOK
<1> QED BY <1>2, <1>4, <1>5 DEF PrintInv

\* Steps that leave the rows, the workers and what was printed alone.
LEMMA SettingStep ==
    ASSUME PrintInv, NEW s \in {"on", "off"}, CreateSettings(s) \/ PatchSettings(s)
    PROVE  PrintInv'
<1>1. setting' = s /\ UNCHANGED <<task, printer, printed, printStops, printRetries, interrupted>>
 BY DEF CreateSettings, PatchSettings
<1> QED BY <1>1 DEF PrintInv, PrintTypes, TaskOK, PrinterOK, PrintKnown, Telling, PossiblySubmitted

\* A step on a task that no worker owns, and that keeps what it says of its submission.
LEMMA DeskStep ==
    ASSUME PrintInv, NEW t \in PrintTasks, NEW row \in TaskRows,
           task' = [task EXCEPT ![t] = row], row.status # "none",
           task[t].owner = NoWorker, row.owner = NoWorker, task[t].submitted => row.submitted,
           UNCHANGED <<setting, printer, interrupted>>,
           printed' \in [PrintTasks -> Nat], printRetries' \in 0..MaxPrintRetries,
           printRetries' >= printRetries,
           \A q \in PrintTasks : printed'[q] >= printed[q] /\ (q # t => printed'[q] = printed[q]),
           TaskOK(t)', printed'[t] # printed[t] => printed'[t] = 1 /\ row.submitted
    PROVE  PrintInv'
<1>0. /\ PrintTypes /\ \A q \in PrintTasks : TaskOK(q) /\ PrintKnown(q)
      /\ \A w \in PrintWorkers : PrinterOK(w)
 BY DEF PrintInv
<1>1. PrintTypes' BY <1>0 DEF PrintTypes
<1>2. task'[t] = row /\ \A q \in PrintTasks : q # t => task'[q] = task[q] BY <1>0 DEF PrintTypes
<1>3. \A q \in PrintTasks : TaskOK(q)'
 <2> SUFFICES ASSUME NEW q \in PrintTasks, q # t PROVE TaskOK(q)'
  OBVIOUS
 <2>1. task'[q] = task[q] /\ printed'[q] = printed[q] /\ task[q] \in TaskRows BY <1>0, <1>2 DEF PrintTypes
 <2> QED BY <1>0, <2>1, PrintAssumption DEF TaskOK, TaskRows, PrintTypes
<1>4. \A w \in PrintWorkers : PrinterOK(w)'
 <2> SUFFICES ASSUME NEW w \in PrintWorkers, printer[w].pc # "idle" PROVE PrinterOK(w)'
  BY DEF PrinterOK
 <2>1. PICK q \in PrintTasks : q = printer[w].task BY <1>0 DEF PrintTypes, PrintAttemptsOf
 <2>2. printer'[w] = printer[w] /\ printed'[q] >= printed[q] /\ printed[q] \in Nat /\ printed'[q] \in Nat
  BY <1>0 DEF PrintTypes
 <2>3. w # NoWorker BY PrintAssumption
 <2>4. CASE q = t
  <3>1. task'[q].owner # w /\ task[q].owner # w BY <1>2, <2>3, <2>4
  <3>2. q \in interrupted' /\ (printer[w].pc = "finish" /\ printer[w].result = "ok" => printed'[q] > 0)
   BY <1>0, <2>1, <2>2, <3>1 DEF PrinterOK
  <3>3. task'[q].status # "none" BY <1>2, <2>4
  <3> QED BY <2>1, <2>2, <3>1, <3>2, <3>3 DEF PrinterOK
 <2>5. CASE q # t
  BY <1>0, <1>2, <2>1, <2>2, <2>5 DEF PrinterOK
 <2> QED BY <2>4, <2>5
<1>5. \A q \in PrintTasks : PrintKnown(q)'
 <2> SUFFICES ASSUME NEW q \in PrintTasks, q \notin interrupted PROVE PrintKnown(q)'
  BY DEF PrintKnown
 <2>1. \A w \in PrintWorkers : Telling(w, q)' <=> Telling(w, q) BY DEF Telling, PossiblySubmitted
 <2> QED BY <1>0, <1>2, <2>1 DEF PrintKnown
<1> QED BY <1>1, <1>3, <1>4, <1>5 DEF PrintInv

\* A row put in line, with its owner gone.
LEMMA PutInLine ==
    ASSUME PrintInv, NEW t \in PrintTasks,
           task[t].status \in {"none", "dead", "retry_wait"},
           \/ task' = [task EXCEPT ![t].status = "pending"]
           \/ task' = [task EXCEPT ![t].status = "pending", ![t].owner = NoWorker, ![t].lapsed = FALSE],
           UNCHANGED <<setting, printer, printed, interrupted>>,
           printRetries' \in 0..MaxPrintRetries,
           printRetries' = printRetries + (IF task[t].status = "none" THEN 0 ELSE 1)
    PROVE  PrintInv'
<1>1. /\ task[t] \in TaskRows /\ TaskOK(t) /\ task[t].owner = NoWorker
      /\ printRetries \in Nat /\ printRetries' \in Nat /\ printed \in [PrintTasks -> Nat]
      /\ PrintAttempts \in Nat /\ printRetries' >= printRetries
 BY PrintAssumption DEF PrintInv, PrintTypes, TaskOK
<1>2. PICK row \in TaskRows : /\ task' = [task EXCEPT ![t] = row] /\ row.status = "pending" /\ row.owner = NoWorker
                              /\ row.submitted = task[t].submitted /\ row.attempts = task[t].attempts
 <2>1. CASE task' = [task EXCEPT ![t].status = "pending"]
  <3>1. [task[t] EXCEPT !.status = "pending"] \in TaskRows BY <1>1 DEF TaskRows, TaskStatus
  <3> QED BY <1>1, <2>1, <3>1 DEF TaskRows
 <2>2. CASE task' = [task EXCEPT ![t].status = "pending", ![t].owner = NoWorker, ![t].lapsed = FALSE]
  <3>1. [task[t] EXCEPT !.status = "pending", !.owner = NoWorker, !.lapsed = FALSE] \in TaskRows
   BY <1>1 DEF TaskRows, TaskStatus
  <3> QED BY ZenonT(30), <1>1, <2>2, <3>1 DEF TaskRows
 <2> QED BY <2>1, <2>2
<1>3. task'[t] = row /\ task[t].attempts \in Nat BY <1>1, <1>2 DEF PrintInv, PrintTypes, TaskRows
<1>4. row.attempts <= PrintAttempts + printRetries' BY <1>1, <1>2, <1>3 DEF TaskOK
<1>5. TaskOK(t)' BY <1>1, <1>2, <1>3, <1>4 DEF TaskOK
<1>6. \A q \in PrintTasks : printed'[q] >= printed[q] /\ (q # t => printed'[q] = printed[q]) BY <1>1
<1>7. printed' \in [PrintTasks -> Nat] /\ ~(printed'[t] # printed[t]) /\ UNCHANGED <<setting, printer, interrupted>>
 BY <1>1
<1>8. task[t].submitted => row.submitted BY <1>2
<1> QED BY <1>1, <1>2, <1>5, <1>6, <1>7, <1>8, DeskStep

LEMMA TestSettingsStep == ASSUME PrintInv, NEW t \in PrintTasks, TestSettings(t) PROVE PrintInv'
<1>1. /\ task[t] \in TaskRows /\ TaskOK(t) /\ task[t].owner = NoWorker /\ printed[t] = 0
      /\ printRetries \in Nat /\ printed \in [PrintTasks -> Nat] /\ PrintAttempts \in Nat \ {0}
      /\ printRetries \in 0..MaxPrintRetries /\ ~task[t].submitted
 BY PrintAssumption DEF PrintInv, PrintTypes, TaskOK, TestSettings
<1>2. PICK row \in TaskRows : /\ task' = [task EXCEPT ![t] = row]
                              /\ row.status \in {"succeeded", "querying"} /\ row.owner = NoWorker
                              /\ row.submitted /\ row.attempts = 1
 <2>1. PICK status \in {"succeeded", "querying"} :
         task' = [task EXCEPT ![t] = [NoTask EXCEPT !.status = status, !.attempts = 1, !.submitted = TRUE]]
  BY DEF TestSettings
 <2>2. [NoTask EXCEPT !.status = status, !.attempts = 1, !.submitted = TRUE] \in TaskRows
  BY DEF TaskRows, TaskStatus, NoTask
 <2> QED BY <2>1, <2>2 DEF TaskRows, NoTask
<1>3. printed' = [printed EXCEPT ![t] = 1] BY <1>1 DEF TestSettings
<1>4. task'[t] = row BY <1>2 DEF PrintInv, PrintTypes
<1>5. UNCHANGED <<setting, printer, printRetries, interrupted>> BY DEF TestSettings
<1>6. TaskOK(t)' BY <1>1, <1>2, <1>3, <1>4, <1>5 DEF TaskOK
<1>7. \A q \in PrintTasks : printed'[q] >= printed[q] /\ (q # t => printed'[q] = printed[q]) BY <1>1, <1>3
<1>8. printed' \in [PrintTasks -> Nat] /\ printed'[t] = 1 /\ printRetries' >= printRetries
      /\ printRetries' \in 0..MaxPrintRetries
 BY <1>1, <1>3, <1>5
<1> QED BY <1>1, <1>2, <1>5, <1>6, <1>7, <1>8, DeskStep

LEMMA AdministratorStep ==
    ASSUME PrintInv, NEW t \in PrintTasks, NEW new \in PrintTasks,
           EnqueueAuto(t) \/ RetryPrint(t) \/ Reprint(t, new)
    PROVE  PrintInv'
<1>0. printRetries \in 0..MaxPrintRetries BY DEF PrintInv, PrintTypes
<1>1. CASE EnqueueAuto(t)
 <2>1. /\ task[t].status = "none" /\ printRetries' = printRetries + 0
       /\ printRetries' \in 0..MaxPrintRetries /\ task' = [task EXCEPT ![t].status = "pending"]
       /\ UNCHANGED <<setting, printer, printed, interrupted>>
  BY <1>0, <1>1, PrintAssumption DEF EnqueueAuto
 <2> QED BY <2>1, PutInLine
<1>2. CASE RetryPrint(t)
 <2>1. printRetries' \in 0..MaxPrintRetries /\ printRetries' = printRetries + 1
  BY <1>0, <1>2, PrintAssumption DEF RetryPrint
 <2>2. /\ task[t].status \in {"none", "dead", "retry_wait"}
       /\ printRetries' = printRetries + (IF task[t].status = "none" THEN 0 ELSE 1)
  BY <1>2, <2>1 DEF RetryPrint
 <2> QED BY <1>2, <2>1, <2>2, PutInLine DEF RetryPrint
<1>3. CASE Reprint(t, new)
 <2>1. /\ task[new].status = "none" /\ printRetries' = printRetries + 0
       /\ printRetries' \in 0..MaxPrintRetries /\ task' = [task EXCEPT ![new].status = "pending"]
       /\ UNCHANGED <<setting, printer, printed, interrupted>>
  BY <1>0, <1>3, PrintAssumption DEF Reprint
 <2> QED BY <2>1, PutInLine
<1> QED BY <1>1, <1>2, <1>3

\* A step of one worker on one task: what others rely on is theirs.
LEMMA OneAttempt ==
    ASSUME PrintInv, NEW w \in PrintWorkers, NEW t \in PrintTasks,
           NEW turn \in [pc : {"idle"}] \cup PrintAttemptsOf, NEW row \in TaskRows,
           printer' = [printer EXCEPT ![w] = turn], task' = [task EXCEPT ![t] = row],
           printer[w].pc # "idle" => printer[w].task = t, turn.pc # "idle" => turn.task = t,
           setting' = setting, printRetries' = printRetries,
           interrupted \subseteq interrupted', interrupted' \subseteq interrupted \cup {t},
           printed' \in [PrintTasks -> Nat],
           \A q \in PrintTasks : printed'[q] >= printed[q] /\ (q # t => printed'[q] = printed[q]),
           TaskOK(t)', PrintKnown(t)', PrinterOK(w)',
           \A v \in PrintWorkers : v # w /\ printer[v].pc # "idle" /\ printer[v].task = t => PrinterOK(v)'
    PROVE  PrintInv'
<1>0. /\ PrintTypes /\ \A q \in PrintTasks : TaskOK(q) /\ PrintKnown(q)
      /\ \A v \in PrintWorkers : PrinterOK(v)
 BY DEF PrintInv
<1>1. PrintTypes' BY <1>0 DEF PrintTypes
<1>2. /\ \A q \in PrintTasks : q # t => task'[q] = task[q] /\ (q \in interrupted' <=> q \in interrupted)
      /\ printer'[w] = turn /\ \A v \in PrintWorkers : v # w => printer'[v] = printer[v]
 BY <1>0 DEF PrintTypes
<1>3. \A q \in PrintTasks : TaskOK(q)' BY <1>0, <1>2 DEF TaskOK
<1>4. \A v \in PrintWorkers : PrinterOK(v)'
 <2> SUFFICES ASSUME NEW v \in PrintWorkers, v # w, printer[v].pc # "idle", printer[v].task # t
              PROVE  PrinterOK(v)'
  BY <1>2 DEF PrinterOK
 <2>1. printer[v].task \in PrintTasks BY <1>0 DEF PrintTypes, PrintAttemptsOf
 <2> QED BY <1>0, <1>2, <2>1 DEF PrinterOK
<1>5. \A q \in PrintTasks : PrintKnown(q)'
 <2> SUFFICES ASSUME NEW q \in PrintTasks, q # t, q \notin interrupted PROVE PrintKnown(q)'
  BY <1>2 DEF PrintKnown
 <2>1. \A v \in PrintWorkers : Telling(v, q) => Telling(v, q)' BY <1>2 DEF Telling, PossiblySubmitted
 <2> QED BY <1>0, <1>2, <2>1 DEF PrintKnown
<1> QED BY <1>1, <1>3, <1>4, <1>5 DEF PrintInv

\* The owner of a task that was not interrupted is the only one at it.
LEMMA OnlyOwner ==
    ASSUME PrintInv, NEW w \in PrintWorkers, NEW v \in PrintWorkers, v # w,
           printer[v].pc # "idle", task[printer[v].task].owner \in {w, NoWorker}
    PROVE  printer[v].task \in interrupted
BY PrintAssumption DEF PrintInv, PrinterOK

LEMMA ClaimPrintStep ==
    ASSUME PrintInv, NEW w \in PrintWorkers, NEW t \in PrintTasks, ClaimPrint(w, t) PROVE PrintInv'
<1>0. /\ PrintTypes /\ TaskOK(t) /\ PrintKnown(t) /\ task[t] \in TaskRows /\ w # NoWorker
      /\ \A v \in PrintWorkers : PrinterOK(v)
      /\ printer \in [PrintWorkers -> [pc : {"idle"}] \cup PrintAttemptsOf]
      /\ task \in [PrintTasks -> TaskRows] /\ printed \in [PrintTasks -> Nat]
 BY PrintAssumption DEF PrintInv, PrintTypes
<1>1. PICK row \in TaskRows : /\ task' = [task EXCEPT ![t] = row]
                              /\ row.status = "processing" /\ row.owner = w /\ ~row.lapsed
                              /\ row.submitted = task[t].submitted /\ row.attempts = task[t].attempts
 <2>1. [task[t] EXCEPT !.status = "processing", !.owner = w, !.lapsed = FALSE] \in TaskRows
  BY <1>0 DEF TaskRows, TaskStatus
 <2> QED BY <1>0, <2>1 DEF ClaimPrint, TaskRows
<1>2. PICK pc \in {"query", "run"} : pc = IF task[t].submitted THEN "query" ELSE "run" OBVIOUS
<1>3. PICK turn \in PrintAttemptsOf : /\ printer' = [printer EXCEPT ![w] = turn]
                                     /\ turn.pc = pc /\ turn.task = t /\ turn.attempts = task[t].attempts
 <2>1. [pc |-> pc, task |-> t, attempts |-> task[t].attempts, op |-> "none", result |-> "none"]
          \in PrintAttemptsOf
  BY <1>0 DEF PrintAttemptsOf, TaskRows
 <2>2. printer' = [printer EXCEPT ![w] =
          [pc |-> pc, task |-> t, attempts |-> task[t].attempts, op |-> "none", result |-> "none"]]
  BY <1>2 DEF ClaimPrint
 <2> QED BY <2>1, <2>2
<1>4. task'[t] = row /\ printer'[w] = turn /\ printer[w].pc = "idle" /\ ClaimablePrint(t)
 BY <1>0, <1>1, <1>3 DEF ClaimPrint
<1>5. UNCHANGED <<setting, printed, printRetries, interrupted>> BY DEF ClaimPrint
<1>6. \A v \in PrintWorkers : v # w => printer'[v] = printer[v] BY <1>0, <1>3
<1>7. TaskOK(t)' BY <1>0, <1>1, <1>4, <1>5 DEF TaskOK, ClaimablePrint
<1>8. PrinterOK(w)' BY <1>1, <1>2, <1>3, <1>4, <1>5 DEF PrinterOK
<1>9. \A v \in PrintWorkers : v # w /\ printer[v].pc # "idle" /\ printer[v].task = t => PrinterOK(v)'
 BY <1>0, <1>1, <1>4, <1>5, <1>6, PrintAssumption DEF PrinterOK, ClaimablePrint
<1>10. PrintKnown(t)'
 <2>1. \A v \in PrintWorkers : Telling(v, t) => Telling(v, t)' BY <1>4, <1>6 DEF Telling, PossiblySubmitted
 <2> QED BY <1>0, <1>1, <1>4, <1>5, <2>1 DEF PrintKnown
<1>11. \A q \in PrintTasks : printed'[q] >= printed[q] /\ (q # t => printed'[q] = printed[q]) BY <1>0, <1>5
<1> QED BY <1>0, <1>1, <1>3, <1>4, <1>5, <1>7, <1>8, <1>9, <1>10, <1>11, OneAttempt

\* What a worker in an attempt has in hand.
LEMMA AtWork ==
    ASSUME PrintInv, NEW w \in PrintWorkers, printer[w].pc # "idle"
    PROVE  /\ printer[w] \in PrintAttemptsOf /\ printer[w].task \in PrintTasks
           /\ task[printer[w].task] \in TaskRows /\ printed[printer[w].task] \in Nat
           /\ TaskOK(printer[w].task) /\ PrintKnown(printer[w].task) /\ \A v \in PrintWorkers : PrinterOK(v)
           /\ printer \in [PrintWorkers -> [pc : {"idle"}] \cup PrintAttemptsOf]
           /\ task \in [PrintTasks -> TaskRows] /\ printed \in [PrintTasks -> Nat]
           /\ w # NoWorker /\ printRetries \in Nat /\ PrintAttempts \in Nat
           /\ printRetries \in 0..MaxPrintRetries /\ interrupted \subseteq PrintTasks
<1>1. printer[w] \in PrintAttemptsOf BY DEF PrintInv, PrintTypes
<1>2. printer[w].task \in PrintTasks BY <1>1 DEF PrintAttemptsOf
<1> QED BY <1>1, <1>2, PrintAssumption DEF PrintInv, PrintTypes

\* A worker gets an answer of the provider, or loses its memory; the rows stay.
LEMMA AnswerStep ==
    ASSUME PrintInv, NEW w \in PrintWorkers, printer[w].pc # "idle",
           NEW t \in PrintTasks, t = printer[w].task,
           NEW turn \in [pc : {"idle"}] \cup PrintAttemptsOf,
           printer' = [printer EXCEPT ![w] = turn],
           turn.pc # "idle" => turn.task = t /\ turn.attempts = printer[w].attempts,
           turn.pc # "run",
           turn.pc = "finish" /\ turn.result = "ok" => printed'[t] > 0,
           UNCHANGED <<setting, task, printRetries>>,
           printed' = printed \/ printed' = [printed EXCEPT ![t] = printed[t] + 1],
           interrupted \subseteq interrupted', interrupted' \subseteq interrupted \cup {t},
           PrintKnown(t)'
    PROVE  PrintInv'
<1>2. PICK row \in TaskRows : row = task[t] BY AtWork
<1>3. task' = [task EXCEPT ![t] = row] /\ task'[t] = task[t] BY <1>2, AtWork
<1>4. printed' \in [PrintTasks -> Nat] /\ \A q \in PrintTasks : printed'[q] >= printed[q] /\ (q # t => printed'[q] = printed[q])
 BY AtWork
<1>5. printer'[w] = turn /\ \A v \in PrintWorkers : v # w => printer'[v] = printer[v] BY AtWork
<1>a. TaskOK(t) /\ task[t].attempts \in Nat /\ printed'[t] >= printed[t] /\ printed'[t] \in Nat /\ printed[t] \in Nat
      /\ (task[t].status = "none" => printed'[t] = printed[t])
 BY <1>4, AtWork DEF TaskRows, PrinterOK
<1>6. TaskOK(t)' BY <1>2, <1>3, <1>4, <1>a, AtWork DEF TaskOK
<1>7. PrinterOK(w)' BY <1>2, <1>3, <1>5, AtWork DEF PrinterOK
<1>8. \A v \in PrintWorkers : v # w /\ printer[v].pc # "idle" /\ printer[v].task = t => PrinterOK(v)'
 <2> SUFFICES ASSUME NEW v \in PrintWorkers, v # w, printer[v].pc # "idle", printer[v].task = t
              PROVE  PrinterOK(v)'
  OBVIOUS
 <2>1. PrinterOK(v) /\ printed'[t] >= printed[t] /\ printed'[t] \in Nat /\ printed[t] \in Nat BY <1>4, AtWork
 <2> QED BY <1>3, <1>5, <2>1 DEF PrinterOK
<1> QED BY <1>3, <1>4, <1>6, <1>7, <1>8, OneAttempt

LEMMA AnswerTurn ==
    ASSUME PrintInv, NEW w \in PrintWorkers, printer[w].pc # "idle",
           NEW op \in {"none", "submit", "query"},
           NEW result \in {"none", "ok", "open", "retryable", "permanent"},
           NEW pc \in {"unknown", "query", "finish"}, Answer(w, op, result, pc)
    PROVE  \E turn \in PrintAttemptsOf :
              /\ printer' = [printer EXCEPT ![w] = turn] /\ printer'[w] = turn
              /\ turn.pc = pc /\ turn.op = op /\ turn.result = result
              /\ turn.task = printer[w].task /\ turn.attempts = printer[w].attempts
<1>1. printer[w] \in PrintAttemptsOf /\ printer \in [PrintWorkers -> [pc : {"idle"}] \cup PrintAttemptsOf]
 BY AtWork
<1>2. [printer[w] EXCEPT !.pc = pc, !.op = op, !.result = result] \in PrintAttemptsOf
 BY <1>1 DEF PrintAttemptsOf
<1> QED BY ZenonT(30), <1>1, <1>2 DEF Answer, PrintAttemptsOf

LEMMA SubmitPrintStep == ASSUME PrintInv, NEW w \in PrintWorkers, SubmitPrint(w) PROVE PrintInv'
<1>0. printer[w].pc # "idle" /\ printer[w].pc = "run" BY DEF SubmitPrint
<1>1. PICK t \in PrintTasks : t = printer[w].task BY <1>0, AtWork
<1>2. UNCHANGED <<setting, task, printRetries, interrupted>> BY DEF SubmitPrint
<1>3. t \notin interrupted => printed[t] = 0
 <2> SUFFICES ASSUME t \notin interrupted PROVE ~(printed[t] = 1) /\ printed[t] <= 1 /\ printed[t] \in Nat
  OBVIOUS
 <2>1. task[t].owner = w /\ ~task[t].submitted /\ PrintKnown(t) /\ printed[t] \in Nat
  BY <1>0, <1>1, AtWork DEF PrinterOK
 <2>2. \A v \in PrintWorkers : ~Telling(v, t) BY <1>0, <1>1, <2>1, OnlyOwner DEF Telling
 <2> QED BY <2>1, <2>2 DEF PrintKnown
<1>4. CASE printed' = [printed EXCEPT ![t] = @ + 1] /\
           (\/ \E r \in {"ok", "open"} : Answer(w, "submit", r, "finish")
            \/ Answer(w, "none", "none", "unknown"))
 <2>1. PICK turn \in PrintAttemptsOf :
          /\ printer' = [printer EXCEPT ![w] = turn] /\ printer'[w] = turn
          /\ turn.pc = "unknown" \/ (turn.pc = "finish" /\ turn.result \in {"ok", "open"})
          /\ turn.task = printer[w].task /\ turn.attempts = printer[w].attempts
  BY <1>0, <1>4, AnswerTurn
 <2>2. printed'[t] = printed[t] + 1 /\ printed[t] \in Nat BY <1>0, <1>1, <1>4, AtWork
 <2>3. Telling(w, t)' BY <1>1, <2>1 DEF Telling, PossiblySubmitted
 <2>4. PrintKnown(t)' BY <1>2, <1>3, <2>2, <2>3 DEF PrintKnown
 <2>5. printed' = [printed EXCEPT ![t] = printed[t] + 1] /\ printed'[t] > 0 BY <1>4, <2>2
 <2> QED BY <1>0, <1>1, <1>2, <2>1, <2>4, <2>5, AnswerStep
<1>5. CASE UNCHANGED printed /\
           (\/ \E r \in {"retryable", "permanent"} : Answer(w, "submit", r, "finish")
            \/ Answer(w, "none", "none", "unknown"))
 <2>1. PICK turn \in PrintAttemptsOf :
          /\ printer' = [printer EXCEPT ![w] = turn] /\ printer'[w] = turn
          /\ turn.pc = "unknown" \/ (turn.pc = "finish" /\ turn.result \in {"retryable", "permanent"})
          /\ turn.task = printer[w].task /\ turn.attempts = printer[w].attempts
  BY <1>0, <1>5, AnswerTurn
 <2>2. PrintKnown(t)' BY <1>2, <1>3, <1>5 DEF PrintKnown
 <2> QED BY <1>0, <1>1, <1>2, <1>5, <2>1, <2>2, AnswerStep
<1> QED BY <1>1, <1>4, <1>5 DEF SubmitPrint

LEMMA QueryPrintStep == ASSUME PrintInv, NEW w \in PrintWorkers, QueryPrint(w) PROVE PrintInv'
<1>0. printer[w].pc # "idle" /\ printer[w].pc = "query" BY DEF QueryPrint
<1>1. PICK t \in PrintTasks : t = printer[w].task BY <1>0, AtWork
<1>2. UNCHANGED <<setting, task, printed, printRetries, interrupted>> BY DEF QueryPrint
<1>3. PICK turn \in PrintAttemptsOf :
           /\ printer' = [printer EXCEPT ![w] = turn] /\ printer'[w] = turn
           /\ turn.pc = "finish" /\ (turn.result = "ok" => printed[t] > 0)
           /\ turn.task = printer[w].task /\ turn.attempts = printer[w].attempts
 <2>1. CASE printed[printer[w].task] > 0 /\ Answer(w, "query", "ok", "finish")
  BY <1>0, <1>1, <2>1, AnswerTurn
 <2>2. CASE \E r \in {"retryable", "permanent"} : Answer(w, "query", r, "finish")
  BY <1>0, <2>2, AnswerTurn
 <2> QED BY <2>1, <2>2 DEF QueryPrint
<1>4. PrintKnown(t)'
 <2>1. \A v \in PrintWorkers : v # w => printer'[v] = printer[v] BY <1>0, <1>3, AtWork
 <2>2. \A v \in PrintWorkers : Telling(v, t) => Telling(v, t)' BY <1>0, <2>1 DEF Telling, PossiblySubmitted
 <2> QED BY <1>0, <1>1, <1>2, <2>2, AtWork DEF PrintKnown
<1> QED BY <1>0, <1>1, <1>2, <1>3, <1>4, AnswerStep

LEMMA AtRestTurn == \E turn \in [pc : {"idle"}] : turn = [pc |-> "idle"] /\ turn.pc = "idle"
<1>1. [pc |-> "idle"] \in [pc : {"idle"}] /\ [pc |-> "idle"].pc = "idle" OBVIOUS
<1> WITNESS [pc |-> "idle"] \in [pc : {"idle"}]
<1> QED BY <1>1

LEMMA RecordUnknownStep ==
    ASSUME PrintInv, NEW w \in PrintWorkers, RecordUnknownSubmission(w) PROVE PrintInv'
<1>0. printer[w].pc # "idle" /\ printer[w].pc = "unknown" BY DEF RecordUnknownSubmission
<1>1. PICK t \in PrintTasks : t = printer[w].task BY <1>0, AtWork
<1>2. UNCHANGED <<setting, printed, printRetries, interrupted>> BY DEF RecordUnknownSubmission
<1>3. CASE OwnsPrint(w)
 <2>1. PICK row \in TaskRows : /\ task' = [task EXCEPT ![t] = row] /\ task'[t] = row
                               /\ row.status = "querying" /\ row.submitted /\ row.owner = w
                               /\ row.lapsed = task[t].lapsed /\ row.attempts = task[t].attempts
  <3>1. task' = [task EXCEPT ![t].status = "querying", ![t].submitted = TRUE] /\ task[t].owner = w
   BY <1>1, <1>3 DEF RecordUnknownSubmission, OwnsPrint
  <3>2. task[t] \in TaskRows /\ task \in [PrintTasks -> TaskRows] BY <1>0, <1>1, AtWork
  <3>3. [task[t] EXCEPT !.status = "querying", !.submitted = TRUE] \in TaskRows
   BY <3>2 DEF TaskRows, TaskStatus
  <3> QED BY <3>1, <3>2, <3>3 DEF TaskRows
 <2>2. PICK turn \in PrintAttemptsOf : /\ printer' = [printer EXCEPT ![w] = turn] /\ printer'[w] = turn
                                       /\ turn.pc = "query" /\ turn.task = t /\ turn.attempts = printer[w].attempts
  <3>1. printer' = [printer EXCEPT ![w].pc = "query"] BY <1>3 DEF RecordUnknownSubmission
  <3>2. printer[w] \in PrintAttemptsOf /\ printer \in [PrintWorkers -> [pc : {"idle"}] \cup PrintAttemptsOf]
   BY <1>0, AtWork
  <3>3. [printer[w] EXCEPT !.pc = "query"] \in PrintAttemptsOf BY <3>2 DEF PrintAttemptsOf
  <3> QED BY <1>1, <3>1, <3>2, <3>3 DEF PrintAttemptsOf
 <2>3. /\ task[t].owner = w /\ task[t] \in TaskRows /\ TaskOK(t) /\ PrintKnown(t)
       /\ printed \in [PrintTasks -> Nat] /\ \A v \in PrintWorkers : PrinterOK(v)
       /\ \A v \in PrintWorkers : v # w => printer'[v] = printer[v]
  BY <1>0, <1>1, <1>3, <2>2, AtWork DEF OwnsPrint
 <2>4. TaskOK(t)' BY <1>0, <1>2, <2>1, <2>3, AtWork DEF TaskOK, TaskRows
 <2>5. PrintKnown(t)' BY <1>2, <2>1, <2>3 DEF PrintKnown
 <2>6. PrinterOK(w)' BY <1>0, <1>1, <1>2, <2>1, <2>2, <2>3 DEF PrinterOK
 <2>7. \A v \in PrintWorkers : v # w /\ printer[v].pc # "idle" /\ printer[v].task = t => PrinterOK(v)'
  BY <1>2, <2>1, <2>3 DEF PrinterOK
 <2>8. \A q \in PrintTasks : printed'[q] >= printed[q] /\ (q # t => printed'[q] = printed[q]) BY <1>2, <2>3
 <2> QED BY <1>1, <1>2, <2>1, <2>2, <2>3, <2>4, <2>5, <2>6, <2>7, <2>8, OneAttempt
<1>4. CASE ~OwnsPrint(w)
 <2>1. t \in interrupted BY <1>0, <1>1, <1>4, AtWork DEF PrinterOK, OwnsPrint
 <2>2. printer' = [printer EXCEPT ![w] = [pc |-> "idle"]] /\ UNCHANGED task
  BY <1>4 DEF RecordUnknownSubmission, StopWorker
 <2>3. PrintKnown(t)' BY <1>2, <2>1 DEF PrintKnown
 <2>4. PICK turn \in [pc : {"idle"}] : turn = [pc |-> "idle"] /\ turn.pc = "idle" BY AtRestTurn
 <2> QED BY <1>0, <1>1, <1>2, <2>2, <2>3, <2>4, AnswerStep
<1> QED BY <1>3, <1>4

LEMMA FinishPrintStep == ASSUME PrintInv, NEW w \in PrintWorkers, FinishPrint(w) PROVE PrintInv'
<1>0. printer[w].pc # "idle" /\ printer[w].pc = "finish" BY DEF FinishPrint
<1>1. PICK t \in PrintTasks : t = printer[w].task BY <1>0, AtWork
<1>2. /\ UNCHANGED <<setting, printed, printRetries, interrupted>>
      /\ printer' = [printer EXCEPT ![w] = [pc |-> "idle"]]
 BY DEF FinishPrint, StopWorker
<1>3. CASE ~OwnsPrint(w)
 <2>1. t \in interrupted BY <1>0, <1>1, <1>3, AtWork DEF PrinterOK, OwnsPrint
 <2>2. UNCHANGED task BY <1>3 DEF FinishPrint
 <2>3. PrintKnown(t)' BY <1>2, <2>1 DEF PrintKnown
 <2>4. PICK turn \in [pc : {"idle"}] : turn = [pc |-> "idle"] /\ turn.pc = "idle" BY AtRestTurn
 <2> QED BY <1>0, <1>1, <1>2, <2>2, <2>3, <2>4, AnswerStep
<1>4. CASE OwnsPrint(w)
 <2>1. /\ task[t].owner = w /\ task[t] \in TaskRows /\ TaskOK(t) /\ PrintKnown(t) /\ PrinterOK(w)
       /\ printed \in [PrintTasks -> Nat] /\ \A v \in PrintWorkers : PrinterOK(v)
       /\ printer[w] \in PrintAttemptsOf /\ printer[w].attempts \in Nat
  BY <1>0, <1>1, <1>4, AtWork DEF OwnsPrint, PrintAttemptsOf
 <2>2. PICK status \in {"succeeded", "dead", "querying", "retry_wait"} : status = FinishStatus(w)
  BY DEF FinishStatus
 <2>3. /\ status = "succeeded" => printed[t] > 0
       /\ status \in {"querying", "retry_wait"} => printer[w].attempts + 1 < PrintAttempts
  BY <1>0, <1>1, <2>1, <2>2 DEF FinishStatus, PrinterOK
 <2>4. PICK submitted \in BOOLEAN : submitted = (task[t].submitted \/ PossiblySubmitted(w)) BY <2>1
 <2>5. PICK attempts \in Nat : attempts = printer[w].attempts + 1 BY <2>1
 <2>6. PICK row \in TaskRows : /\ task' = [task EXCEPT ![t] = row]
                               /\ row.status = status /\ row.owner = NoWorker /\ ~row.lapsed
                               /\ row.attempts = attempts /\ row.submitted = submitted
  <3>1. task' = [task EXCEPT ![t] = [status |-> status, owner |-> NoWorker, lapsed |-> FALSE,
                                     attempts |-> attempts, submitted |-> submitted]]
   BY <1>1, <1>4, <2>2, <2>4, <2>5 DEF FinishPrint
  <3>2. [status |-> status, owner |-> NoWorker, lapsed |-> FALSE, attempts |-> attempts,
         submitted |-> submitted] \in TaskRows
   BY DEF TaskRows, TaskStatus
  <3> QED BY <3>1, <3>2
 <2>7. /\ task'[t] = row /\ printer'[w] = [pc |-> "idle"]
       /\ \A v \in PrintWorkers : v # w => printer'[v] = printer[v]
  BY <1>0, <1>2, <2>6, AtWork
 <2>8. TaskOK(t)'
  <3>1. task[t].attempts = printer[w].attempts BY <1>0, <1>1, <2>1 DEF PrinterOK
  <3>2. row.attempts <= PrintAttempts + printRetries + 1
   <4>1. task[t].attempts <= PrintAttempts + printRetries
    <5>1. task[t].status \in {"processing", "querying"} BY <1>0, <2>1, AtWork DEF TaskOK
    <5> QED BY <2>1, <5>1 DEF TaskOK
   <4>2. task[t].attempts \in Nat /\ PrintAttempts \in Nat /\ printRetries \in Nat
    BY <1>0, <2>1, AtWork DEF TaskRows
   <4> QED BY <2>5, <2>6, <3>1, <4>1, <4>2
  <3>3. status \in {"querying", "retry_wait"} => row.attempts <= PrintAttempts + printRetries
   BY <1>0, <2>1, <2>3, <2>5, <2>6, AtWork
  <3> QED BY <1>2, <2>3, <2>6, <2>7, <3>2, <3>3 DEF TaskOK
 <2>9. PrintKnown(t)'
  <3> SUFFICES ASSUME t \notin interrupted, printed[t] = 1 PROVE submitted
   BY <1>2, <2>1, <2>6, <2>7 DEF PrintKnown
  <3>1. task[t].submitted \/ \E v \in PrintWorkers : Telling(v, t) BY <2>1 DEF PrintKnown
  <3>2. \A v \in PrintWorkers : Telling(v, t) => v = w BY <1>1, <2>1, OnlyOwner DEF Telling
  <3> QED BY <1>0, <2>4, <3>1, <3>2 DEF Telling
 <2>10. PrinterOK(w)' BY <2>7 DEF PrinterOK
 <2>11. \A v \in PrintWorkers : v # w /\ printer[v].pc # "idle" /\ printer[v].task = t => PrinterOK(v)'
  <3> SUFFICES ASSUME NEW v \in PrintWorkers, v # w, printer[v].pc # "idle", printer[v].task = t
               PROVE  PrinterOK(v)'
   OBVIOUS
  <3>1. t \in interrupted /\ v # NoWorker BY <2>1, OnlyOwner, PrintAssumption
  <3>2. row.status # "none" BY <2>2, <2>6
  <3> QED BY <1>2, <2>1, <2>6, <2>7, <3>1, <3>2 DEF PrinterOK
 <2>12. \A q \in PrintTasks : printed'[q] >= printed[q] /\ (q # t => printed'[q] = printed[q]) BY <1>2, <2>1
 <2> QED BY <1>1, <1>2, <2>1, <2>6, <2>8, <2>9, <2>10, <2>11, <2>12, OneAttempt
<1> QED BY <1>3, <1>4

LEMMA PrintDiesStep == ASSUME PrintInv, NEW w \in PrintWorkers, PrintWorkerDies(w) PROVE PrintInv'
<1>0. printer[w].pc # "idle" BY DEF PrintWorkerDies
<1>1. PICK t \in PrintTasks : t = printer[w].task BY <1>0, AtWork
<1>2. /\ UNCHANGED <<setting, task, printed, printRetries>> /\ interrupted' = interrupted \cup {t}
      /\ printer' = [printer EXCEPT ![w] = [pc |-> "idle"]]
 BY <1>1 DEF PrintWorkerDies, StopWorker
<1>3. PrintKnown(t)' BY <1>2 DEF PrintKnown
<1>4. PICK turn \in [pc : {"idle"}] : turn = [pc |-> "idle"] /\ turn.pc = "idle" BY AtRestTurn
<1> QED BY <1>0, <1>1, <1>2, <1>3, <1>4, AnswerStep

LEMMA PrintLapsesStep == ASSUME PrintInv, NEW t \in PrintTasks, PrintLeaseLapses(t) PROVE PrintInv'
<1>0. /\ PrintTypes /\ \A q \in PrintTasks : TaskOK(q) /\ PrintKnown(q)
      /\ \A v \in PrintWorkers : PrinterOK(v)
 BY DEF PrintInv
<1>1. /\ task' = [task EXCEPT ![t].lapsed = TRUE] /\ UNCHANGED <<setting, printer, printed, printRetries>>
      /\ interrupted \subseteq interrupted' /\ interrupted' \subseteq interrupted \cup {t}
      /\ t \in interrupted' \/ \A w \in PrintWorkers : ~Busy(w, t)
 BY DEF PrintLeaseLapses
<1>2. /\ task'[t] \in TaskRows /\ task'[t].status = task[t].status /\ task'[t].owner = task[t].owner
      /\ task'[t].submitted = task[t].submitted /\ task'[t].attempts = task[t].attempts
      /\ \A q \in PrintTasks : q # t => task'[q] = task[q]
 BY <1>0, <1>1 DEF PrintTypes, TaskRows
<1>3. PrintTypes' BY <1>0, <1>1, <1>2 DEF PrintTypes
<1>4. \A q \in PrintTasks : TaskOK(q)' BY <1>0, <1>1, <1>2 DEF TaskOK
<1>5. \A q \in PrintTasks : PrintKnown(q)'
 <2>1. \A q \in PrintTasks, v \in PrintWorkers : Telling(v, q)' <=> Telling(v, q)
  BY <1>1 DEF Telling, PossiblySubmitted
 <2> QED BY <1>0, <1>1, <1>2, <2>1 DEF PrintKnown
<1>6. \A v \in PrintWorkers : PrinterOK(v)'
 <2> SUFFICES ASSUME NEW v \in PrintWorkers, printer[v].pc # "idle" PROVE PrinterOK(v)'
  BY <1>1 DEF PrinterOK
 <2>1. printer[v].task \in PrintTasks BY <1>0 DEF PrintTypes, PrintAttemptsOf
 <2>2. CASE printer[v].task # t
  BY <1>0, <1>1, <1>2, <2>1, <2>2 DEF PrinterOK
 <2>3. CASE printer[v].task = t
  <3>1. t \in interrupted' BY <1>0, <1>1, <2>3 DEF PrinterOK, Busy
  <3> QED BY <1>0, <1>1, <1>2, <2>3, <3>1 DEF PrinterOK
 <2> QED BY <2>2, <2>3
<1> QED BY <1>3, <1>4, <1>5, <1>6 DEF PrintInv

LEMMA PrintKeeps == PrintInv /\ PrintNext => PrintInv'
<1> SUFFICES ASSUME PrintInv, PrintNext PROVE PrintInv'
 OBVIOUS
<1>1. CASE \E s \in {"on", "off"} : CreateSettings(s) \/ PatchSettings(s)
 BY <1>1, SettingStep
<1>2. CASE \E t \in PrintTasks : EnqueueAuto(t) \/ TestSettings(t) \/ RetryPrint(t) \/ PrintLeaseLapses(t)
 BY <1>2, AdministratorStep, TestSettingsStep, PrintLapsesStep
<1>3. CASE \E t, new \in PrintTasks : Reprint(t, new)
 BY <1>3, AdministratorStep
<1>4. CASE \E w \in PrintWorkers, t \in PrintTasks : ClaimPrint(w, t)
 BY <1>4, ClaimPrintStep
<1>5. CASE \E w \in PrintWorkers : PrintWork(w) \/ PrintWorkerDies(w)
 BY <1>5, SubmitPrintStep, RecordUnknownStep, QueryPrintStep, FinishPrintStep, PrintDiesStep DEF PrintWork
<1> QED BY <1>1, <1>2, <1>3, <1>4, <1>5 DEF PrintNext

LEMMA PrintRests == PrintInv /\ UNCHANGED pvars => PrintInv'
BY DEF PrintInv, pvars, PrintTypes, TaskOK, PrinterOK, PrintKnown, Telling, PossiblySubmitted

----------------------------------------
(* Notifications. *)

Grounds == {"taken", "unread"}
Grounded(n) == grounds' = grounds \/ \E g \in Grounds : grounds' = [grounds EXCEPT ![n] = @ \cup {g}]

NoticeRows == [status : {"none", "pending", "processing", "retry_wait", "succeeded", "dead"},
               owner : Senders \cup {Nobody}, lapsed : BOOLEAN, attempts : Nat]

Sendings == [pc : {"send", "query", "finish"}, notice : Notices,
             result : {"none", "ok", "retryable", "permanent"}, attempts : Nat]

NotifyTypes ==
    /\ template \in [Templates -> TemplateStatus \cup {"none"}] /\ notice \in [Notices -> NoticeRows]
    /\ sender \in [Senders -> [pc : {"idle"}] \cup Sendings] /\ grounds \in [Notices -> SUBSET Grounds]
    /\ sendRetries \in 0..MaxSendRetries

\* Only a row in flight has an owner; attempts beyond the limit were asked for.
NoticeOK(n) ==
    /\ notice[n].status # "processing" => notice[n].owner = Nobody
    /\ notice[n].status \notin {"succeeded", "dead"} => notice[n].attempts <= SendAttempts + sendRetries
    /\ notice[n].attempts <= SendAttempts + sendRetries + 1
    /\ notice[n].status = "succeeded" => grounds[n] # {}

\* The attempts a loop read are the row's while it owns it; it heard of a success that was said.
SenderOK(w) ==
    sender[w].pc # "idle" =>
        /\ notice[sender[w].notice].owner = w => notice[sender[w].notice].attempts = sender[w].attempts
        /\ sender[w].pc = "finish" /\ sender[w].result = "ok" => grounds[sender[w].notice] # {}

NotifyInv ==
    /\ NotifyTypes /\ \A n \in Notices : NoticeOK(n)
    /\ \A w \in Senders : SenderOK(w)

LEMMA NotifyInvImplies == NotifyInv => NotifyTypeOK /\ SucceededIsSent
<1> SUFFICES ASSUME NotifyInv PROVE NotifyTypeOK /\ SucceededIsSent
 OBVIOUS
<1>1. SucceededIsSent BY DEF NotifyInv, NoticeOK, SucceededIsSent
<1>2. \A n \in Notices : notice[n].attempts \in 0..(SendAttempts + MaxSendRetries + 1)
 BY NotificationAssumption DEF NotifyInv, NotifyTypes, NoticeRows, NoticeOK
<1>3. notice \in [Notices -> NoticeRows] BY DEF NotifyInv, NotifyTypes
<1>4. notice \in [Notices -> [status : {"none", "pending", "processing", "retry_wait", "succeeded", "dead"},
                              owner : Senders \cup {Nobody}, lapsed : BOOLEAN,
                              attempts : 0..(SendAttempts + MaxSendRetries + 1)]]
 BY <1>2, <1>3 DEF NoticeRows
<1>5. \A w \in Senders : sender[w].pc \in {"idle", "send", "query", "finish"}
 BY DEF NotifyInv, NotifyTypes, Sendings
<1> QED BY <1>1, <1>4, <1>5 DEF NotifyInv, NotifyTypes, NotifyTypeOK, Grounds

LEMMA NotifyInitially == NotifyInit => NotifyInv
<1> SUFFICES ASSUME NotifyInit PROVE NotifyInv
 OBVIOUS
<1>1. NoNotice \in NoticeRows BY DEF NoNotice, NoticeRows
<1>2. NotifyTypes BY <1>1, NotificationAssumption DEF NotifyInit, NotifyTypes
<1>3. \A n \in Notices : NoticeOK(n) BY NotificationAssumption DEF NotifyInit, NoticeOK, NoNotice
<1>4. \A w \in Senders : SenderOK(w) BY DEF NotifyInit, SenderOK
<1> QED BY <1>2, <1>3, <1>4 DEF NotifyInv

LEMMA TemplateStep ==
    ASSUME NotifyInv, NEW v \in Templates, NEW status \in TemplateStatus,
           CreateTemplate(v, status) \/ UpdateTemplate(v, status)
    PROVE  NotifyInv'
<1>1. template' = RetirePublished(v, status) /\ UNCHANGED <<notice, sender, grounds, sendStops, sendRetries>>
 BY DEF CreateTemplate, UpdateTemplate
<1>2. template' \in [Templates -> TemplateStatus \cup {"none"}]
 BY <1>1 DEF NotifyInv, NotifyTypes, RetirePublished, TemplateStatus
<1> QED BY <1>1, <1>2 DEF NotifyInv, NotifyTypes, NoticeOK, SenderOK

\* A step on one notice and at most one loop, which is at that notice.
LEMMA OneNotice ==
    ASSUME NotifyInv, NEW n \in Notices, NEW row \in NoticeRows,
           notice' = [notice EXCEPT ![n] = row],
           sender' \in [Senders -> [pc : {"idle"}] \cup Sendings],
           \A v \in Senders : \/ sender'[v].pc = "idle"
                              \/ sender'[v] = sender[v] /\ (row.owner = v => row.attempts = notice[n].attempts
                                                                          /\ notice[n].owner = v)
                              \/ SenderOK(v)',
           template' = template, sendRetries' \in 0..MaxSendRetries, sendRetries' >= sendRetries,
           grounds' \in [Notices -> SUBSET Grounds], \A m \in Notices : grounds[m] # {} => grounds'[m] # {},
           NoticeOK(n)'
    PROVE  NotifyInv'
<1>0. /\ NotifyTypes /\ \A m \in Notices : NoticeOK(m) /\ notice[m] \in NoticeRows
      /\ \A v \in Senders : SenderOK(v)
 BY DEF NotifyInv, NotifyTypes
<1>1. NotifyTypes' BY <1>0 DEF NotifyTypes
<1>2. notice'[n] = row /\ \A m \in Notices : m # n => notice'[m] = notice[m] BY <1>0 DEF NotifyTypes
<1>3. \A m \in Notices : NoticeOK(m)'
 <2> SUFFICES ASSUME NEW m \in Notices, m # n PROVE NoticeOK(m)'
  OBVIOUS
 <2>1. notice'[m] = notice[m] /\ notice[m].attempts \in Nat /\ SendAttempts \in Nat
       /\ sendRetries \in Nat /\ sendRetries' \in Nat /\ (grounds[m] # {} => grounds'[m] # {})
  BY <1>0, <1>2, NotificationAssumption DEF NoticeRows, NotifyTypes
 <2> QED BY <1>0, <2>1 DEF NoticeOK
<1>4. \A v \in Senders : SenderOK(v)'
 <2> SUFFICES ASSUME NEW v \in Senders, sender'[v].pc # "idle", sender'[v] = sender[v],
                     row.owner = v => row.attempts = notice[n].attempts /\ notice[n].owner = v
              PROVE  SenderOK(v)'
  BY DEF SenderOK
 <2>1. sender[v].notice \in Notices BY <1>0 DEF NotifyTypes, Sendings
 <2> QED BY <1>0, <1>2, <2>1 DEF SenderOK
<1> QED BY <1>1, <1>3, <1>4 DEF NotifyInv

LEMMA NoticeDeskStep ==
    ASSUME NotifyInv, NEW n \in Notices, Materialize(n) \/ RetryNotice(n) PROVE NotifyInv'
<1>0. /\ notice[n] \in NoticeRows /\ NoticeOK(n) /\ notice \in [Notices -> NoticeRows]
      /\ sendRetries \in 0..MaxSendRetries /\ SendAttempts \in Nat /\ MaxSendRetries \in Nat
      /\ notice[n].attempts \in Nat /\ sender \in [Senders -> [pc : {"idle"}] \cup Sendings]
      /\ grounds \in [Notices -> SUBSET Grounds]
 BY NotificationAssumption DEF NotifyInv, NotifyTypes, NoticeRows
<1>1. notice[n].status \in {"none", "dead", "retry_wait"} /\ UNCHANGED <<template, sender, grounds>>
 BY DEF Materialize, RetryNotice
<1>2. PICK row \in NoticeRows : /\ notice' = [notice EXCEPT ![n] = row] /\ notice'[n] = row
                                /\ row.status = "pending" /\ row.owner = Nobody /\ row.attempts = notice[n].attempts
 <2>1. CASE Materialize(n)
  <3>1. [notice[n] EXCEPT !.status = "pending"] \in NoticeRows BY <1>0 DEF NoticeRows
  <3>2. notice[n].owner = Nobody BY <1>0, <1>1 DEF NoticeOK
  <3> QED BY <1>0, <2>1, <3>1, <3>2 DEF Materialize, NoticeRows
 <2>2. CASE RetryNotice(n)
  <3>1. [notice[n] EXCEPT !.status = "pending", !.owner = Nobody, !.lapsed = FALSE] \in NoticeRows
   BY <1>0 DEF NoticeRows
  <3> QED BY <1>0, <2>2, <3>1 DEF RetryNotice, NoticeRows
 <2> QED BY <2>1, <2>2
<1>3. /\ sendRetries' \in 0..MaxSendRetries /\ sendRetries' >= sendRetries
      /\ row.attempts <= SendAttempts + sendRetries'
 <2>1. CASE Materialize(n)
  BY <1>0, <1>2, <2>1 DEF Materialize, NoticeOK
 <2>2. CASE RetryNotice(n)
  BY <1>0, <1>2, <2>2 DEF RetryNotice, NoticeOK
 <2> QED BY <2>1, <2>2
<1>4. NoticeOK(n)' BY <1>0, <1>2, <1>3 DEF NoticeOK
<1>5. \A v \in Senders : sender'[v] = sender[v] /\ row.owner # v BY <1>1, <1>2, NotificationAssumption
<1> QED BY <1>0, <1>1, <1>2, <1>3, <1>4, <1>5, OneNotice

LEMMA ClaimNoticeStep ==
    ASSUME NotifyInv, NEW w \in Senders, NEW n \in Notices, ClaimNotice(w, n) PROVE NotifyInv'
<1>0. /\ notice[n] \in NoticeRows /\ NoticeOK(n) /\ notice \in [Notices -> NoticeRows]
      /\ sendRetries \in 0..MaxSendRetries /\ SendAttempts \in Nat /\ notice[n].attempts \in Nat
      /\ sender \in [Senders -> [pc : {"idle"}] \cup Sendings] /\ grounds \in [Notices -> SUBSET Grounds]
 BY NotificationAssumption DEF NotifyInv, NotifyTypes, NoticeRows
<1>1. PICK row \in NoticeRows : /\ notice' = [notice EXCEPT ![n] = row] /\ notice'[n] = row
                                /\ row.status = "processing" /\ row.owner = w /\ row.attempts = notice[n].attempts
 <2>1. [notice[n] EXCEPT !.status = "processing", !.owner = w, !.lapsed = FALSE] \in NoticeRows
  BY <1>0 DEF NoticeRows
 <2> QED BY <1>0, <2>1 DEF ClaimNotice, NoticeRows
<1>2. PICK turn \in Sendings : /\ sender' = [sender EXCEPT ![w] = turn] /\ sender'[w] = turn
                               /\ turn.pc = "send" /\ turn.notice = n /\ turn.attempts = notice[n].attempts
 <2>1. [pc |-> "send", notice |-> n, result |-> "none", attempts |-> notice[n].attempts] \in Sendings
  BY <1>0 DEF Sendings
 <2>2. sender' = [sender EXCEPT ![w] = [pc |-> "send", notice |-> n, result |-> "none",
                                        attempts |-> notice[n].attempts]]
  BY DEF ClaimNotice
 <2> QED BY <1>0, <2>1, <2>2
<1>3. UNCHANGED <<template, grounds, sendRetries>> /\ notice[n].status \in {"pending", "retry_wait", "processing"}
 BY DEF ClaimNotice
<1>4. NoticeOK(n)' BY <1>0, <1>1, <1>3 DEF NoticeOK
<1>5. SenderOK(w)' BY <1>1, <1>2 DEF SenderOK
<1>6. \A v \in Senders : v # w => sender'[v] = sender[v] /\ row.owner # v BY <1>0, <1>1, <1>2
<1>7. /\ sender' \in [Senders -> [pc : {"idle"}] \cup Sendings] /\ sendRetries' >= sendRetries
      /\ sendRetries' \in 0..MaxSendRetries /\ grounds' \in [Notices -> SUBSET Grounds]
 BY <1>0, <1>2, <1>3
<1> QED BY <1>1, <1>3, <1>4, <1>5, <1>6, <1>7, OneNotice

\* What a loop at work has in hand.
LEMMA AtNotice ==
    ASSUME NotifyInv, NEW w \in Senders, sender[w].pc # "idle"
    PROVE  /\ sender[w] \in Sendings /\ sender[w].notice \in Notices /\ sender[w].attempts \in Nat
           /\ notice[sender[w].notice] \in NoticeRows /\ NoticeOK(sender[w].notice) /\ SenderOK(w)
           /\ notice \in [Notices -> NoticeRows] /\ grounds \in [Notices -> SUBSET Grounds]
           /\ sender \in [Senders -> [pc : {"idle"}] \cup Sendings] /\ w # Nobody
           /\ sendRetries \in 0..MaxSendRetries /\ sendRetries \in Nat /\ SendAttempts \in Nat
<1>1. sender[w] \in Sendings BY DEF NotifyInv, NotifyTypes
<1>2. sender[w].notice \in Notices /\ sender[w].attempts \in Nat BY <1>1 DEF Sendings
<1> QED BY <1>1, <1>2, NotificationAssumption DEF NotifyInv, NotifyTypes

\* A loop gets an answer or forgets; the rows stay.
LEMMA NoticeAnswer ==
    ASSUME NotifyInv, NEW w \in Senders, sender[w].pc # "idle", NEW n \in Notices, n = sender[w].notice,
           NEW turn \in [pc : {"idle"}] \cup Sendings, sender' = [sender EXCEPT ![w] = turn],
           turn.pc # "idle" => turn.notice = n /\ turn.attempts = sender[w].attempts,
           turn.pc = "finish" /\ turn.result = "ok" => grounds'[n] # {},
           UNCHANGED <<template, notice, sendRetries>>,
           Grounded(n)
    PROVE  NotifyInv'
<1>0. PICK row \in NoticeRows : row = notice[n] BY AtNotice
<1>1. notice' = [notice EXCEPT ![n] = row] /\ notice'[n] = row BY <1>0, AtNotice
<1>2. grounds' \in [Notices -> SUBSET Grounds] /\ \A m \in Notices : grounds[m] # {} => grounds'[m] # {}
 BY AtNotice DEF Grounded
<1>3. NoticeOK(n)' BY <1>0, <1>1, <1>2, AtNotice DEF NoticeOK
<1>4. sender'[w] = turn /\ \A v \in Senders : v # w => sender'[v] = sender[v] BY AtNotice
<1>5. SenderOK(w)' BY <1>0, <1>1, <1>4, AtNotice DEF SenderOK
<1>6. /\ sender' \in [Senders -> [pc : {"idle"}] \cup Sendings] /\ sendRetries' >= sendRetries
      /\ sendRetries' \in 0..MaxSendRetries
 BY AtNotice
<1>7. \A v \in Senders : \/ sender'[v] = sender[v] /\ (row.owner = v => row.attempts = notice[n].attempts
                                                                       /\ notice[n].owner = v)
                         \/ SenderOK(v)'
 BY <1>0, <1>4, <1>5
<1> QED BY ZenonT(30), <1>1, <1>2, <1>3, <1>6, <1>7, OneNotice

LEMMA AnsweredTurn ==
    ASSUME NotifyInv, NEW w \in Senders, sender[w].pc # "idle",
           NEW result \in {"ok", "retryable", "permanent"}, Answered(w, result)
    PROVE  \E turn \in Sendings :
              /\ sender' = [sender EXCEPT ![w] = turn] /\ turn.pc = "finish" /\ turn.result = result
              /\ turn.notice = sender[w].notice /\ turn.attempts = sender[w].attempts
<1>1. sender[w] \in Sendings /\ sender \in [Senders -> [pc : {"idle"}] \cup Sendings] BY AtNotice
<1>2. [sender[w] EXCEPT !.pc = "finish", !.result = result] \in Sendings BY <1>1 DEF Sendings
<1> QED BY <1>1, <1>2 DEF Answered, Sendings

LEMMA UnansweredTurn ==
    ASSUME NotifyInv, NEW w \in Senders, sender[w].pc # "idle",
           sender' = [sender EXCEPT ![w].pc = "query"]
    PROVE  \E turn \in Sendings :
              /\ sender' = [sender EXCEPT ![w] = turn] /\ turn.pc = "query"
              /\ turn.notice = sender[w].notice /\ turn.attempts = sender[w].attempts
<1>1. sender[w] \in Sendings /\ sender \in [Senders -> [pc : {"idle"}] \cup Sendings] BY AtNotice
<1>2. [sender[w] EXCEPT !.pc = "query"] \in Sendings BY <1>1 DEF Sendings
<1> QED BY <1>1, <1>2 DEF Sendings

LEMMA SendNoticeStep ==
    ASSUME NotifyInv, NEW w \in Senders, SendNotice(w) \/ Query(w) PROVE NotifyInv'
<1>0. sender[w].pc # "idle" /\ UNCHANGED <<template, notice, sendRetries>> BY DEF SendNotice, Query
<1>1. PICK n \in Notices : n = sender[w].notice BY <1>0, AtNotice
<1>2. grounds \in [Notices -> SUBSET Grounds] BY <1>0, AtNotice
<1>3. /\ Grounded(n)
      /\ \E turn \in Sendings :
              /\ sender' = [sender EXCEPT ![w] = turn]
              /\ (turn.pc = "finish" /\ turn.result = "ok" => grounds'[n] # {})
              /\ turn.notice = sender[w].notice /\ turn.attempts = sender[w].attempts
 <2>1. CASE Answered(w, "ok") /\ grounds'[n] # {} /\ Grounded(n)
  BY <1>0, <2>1, AnsweredTurn
 <2>2. CASE (\E r \in {"retryable", "permanent"} : Answered(w, r)) /\ grounds' = grounds
  BY <1>0, <2>2, AnsweredTurn DEF Grounded
 <2>3. CASE sender' = [sender EXCEPT ![w].pc = "query"] /\ Grounded(n)
  BY <1>0, <2>3, UnansweredTurn
 <2>4. \A g \in Grounds : Ground(w, g) => Grounded(n) /\ grounds'[n] # {} BY <1>1, <1>2 DEF Ground, Grounded
 <2>5. "taken" \in Grounds /\ "unread" \in Grounds /\ (grounds' = grounds => Grounded(n))
  BY DEF Grounds, Grounded
 <2> QED BY <1>1, <1>2, <2>1, <2>2, <2>3, <2>4, <2>5 DEF SendNotice, Query
<1> QED BY ZenonT(30), <1>0, <1>1, <1>3, NoticeAnswer

LEMMA FinishNoticeStep == ASSUME NotifyInv, NEW w \in Senders, Finish(w) PROVE NotifyInv'
<1>0. sender[w].pc # "idle" /\ sender[w].pc = "finish" /\ UNCHANGED <<template, grounds, sendRetries>>
      /\ sender' = [sender EXCEPT ![w] = [pc |-> "idle"]]
 BY DEF Finish
<1>1. PICK n \in Notices : n = sender[w].notice BY <1>0, AtNotice
<1>2. PICK turn \in [pc : {"idle"}] : turn = [pc |-> "idle"] /\ turn.pc = "idle" BY AtRestTurn
<1>3. CASE notice[n].owner # w
 <2>1. UNCHANGED notice /\ Grounded(n) BY <1>0, <1>1, <1>3 DEF Finish, Grounded
 <2> QED BY <1>0, <1>1, <1>2, <2>1, NoticeAnswer
<1>4. CASE notice[n].owner = w
 <2>1. PICK status \in {"succeeded", "retry_wait", "dead"} : status = NoticeStatus(w) BY DEF NoticeStatus
 <2>2. PICK attempts \in Nat : attempts = sender[w].attempts + 1 BY <1>0, AtNotice
 <2>3. /\ status = "succeeded" => grounds[n] # {}
       /\ status = "retry_wait" => attempts < SendAttempts
       /\ notice[n].attempts = sender[w].attempts
  BY <1>0, <1>1, <1>4, <2>1, <2>2, AtNotice DEF NoticeStatus, SenderOK
 <2>4. PICK row \in NoticeRows : /\ notice' = [notice EXCEPT ![n] = row] /\ notice'[n] = row
                                 /\ row.status = status /\ row.owner = Nobody /\ row.attempts = attempts
  <3>1. notice' = [notice EXCEPT ![n] = [status |-> status, owner |-> Nobody, lapsed |-> FALSE,
                                         attempts |-> attempts]]
   BY <1>1, <1>4, <2>1, <2>2 DEF Finish
  <3>2. [status |-> status, owner |-> Nobody, lapsed |-> FALSE, attempts |-> attempts] \in NoticeRows
   BY DEF NoticeRows
  <3> QED BY <1>0, <3>1, <3>2, AtNotice
 <2>5. attempts <= SendAttempts + sendRetries + 1
  <3>1. notice[n].status = "processing" /\ NoticeOK(n) /\ notice[n].attempts \in Nat
   BY <1>0, <1>1, <1>4, AtNotice DEF NoticeOK, NoticeRows
  <3> QED BY <1>0, <2>2, <2>3, <3>1, AtNotice DEF NoticeOK
 <2>6. NoticeOK(n)' BY <1>0, <2>2, <2>3, <2>4, <2>5, AtNotice DEF NoticeOK
 <2>7. \A v \in Senders : \/ sender'[v].pc = "idle"
                          \/ sender'[v] = sender[v] /\ row.owner # v
  BY <1>0, <1>2, <2>4, AtNotice, NotificationAssumption
 <2>8. /\ sender' \in [Senders -> [pc : {"idle"}] \cup Sendings] /\ sendRetries' >= sendRetries
       /\ sendRetries' \in 0..MaxSendRetries /\ grounds' \in [Notices -> SUBSET Grounds]
  BY <1>0, <1>2, AtNotice
 <2> QED BY <1>0, <2>4, <2>6, <2>7, <2>8, OneNotice
<1> QED BY <1>3, <1>4

LEMMA SenderDiesStep == ASSUME NotifyInv, NEW w \in Senders, SenderDies(w) PROVE NotifyInv'
<1>1. PICK turn \in [pc : {"idle"}] : turn = [pc |-> "idle"] /\ turn.pc = "idle" BY AtRestTurn
<1>2. sender[w].pc # "idle" /\ UNCHANGED <<template, notice, grounds, sendRetries>>
      /\ sender' = [sender EXCEPT ![w] = turn]
 BY <1>1 DEF SenderDies
<1>3. PICK n \in Notices : n = sender[w].notice BY <1>2, AtNotice
<1>4. Grounded(n) BY <1>2 DEF Grounded
<1> QED BY <1>1, <1>2, <1>3, <1>4, NoticeAnswer

LEMMA NoticeLapsesStep == ASSUME NotifyInv, NEW n \in Notices, NoticeLeaseLapses(n) PROVE NotifyInv'
<1>0. /\ notice[n] \in NoticeRows /\ NoticeOK(n) /\ notice \in [Notices -> NoticeRows]
      /\ sendRetries \in 0..MaxSendRetries /\ grounds \in [Notices -> SUBSET Grounds]
      /\ sender \in [Senders -> [pc : {"idle"}] \cup Sendings]
 BY DEF NotifyInv, NotifyTypes
<1>1. PICK row \in NoticeRows : /\ notice' = [notice EXCEPT ![n] = row] /\ notice'[n] = row
                                /\ row.status = notice[n].status /\ row.owner = notice[n].owner
                                /\ row.attempts = notice[n].attempts
 <2>1. [notice[n] EXCEPT !.lapsed = TRUE] \in NoticeRows BY <1>0 DEF NoticeRows
 <2> QED BY <1>0, <2>1 DEF NoticeLeaseLapses, NoticeRows
<1>2. UNCHANGED <<template, sender, grounds, sendRetries>> BY DEF NoticeLeaseLapses
<1>3. NoticeOK(n)' BY <1>0, <1>1, <1>2 DEF NoticeOK
<1>4. sendRetries' >= sendRetries /\ \A v \in Senders : sender'[v] = sender[v] BY <1>0, <1>2
<1> QED BY <1>0, <1>1, <1>2, <1>3, <1>4, OneNotice

LEMMA NotifyKeeps == NotifyInv /\ NotifyNext => NotifyInv'
<1> SUFFICES ASSUME NotifyInv, NotifyNext PROVE NotifyInv'
 OBVIOUS
<1>1. CASE \E v \in Templates, status \in TemplateStatus : CreateTemplate(v, status) \/ UpdateTemplate(v, status)
 BY <1>1, TemplateStep
<1>2. CASE \E n \in Notices : Materialize(n) \/ RetryNotice(n) \/ NoticeLeaseLapses(n)
 BY <1>2, NoticeDeskStep, NoticeLapsesStep
<1>3. CASE \E w \in Senders, n \in Notices : ClaimNotice(w, n)
 BY <1>3, ClaimNoticeStep
<1>4. CASE \E w \in Senders : NotifyWork(w) \/ SenderDies(w)
 BY <1>4, SendNoticeStep, FinishNoticeStep, SenderDiesStep DEF NotifyWork
<1> QED BY <1>1, <1>2, <1>3, <1>4 DEF NotifyNext

LEMMA NotifyRests == NotifyInv /\ UNCHANGED nvars => NotifyInv'
BY DEF NotifyInv, nvars, NotifyTypes, NoticeOK, SenderOK

----------------------------------------
(* Reminders of the expiry of tickets. *)

FactRows == [inbox : {"none", "sent", "skipped"},
             wechat : {"none", "pending", "sent", "failed", "skipped"},
             attempts : {0, 1}, owner : Reminders \cup {"none"}, live : BOOLEAN]

ConsentRows == [status : {"none", "available", "rejected", "unknown", "sending", "consumed", "exhausted"},
                by : Facts \cup {<<>>}]

Errands == [step : {"idle", "lot", "due", "claimed", "sent"}, at : Int, fact : Facts \cup {<<>>},
            consent : Consents \cup {"none"},
            outcome : {"none", "succeeded", "unknown", "exhausted", "not_attempted"}]

ReminderTypes ==
    /\ clock \in Int /\ batch \in [RemindedLots -> [expires : ExpiryDates, rest : {"some", "none", "ended"}]]
    /\ fact \in [Facts -> FactRows] /\ consent \in [Consents -> ConsentRows] /\ reminder \in [Reminders -> Errands]
    /\ inboxed \in [Facts -> {0, 1}] /\ told \in [Facts -> {0, 1}] /\ used \in [Consents -> {0, 1}]

\* The worker has claimed its reminder and has not written down how it ended.
AtSend(w) == reminder[w].step \in {"claimed", "sent"}

FactOK(f) ==
    /\ inboxed[f] = IF fact[f].inbox = "sent" THEN 1 ELSE 0
    /\ fact[f].wechat = "sent" => told[f] = 1
    /\ fact[f].wechat \in {"none", "skipped"} => told[f] = 0
    /\ fact[f].wechat = "none" => fact[f].attempts = 0
    /\ fact[f].attempts = 0 => told[f] = 0

ConsentOK(c) ==
    /\ consent[c].status = "consumed" => used[c] = 1
    /\ consent[c].status \in {"none", "available", "rejected"} => used[c] = 0
    /\ consent[c].status = "sending" =>
          /\ consent[c].by \in Facts /\ fact[consent[c].by].wechat = "pending" /\ fact[consent[c].by].attempts = 1

\* A claim stands as it was taken, or was found stale: then the reminder has failed and its
\* consent is lost. The call's effect is known from where the worker is.
WorkerOK(w) ==
    /\ reminder[w].step # "idle" => reminder[w].fact \in Facts
    /\ AtSend(w) =>
          /\ reminder[w].consent \in Consents /\ fact[reminder[w].fact].attempts = 1
          /\ consent[reminder[w].consent].by = reminder[w].fact
          /\ \/ /\ fact[reminder[w].fact].wechat = "pending" /\ fact[reminder[w].fact].owner = w
                /\ consent[reminder[w].consent].status = "sending"
             \/ /\ fact[reminder[w].fact].wechat = "failed" /\ consent[reminder[w].consent].status = "unknown"
          /\ reminder[w].step = "sent" => reminder[w].outcome # "none"
          /\ IF reminder[w].step = "sent" /\ reminder[w].outcome \in {"succeeded", "unknown"}
             THEN told[reminder[w].fact] = 1 /\ used[reminder[w].consent] = 1
             ELSE told[reminder[w].fact] = 0 /\ used[reminder[w].consent] = 0

ReminderInv ==
    /\ ReminderTypes /\ \A f \in Facts : FactOK(f)
    /\ \A c \in Consents : ConsentOK(c)
    /\ \A w \in Reminders : WorkerOK(w)
    \* one worker sends a reminder, with one consent
    /\ \A v, w \in Reminders : AtSend(v) /\ AtSend(w) /\ reminder[v].fact = reminder[w].fact => v = w
    /\ \A c, d \in Consents : consent[c].status = "sending" /\ consent[d].status = "sending"
                              /\ consent[c].by = consent[d].by => c = d

LEMMA ReminderInvImplies == ReminderInv => RemindedOnce
<1> SUFFICES ASSUME ReminderInv PROVE RemindedOnce
 OBVIOUS
<1>1. \A f \in Facts : told[f] <= 1 /\ inboxed[f] = (IF fact[f].inbox = "sent" THEN 1 ELSE 0)
 BY DEF ReminderInv, ReminderTypes, FactOK
<1>2. \A c \in Consents : used[c] <= 1 BY DEF ReminderInv, ReminderTypes
<1> QED BY <1>1, <1>2 DEF ReminderInv, RemindedOnce, FactOK, ConsentOK

LEMMA ReminderInitially == ReminderInit => ReminderInv
<1> SUFFICES ASSUME ReminderInit PROVE ReminderInv
 OBVIOUS
<1>1. NoFact \in FactRows /\ AtRest \in Errands BY DEF NoFact, FactRows, AtRest, Errands
<1>2. PICK first \in ExpiryDates : first = CHOOSE d \in ExpiryDates : \A e \in ExpiryDates : d <= e
 BY ReminderAssumption
<1>3. batch \in [RemindedLots -> [expires : ExpiryDates, rest : {"some", "none", "ended"}]]
 BY <1>2 DEF ReminderInit
<1>4. ReminderTypes BY <1>1, <1>3 DEF ReminderInit, ReminderTypes, ConsentRows
<1>5. \A f \in Facts : FactOK(f) BY DEF ReminderInit, FactOK, NoFact
<1>6. \A c \in Consents : consent[c].status = "none" /\ used[c] = 0 BY DEF ReminderInit
<1>7. \A w \in Reminders : reminder[w].step = "idle" /\ ~AtSend(w) BY DEF ReminderInit, AtRest, AtSend
<1>8. (\A c \in Consents : ConsentOK(c)) /\ \A w \in Reminders : WorkerOK(w)
 BY <1>6, <1>7 DEF ConsentOK, WorkerOK
<1> QED BY <1>4, <1>5, <1>6, <1>7, <1>8 DEF ReminderInv

\* The rows stay, the worker is not sending: it reads, rests or died.
LEMMA ErrandStep ==
    ASSUME ReminderInv, NEW w \in Reminders, NEW e \in Errands, reminder' = [reminder EXCEPT ![w] = e],
           e.step \in {"idle", "lot", "due"}, e.step # "idle" => e.fact \in Facts,
           UNCHANGED <<clock, batch, fact, consent, inboxed, told, used>>
    PROVE  ReminderInv'
<1>1. ReminderTypes' BY DEF ReminderInv, ReminderTypes
<1>2. reminder'[w] = e /\ \A v \in Reminders : v # w => reminder'[v] = reminder[v]
 BY DEF ReminderInv, ReminderTypes
<1>3. (\A f \in Facts : FactOK(f)') /\ \A c \in Consents : ConsentOK(c)' BY DEF ReminderInv, FactOK, ConsentOK
<1>4. ~AtSend(w)' /\ \A v \in Reminders : v # w => (AtSend(v)' <=> AtSend(v)) BY <1>2 DEF AtSend
<1>5. \A v \in Reminders : WorkerOK(v)'
 <2>1. WorkerOK(w)' BY <1>2, <1>4 DEF WorkerOK
 <2>2. ASSUME NEW v \in Reminders, v # w PROVE WorkerOK(v)' BY <1>2, <1>4, <2>2 DEF ReminderInv, WorkerOK
 <2> QED BY <2>1, <2>2
<1> QED BY <1>1, <1>2, <1>3, <1>4, <1>5 DEF ReminderInv

LEMMA ReadStep ==
    ASSUME ReminderInv, NEW w \in Reminders,
           \/ \E l \in RemindedLots : ReadLot(w, l)
           \/ \E f \in Facts : ReadReminder(w, f)
           \/ ReminderWorkerDies(w)
    PROVE  ReminderInv'
<1>1. clock \in Int /\ AtRest \in Errands BY DEF ReminderInv, ReminderTypes, AtRest, Errands
<1>2. CASE \E l \in RemindedLots : ReadLot(w, l)
 <2>1. PICK l \in RemindedLots : ReadLot(w, l) BY <1>2
 <2>2. PICK f \in Facts : f = <<l, batch[l].expires>> BY DEF ReminderInv, ReminderTypes, Facts
 <2>3. PICK e \in Errands : e = [AtRest EXCEPT !.step = "lot", !.at = clock, !.fact = f]
  BY <1>1 DEF Errands, AtRest
 <2>4. e.step = "lot" /\ e.fact = f BY <2>3 DEF AtRest
 <2>5. reminder' = [reminder EXCEPT ![w] = e] /\ UNCHANGED <<clock, batch, fact, consent, inboxed, told, used>>
  BY <2>1, <2>2, <2>3 DEF ReadLot
 <2> QED BY <2>4, <2>5, ErrandStep
<1>3. CASE \E f \in Facts : ReadReminder(w, f)
 <2>1. PICK f \in Facts : ReadReminder(w, f) BY <1>3
 <2>3. PICK e \in Errands : e = [AtRest EXCEPT !.step = "due", !.at = clock, !.fact = f]
  BY <1>1 DEF Errands, AtRest
 <2>4. e.step = "due" /\ e.fact = f BY <2>3 DEF AtRest
 <2>5. reminder' = [reminder EXCEPT ![w] = e] /\ UNCHANGED <<clock, batch, fact, consent, inboxed, told, used>>
  BY <2>1, <2>3 DEF ReadReminder
 <2> QED BY <2>4, <2>5, ErrandStep
<1>4. CASE ReminderWorkerDies(w)
 <2>1. AtRest.step = "idle" BY DEF AtRest
 <2> QED BY <1>1, <1>4, <2>1, ErrandStep DEF ReminderWorkerDies
<1> QED BY <1>2, <1>3, <1>4

\* What a worker's errand, a lot's date and the clock are changes without touching the sends.
LEMMA AroundStep ==
    ASSUME ReminderInv,
           \/ TimePasses \/ \E l \in RemindedLots : LotChanges(l)
           \/ \E f \in Facts : SendLeaseEnds(f)
           \/ \E c \in Consents, s \in {"available", "rejected", "unknown"} : RecordConsent(c, s)
    PROVE  ReminderInv'
<1>1. CASE TimePasses \/ \E l \in RemindedLots : LotChanges(l)
 <2>1. clock' \in Int /\ batch' \in [RemindedLots -> [expires : ExpiryDates, rest : {"some", "none", "ended"}]]
  <3>1. CASE TimePasses
   BY <3>1 DEF TimePasses, ReminderInv, ReminderTypes
  <3>2. CASE \E l \in RemindedLots : LotChanges(l)
   BY <3>2 DEF LotChanges, ReminderInv, ReminderTypes
  <3> QED BY <1>1, <3>1, <3>2
 <2>2. UNCHANGED <<fact, consent, reminder, inboxed, told, used>> BY <1>1 DEF TimePasses, LotChanges
 <2>3. ReminderTypes' BY <2>1, <2>2 DEF ReminderInv, ReminderTypes
 <2> QED BY <2>2, <2>3 DEF ReminderInv, FactOK, ConsentOK, WorkerOK, AtSend
<1>2. CASE \E f \in Facts : SendLeaseEnds(f)
 <2>1. PICK f \in Facts : SendLeaseEnds(f) BY <1>2
 <2>2. fact \in [Facts -> FactRows] /\ fact' = [fact EXCEPT ![f].live = FALSE]
       /\ UNCHANGED <<clock, batch, consent, reminder, inboxed, told, used>>
  BY <2>1 DEF ReminderInv, ReminderTypes, SendLeaseEnds
 <2>3. /\ fact' \in [Facts -> FactRows]
       /\ \A g \in Facts : /\ fact'[g].inbox = fact[g].inbox /\ fact'[g].wechat = fact[g].wechat
                           /\ fact'[g].attempts = fact[g].attempts /\ fact'[g].owner = fact[g].owner
  BY <2>2 DEF FactRows
 <2>4. ReminderTypes' BY <2>2, <2>3 DEF ReminderInv, ReminderTypes
 <2>5. (\A g \in Facts : FactOK(g)') /\ (\A c \in Consents : ConsentOK(c)')
  BY <2>2, <2>3 DEF ReminderInv, FactOK, ConsentOK
 <2>6. \A w \in Reminders : WorkerOK(w)' /\ (AtSend(w)' <=> AtSend(w))
  BY <2>2, <2>3 DEF ReminderInv, WorkerOK, AtSend
 <2> QED BY <2>2, <2>4, <2>5, <2>6 DEF ReminderInv
<1>3. CASE \E c \in Consents, s \in {"available", "rejected", "unknown"} : RecordConsent(c, s)
 <2>1. PICK c \in Consents, s \in {"available", "rejected", "unknown"} : RecordConsent(c, s) BY <1>3
 <2>2. consent \in [Consents -> ConsentRows] /\ consent' = [consent EXCEPT ![c].status = s]
       /\ UNCHANGED <<clock, batch, fact, reminder, inboxed, told, used>> /\ consent[c].status = "none"
  BY <2>1 DEF ReminderInv, ReminderTypes, RecordConsent
 <2>3. /\ consent' \in [Consents -> ConsentRows] /\ consent'[c].status = s
       /\ \A d \in Consents : d # c => consent'[d] = consent[d]
  BY <2>2 DEF ConsentRows
 <2>4. ReminderTypes' BY <2>2, <2>3 DEF ReminderInv, ReminderTypes
 <2>5. (\A g \in Facts : FactOK(g)') /\ (\A d \in Consents : ConsentOK(d)')
  BY <2>2, <2>3 DEF ReminderInv, FactOK, ConsentOK
 <2>6. \A w \in Reminders : WorkerOK(w)' /\ (AtSend(w)' <=> AtSend(w))
  BY <2>2, <2>3 DEF ReminderInv, WorkerOK, AtSend
 <2> QED BY <2>2, <2>3, <2>4, <2>5, <2>6 DEF ReminderInv
<1> QED BY <1>1, <1>2, <1>3

\* A reminder that nobody is sending is written; the worker at it rests.
LEMMA QuietWrite ==
    ASSUME ReminderInv, NEW w \in Reminders, ~AtSend(w), NEW f \in Facts, NEW row \in FactRows,
           fact' = [fact EXCEPT ![f] = row], reminder' = [reminder EXCEPT ![w] = AtRest],
           fact[f].wechat = "none" \/ fact[f].attempts = 0 \/ row.wechat = fact[f].wechat,
           row.attempts = fact[f].attempts,
           row.wechat = fact[f].wechat => row.owner = fact[f].owner,
           inboxed' \in [Facts -> {0, 1}], \A g \in Facts : g # f => inboxed'[g] = inboxed[g],
           UNCHANGED <<clock, batch, consent, told, used>>, FactOK(f)'
    PROVE  ReminderInv'
<1>0. AtRest \in Errands /\ AtRest.step = "idle" BY DEF AtRest, Errands
<1>1. ReminderTypes' BY <1>0 DEF ReminderInv, ReminderTypes
<1>2. /\ reminder'[w] = AtRest /\ \A v \in Reminders : v # w => reminder'[v] = reminder[v]
      /\ fact'[f] = row /\ \A g \in Facts : g # f => fact'[g] = fact[g]
 BY DEF ReminderInv, ReminderTypes
<1>3. \A g \in Facts : FactOK(g)' BY <1>2 DEF ReminderInv, FactOK
<1>4. \A c \in Consents : ConsentOK(c)' BY <1>2 DEF ReminderInv, ConsentOK, FactOK
<1>5. ~AtSend(w)' /\ \A v \in Reminders : v # w => (AtSend(v)' <=> AtSend(v)) BY <1>0, <1>2 DEF AtSend
<1>6. \A v \in Reminders : WorkerOK(v)'
 <2>1. WorkerOK(w)' BY <1>0, <1>2, <1>5 DEF WorkerOK
 <2>2. ASSUME NEW v \in Reminders, v # w PROVE WorkerOK(v)'
  <3>1. WorkerOK(v) /\ reminder'[v] = reminder[v] /\ FactOK(f) BY <1>2, <2>2 DEF ReminderInv
  <3>2. CASE ~AtSend(v)
   BY <1>5, <2>2, <3>1, <3>2 DEF WorkerOK
  <3>3. CASE AtSend(v)
   <4>1. reminder[v].fact \in Facts BY <3>1, <3>3 DEF WorkerOK, AtSend
   <4> QED BY <1>2, <1>5, <2>2, <3>1, <3>3, <4>1 DEF WorkerOK, FactOK
  <3> QED BY <3>2, <3>3
 <2> QED BY <2>1, <2>2
<1> QED BY <1>1, <1>2, <1>3, <1>4, <1>5, <1>6 DEF ReminderInv

LEMMA MaterializeStep == ASSUME ReminderInv, NEW w \in Reminders, MaterializeLotReminder(w) PROVE ReminderInv'
<1>1. PICK f \in Facts : f = reminder[w].fact /\ ~AtSend(w)
 BY DEF ReminderInv, WorkerOK, MaterializeLotReminder, AtSend
<1>2. /\ fact[f] \in FactRows /\ fact \in [Facts -> FactRows] /\ FactOK(f)
      /\ inboxed \in [Facts -> {0, 1}] /\ told[f] \in {0, 1}
 BY DEF ReminderInv, ReminderTypes
<1>3. /\ reminder' = [reminder EXCEPT ![w] = AtRest] /\ UNCHANGED <<clock, batch, consent, told, used>>
 BY DEF MaterializeLotReminder
<1>4. ASSUME NEW inbox \in {"sent", "skipped"}, NEW wechat \in {"pending", "skipped"},
             NEW row \in FactRows, fact' = [fact EXCEPT ![f] = row],
             row.inbox = (IF fact[f].inbox = "none" THEN inbox ELSE fact[f].inbox),
             row.wechat = (IF fact[f].wechat = "none" THEN wechat ELSE fact[f].wechat),
             row.attempts = fact[f].attempts, row.owner = fact[f].owner,
             inboxed' = [inboxed EXCEPT ![f] = IF inbox = "sent" /\ fact[f].inbox = "none" THEN 1 ELSE inboxed[f]]
      PROVE  ReminderInv'
 <2>1. fact'[f] = row /\ inboxed' \in [Facts -> {0, 1}] /\ \A g \in Facts : g # f => inboxed'[g] = inboxed[g]
  BY <1>2, <1>4
 <2>2. inboxed'[f] = IF row.inbox = "sent" THEN 1 ELSE 0 BY <1>2, <1>4 DEF FactOK
 <2>3. FactOK(f)' BY <1>2, <1>3, <1>4, <2>1, <2>2 DEF FactOK
 <2>4. fact[f].wechat = "none" \/ row.wechat = fact[f].wechat BY <1>4
 <2> QED BY <1>1, <1>3, <1>4, <2>1, <2>3, <2>4, QuietWrite
<1>5. ASSUME NEW inbox \in {"sent", "skipped"}, NEW wechat \in {"pending", "skipped"}, fact' = Insert(f, inbox, wechat)
      PROVE  \E row \in FactRows :
               /\ fact' = [fact EXCEPT ![f] = row]
               /\ row.inbox = (IF fact[f].inbox = "none" THEN inbox ELSE fact[f].inbox)
               /\ row.wechat = (IF fact[f].wechat = "none" THEN wechat ELSE fact[f].wechat)
               /\ row.attempts = fact[f].attempts /\ row.owner = fact[f].owner
 <2>1. PICK i \in {"none", "sent", "skipped"} : i = IF fact[f].inbox = "none" THEN inbox ELSE fact[f].inbox
  BY <1>2 DEF FactRows
 <2>2. PICK c \in {"none", "pending", "sent", "failed", "skipped"} :
          c = IF fact[f].wechat = "none" THEN wechat ELSE fact[f].wechat
  BY <1>2 DEF FactRows
 <2>3. fact' = [fact EXCEPT ![f].inbox = i, ![f].wechat = c] BY <1>5, <2>1, <2>2 DEF Insert
 <2>4. PICK row \in FactRows : row = [fact[f] EXCEPT !.inbox = i, !.wechat = c] BY <1>2 DEF FactRows
 <2>5. row.inbox = i /\ row.wechat = c /\ row.attempts = fact[f].attempts /\ row.owner = fact[f].owner
  BY <1>2, <2>4 DEF FactRows
 <2>6. fact' = [fact EXCEPT ![f] = row] BY <1>2, <2>3, <2>4
 <2> QED BY <2>1, <2>2, <2>5, <2>6
<1>6. PICK verdict : verdict = Eligibility(f[1], f[2], reminder[w].at) OBVIOUS
<1>7. inboxed' = [inboxed EXCEPT ![f] = @ + (IF verdict = "ok" /\ fact[f].inbox = "none" THEN 1 ELSE 0)]
 BY <1>1, <1>6 DEF MaterializeLotReminder
<1>8. CASE verdict = "ok"
 <2>1. fact' = Insert(f, "sent", "pending") BY <1>1, <1>6, <1>8 DEF MaterializeLotReminder
 <2>2. inboxed' = [inboxed EXCEPT ![f] = IF "sent" = "sent" /\ fact[f].inbox = "none" THEN 1 ELSE inboxed[f]]
  <3>1. CASE fact[f].inbox = "none"
   BY <1>2, <1>7, <1>8, <3>1 DEF FactOK
  <3>2. CASE fact[f].inbox # "none"
   <4>1. inboxed[f] + 0 = inboxed[f] BY <1>2
   <4>2. inboxed' = [inboxed EXCEPT ![f] = inboxed[f] + 0] BY <1>7, <3>2
   <4> QED BY <3>2, <4>1, <4>2
  <3> QED BY <3>1, <3>2
 <2> QED BY <1>4, <1>5, <2>1, <2>2
<1>9. CASE verdict # "ok"
 <2>1. inboxed' = inboxed BY <1>2, <1>7, <1>9
 <2>2. CASE fact' = Insert(f, "skipped", "skipped")
  <3>1. inboxed' = [inboxed EXCEPT ![f] = IF "skipped" = "sent" /\ fact[f].inbox = "none" THEN 1 ELSE inboxed[f]]
   BY <1>2, <2>1
  <3> QED BY <1>4, <1>5, <2>2, <3>1
 <2>3. CASE fact' = fact
  <3>1. AtRest \in Errands /\ AtRest.step = "idle" BY DEF AtRest, Errands
  <3> QED BY <1>3, <2>1, <2>3, <3>1, ErrandStep
 <2> QED BY <1>1, <1>6, <1>9, <2>2, <2>3 DEF MaterializeLotReminder
<1> QED BY <1>8, <1>9

\* claimReminderForSend found the lease of the reminder over: it has failed, and with it go
\* its consents.
LEMMA StaleStep ==
    ASSUME ReminderInv, NEW w \in Reminders, ~AtSend(w), NEW f \in Facts, NEW row \in FactRows,
           fact' = [fact EXCEPT ![f] = row], reminder' = [reminder EXCEPT ![w] = AtRest],
           fact[f].wechat = "pending", fact[f].attempts = 1,
           row.inbox = fact[f].inbox, row.wechat = "failed", row.attempts = 1,
           consent' = ConsentsOf(f, "unknown"), UNCHANGED <<clock, batch, inboxed, told, used>>
    PROVE  ReminderInv'
<1>0. AtRest \in Errands /\ AtRest.step = "idle" BY DEF AtRest, Errands
<1>1. /\ reminder'[w] = AtRest /\ \A v \in Reminders : v # w => reminder'[v] = reminder[v]
      /\ fact'[f] = row /\ \A g \in Facts : g # f => fact'[g] = fact[g]
 BY DEF ReminderInv, ReminderTypes
<1>2. \A c \in Consents : consent[c] \in ConsentRows BY DEF ReminderInv, ReminderTypes
<1>3. \A c \in Consents :
         IF consent[c].status = "sending" /\ consent[c].by = f
         THEN consent'[c].status = "unknown" /\ consent'[c].by = f /\ consent'[c] \in ConsentRows
         ELSE consent'[c] = consent[c]
 <2> SUFFICES ASSUME NEW c \in Consents
              PROVE  IF consent[c].status = "sending" /\ consent[c].by = f
                     THEN consent'[c].status = "unknown" /\ consent'[c].by = f /\ consent'[c] \in ConsentRows
                     ELSE consent'[c] = consent[c]
  OBVIOUS
 <2>1. consent'[c] = IF consent[c] = [status |-> "sending", by |-> f]
                     THEN [status |-> "unknown", by |-> f] ELSE consent[c]
  BY DEF ConsentsOf
 <2>2. consent[c].status = "sending" /\ consent[c].by = f => consent[c] = [status |-> "sending", by |-> f]
  BY <1>2 DEF ConsentRows
 <2>3. consent[c] = [status |-> "sending", by |-> f] => consent[c].status = "sending" /\ consent[c].by = f
  OBVIOUS
 <2>4. [status |-> "unknown", by |-> f] \in ConsentRows BY DEF ConsentRows
 <2> QED BY <2>1, <2>2, <2>3, <2>4
<1>4. consent' \in [Consents -> ConsentRows]
 <2>1. consent' = [c \in Consents |-> consent'[c]] BY DEF ConsentsOf
 <2> QED BY <1>2, <1>3, <2>1
<1>5. ReminderTypes' BY <1>0, <1>4 DEF ReminderInv, ReminderTypes
<1>6. \A g \in Facts : FactOK(g)' BY <1>1 DEF ReminderInv, FactOK
<1>7. \A c \in Consents : ConsentOK(c)' BY <1>1, <1>3 DEF ReminderInv, ConsentOK
<1>8. ~AtSend(w)' /\ \A v \in Reminders : v # w => (AtSend(v)' <=> AtSend(v)) BY <1>0, <1>1 DEF AtSend
<1>9. \A v \in Reminders : WorkerOK(v)'
 <2>1. WorkerOK(w)' BY <1>0, <1>1, <1>8 DEF WorkerOK
 <2>2. ASSUME NEW v \in Reminders, v # w PROVE WorkerOK(v)'
  <3>1. WorkerOK(v) /\ reminder'[v] = reminder[v] BY <1>1, <2>2 DEF ReminderInv
  <3>2. CASE ~AtSend(v)
   BY <1>8, <2>2, <3>1, <3>2 DEF WorkerOK
  <3>3. CASE AtSend(v)
   <4>1. reminder[v].fact \in Facts /\ reminder[v].consent \in Consents BY <3>1, <3>3 DEF WorkerOK, AtSend
   <4>2. CASE reminder[v].fact = f
    BY <1>1, <1>3, <3>1, <3>3, <4>1, <4>2 DEF WorkerOK
   <4>3. CASE reminder[v].fact # f
    BY <1>1, <1>3, <3>1, <3>3, <4>1, <4>3 DEF WorkerOK
   <4> QED BY <4>2, <4>3
  <3> QED BY <3>2, <3>3
 <2> QED BY <2>1, <2>2
<1> QED BY <1>1, <1>3, <1>5, <1>6, <1>7, <1>8, <1>9 DEF ReminderInv

\* claimReminderForSend takes a free consent and the lease.
LEMMA TakeStep ==
    ASSUME ReminderInv, NEW w \in Reminders, reminder[w].step = "due", NEW f \in Facts, f = reminder[w].fact,
           NEW c \in Consents, consent[c].status = "available",
           fact[f].wechat = "pending", fact[f].attempts = 0,
           consent' = [consent EXCEPT ![c] = [status |-> "sending", by |-> f]],
           fact' = [fact EXCEPT ![f].attempts = 1, ![f].owner = w, ![f].live = TRUE],
           reminder' = [reminder EXCEPT ![w].step = "claimed", ![w].consent = c],
           UNCHANGED <<clock, batch, inboxed, told, used>>
    PROVE  ReminderInv'
<1>0. /\ fact \in [Facts -> FactRows] /\ consent \in [Consents -> ConsentRows]
      /\ reminder \in [Reminders -> Errands] /\ FactOK(f) /\ ConsentOK(c)
 BY DEF ReminderInv, ReminderTypes
<1>1. /\ fact' \in [Facts -> FactRows] /\ \A g \in Facts : g # f => fact'[g] = fact[g]
      /\ fact'[f].inbox = fact[f].inbox /\ fact'[f].wechat = "pending"
      /\ fact'[f].attempts = 1 /\ fact'[f].owner = w
 BY <1>0 DEF FactRows
<1>2. /\ consent' \in [Consents -> ConsentRows] /\ \A d \in Consents : d # c => consent'[d] = consent[d]
      /\ consent'[c].status = "sending" /\ consent'[c].by = f
 <2>1. PICK row \in ConsentRows : row = [status |-> "sending", by |-> f] BY DEF ConsentRows
 <2> QED BY <1>0, <2>1
<1>3. /\ reminder' \in [Reminders -> Errands] /\ \A v \in Reminders : v # w => reminder'[v] = reminder[v]
      /\ reminder'[w].step = "claimed" /\ reminder'[w].consent = c /\ reminder'[w].fact = f
 BY <1>0 DEF Errands
<1>4. ReminderTypes' BY <1>1, <1>2, <1>3 DEF ReminderInv, ReminderTypes
<1>5. \A g \in Facts : FactOK(g)'
 <2>1. FactOK(f)' BY <1>0, <1>1 DEF FactOK
 <2>2. ASSUME NEW g \in Facts, g # f PROVE FactOK(g)'
  <3>1. FactOK(g) /\ fact'[g] = fact[g] BY <1>1, <2>2 DEF ReminderInv
  <3> QED BY <3>1 DEF FactOK
 <2> QED BY <2>1, <2>2
<1>6. \A d \in Consents : ConsentOK(d)'
 <2>1. ConsentOK(c)' BY <1>1, <1>2 DEF ConsentOK
 <2>2. ASSUME NEW d \in Consents, d # c PROVE ConsentOK(d)'
  <3>1. ConsentOK(d) /\ consent'[d] = consent[d] /\ consent[d] \in ConsentRows
   BY <1>0, <1>2, <2>2 DEF ReminderInv
  <3> QED BY <1>1, <3>1 DEF ConsentOK
 <2> QED BY <2>1, <2>2
<1>7. told[f] = 0 /\ used[c] = 0 BY <1>0 DEF FactOK, ConsentOK
<1>8. AtSend(w)' /\ ~AtSend(w) /\ \A v \in Reminders : v # w => (AtSend(v)' <=> AtSend(v)) BY <1>3 DEF AtSend
<1>9. \A v \in Reminders : v # w /\ AtSend(v) => /\ reminder[v].fact # f /\ reminder[v].fact \in Facts
                                                /\ reminder[v].consent # c /\ reminder[v].consent \in Consents
 BY DEF ReminderInv, WorkerOK, AtSend
<1>10. \A v \in Reminders : WorkerOK(v)'
 <2>1. WorkerOK(w)' BY <1>1, <1>2, <1>3, <1>7 DEF WorkerOK
 <2>2. ASSUME NEW v \in Reminders, v # w PROVE WorkerOK(v)'
  BY ZenonT(30), <1>1, <1>2, <1>3, <1>8, <1>9, <2>2 DEF ReminderInv, WorkerOK
 <2> QED BY <2>1, <2>2
<1>11. \A d \in Consents : consent[d].status = "sending" => consent[d].by # f BY DEF ReminderInv, ConsentOK
<1> QED BY <1>2, <1>3, <1>4, <1>5, <1>6, <1>8, <1>9, <1>10, <1>11 DEF ReminderInv

LEMMA ClaimReminderStep ==
    ASSUME ReminderInv, NEW w \in Reminders, NEW reachable \in BOOLEAN, ClaimReminderForSend(w, reachable)
    PROVE  ReminderInv'
<1>1. PICK f \in Facts : f = reminder[w].fact /\ ~AtSend(w) /\ reminder[w].step = "due"
 BY DEF ReminderInv, WorkerOK, ClaimReminderForSend, AtSend
<1>2. /\ fact[f] \in FactRows /\ fact \in [Facts -> FactRows] /\ FactOK(f) /\ told[f] \in {0, 1}
      /\ inboxed \in [Facts -> {0, 1}]
 BY DEF ReminderInv, ReminderTypes
<1>3. UNCHANGED <<clock, batch, inboxed, told, used>> BY DEF ClaimReminderForSend
<1>4. CASE fact' = [fact EXCEPT ![f] = fact[f]] /\ reminder' = [reminder EXCEPT ![w] = AtRest] /\ UNCHANGED consent
 <2>1. AtRest \in Errands /\ AtRest.step = "idle" /\ fact' = fact BY <1>2, <1>4 DEF AtRest, Errands
 <2> QED BY <1>3, <1>4, <2>1, ErrandStep
<1>5. CASE /\ fact[f].wechat = "pending" /\ MayBeSending(f)
           /\ fact' = [fact EXCEPT ![f] = [fact[f] EXCEPT !.wechat = "failed", !.owner = "none"]]
           /\ reminder' = [reminder EXCEPT ![w] = AtRest] /\ consent' = ConsentsOf(f, "unknown")
 <2>1. PICK row \in FactRows : row = [fact[f] EXCEPT !.wechat = "failed", !.owner = "none"]
  BY <1>2 DEF FactRows
 <2>2. row.inbox = fact[f].inbox /\ row.wechat = "failed" /\ row.attempts = fact[f].attempts
  BY <1>2, <2>1 DEF FactRows
 <2>3. fact[f].attempts = 1 BY <1>2, <1>5 DEF MayBeSending, FactRows
 <2> QED BY <1>1, <1>3, <1>5, <2>1, <2>2, <2>3, StaleStep
<1>6. CASE /\ fact[f].wechat = "pending" /\ ~MayBeSending(f)
           /\ fact' = [fact EXCEPT ![f] = [fact[f] EXCEPT !.wechat = "skipped"]]
           /\ reminder' = [reminder EXCEPT ![w] = AtRest] /\ UNCHANGED consent
 <2>1. PICK row \in FactRows : row = [fact[f] EXCEPT !.wechat = "skipped"] BY <1>2 DEF FactRows
 <2>2. row.inbox = fact[f].inbox /\ row.wechat = "skipped" /\ row.attempts = fact[f].attempts
  BY <1>2, <2>1 DEF FactRows
 <2>3. fact[f].attempts = 0 BY <1>2, <1>6 DEF MayBeSending, FactRows
 <2>4. fact'[f] = row BY <1>2, <1>6, <2>1
 <2>5. FactOK(f)' BY <1>2, <1>3, <2>2, <2>3, <2>4 DEF FactOK
 <2> QED BY <1>1, <1>2, <1>3, <1>6, <2>1, <2>2, <2>3, <2>5, QuietWrite
<1>7. CASE /\ fact[f].wechat = "pending" /\ ~MayBeSending(f)
           /\ \E c \in {c \in Consents : consent[c].status = "available"} :
                 /\ consent' = [consent EXCEPT ![c] = [status |-> "sending", by |-> f]]
                 /\ fact' = [fact EXCEPT ![f].attempts = 1, ![f].owner = w, ![f].live = TRUE]
                 /\ reminder' = [reminder EXCEPT ![w].step = "claimed", ![w].consent = c]
 <2>1. fact[f].attempts = 0 BY <1>2, <1>7 DEF MayBeSending, FactRows
 <2>2. PICK c \in Consents :
          /\ consent[c].status = "available" /\ consent' = [consent EXCEPT ![c] = [status |-> "sending", by |-> f]]
          /\ fact' = [fact EXCEPT ![f].attempts = 1, ![f].owner = w, ![f].live = TRUE]
          /\ reminder' = [reminder EXCEPT ![w].step = "claimed", ![w].consent = c]
  BY <1>7
 <2> QED BY <1>1, <1>3, <1>7, <2>1, <2>2, TakeStep
<1> QED BY <1>1, <1>4, <1>5, <1>6, <1>7 DEF ClaimReminderForSend

LEMMA SendReminderStep ==
    ASSUME ReminderInv, NEW w \in Reminders,
           NEW outcome \in {"succeeded", "unknown", "exhausted", "not_attempted"}, SendReminder(w, outcome)
    PROVE  ReminderInv'
<1>1. PICK f \in Facts : f = reminder[w].fact /\ reminder[w].step = "claimed" /\ AtSend(w)
 BY DEF ReminderInv, WorkerOK, SendReminder, AtSend
<1>2. PICK c \in Consents : c = reminder[w].consent BY <1>1 DEF ReminderInv, WorkerOK
<1>3. /\ reminder \in [Reminders -> Errands] /\ told \in [Facts -> {0, 1}] /\ used \in [Consents -> {0, 1}]
      /\ told[f] = 0 /\ used[c] = 0 /\ fact[f].attempts = 1 /\ fact[f].wechat \in {"pending", "failed"}
      /\ consent[c].by = f /\ consent[c].status \in {"sending", "unknown"} /\ WorkerOK(w)
 BY <1>1, <1>2 DEF ReminderInv, ReminderTypes, WorkerOK
<1>4. PICK n \in {0, 1} : n = IF outcome \in {"succeeded", "unknown"} THEN 1 ELSE 0 OBVIOUS
<1>5. told' = [told EXCEPT ![f] = n] /\ used' = [used EXCEPT ![c] = n]
 BY <1>1, <1>2, <1>3, <1>4 DEF SendReminder
<1>6. UNCHANGED <<clock, batch, fact, consent, inboxed>> BY DEF SendReminder
<1>7. /\ reminder' \in [Reminders -> Errands] /\ \A v \in Reminders : v # w => reminder'[v] = reminder[v]
      /\ reminder'[w].step = "sent" /\ reminder'[w].outcome = outcome
      /\ reminder'[w].consent = c /\ reminder'[w].fact = f
 BY ZenonT(30), <1>1, <1>2, <1>3 DEF SendReminder, Errands
<1>8. /\ told' \in [Facts -> {0, 1}] /\ told'[f] = n /\ \A g \in Facts : g # f => told'[g] = told[g]
      /\ used' \in [Consents -> {0, 1}] /\ used'[c] = n /\ \A d \in Consents : d # c => used'[d] = used[d]
 BY <1>3, <1>5
<1>9. ReminderTypes' BY <1>6, <1>7, <1>8 DEF ReminderInv, ReminderTypes
<1>10. \A g \in Facts : FactOK(g)' BY <1>3, <1>6, <1>8 DEF ReminderInv, FactOK
<1>11. \A d \in Consents : ConsentOK(d)' BY <1>3, <1>6, <1>8 DEF ReminderInv, ConsentOK
<1>12. AtSend(w)' /\ \A v \in Reminders : (AtSend(v)' <=> AtSend(v)) /\ reminder'[v].fact = reminder[v].fact
 BY <1>1, <1>7 DEF AtSend
<1>13. \A v \in Reminders : v # w /\ AtSend(v) => /\ reminder[v].fact # f /\ reminder[v].fact \in Facts
                                                 /\ reminder[v].consent # c /\ reminder[v].consent \in Consents
 <2> SUFFICES ASSUME NEW v \in Reminders, v # w, AtSend(v)
              PROVE  /\ reminder[v].fact # f /\ reminder[v].fact \in Facts
                     /\ reminder[v].consent # c /\ reminder[v].consent \in Consents
  OBVIOUS
 <2>1. reminder[v].fact # f BY <1>1 DEF ReminderInv
 <2>2. /\ reminder[v].fact \in Facts /\ reminder[v].consent \in Consents
       /\ consent[reminder[v].consent].by = reminder[v].fact
  BY DEF ReminderInv, WorkerOK, AtSend
 <2> QED BY <1>3, <2>1, <2>2
<1>14. \A v \in Reminders : WorkerOK(v)'
 <2>1. WorkerOK(w)' BY <1>1, <1>2, <1>3, <1>4, <1>6, <1>7, <1>8, <1>12 DEF WorkerOK
 <2>2. ASSUME NEW v \in Reminders, v # w PROVE WorkerOK(v)'
  BY <1>6, <1>7, <1>8, <1>12, <1>13, <2>2 DEF ReminderInv, WorkerOK
 <2> QED BY <2>1, <2>2
<1> QED BY <1>6, <1>9, <1>10, <1>11, <1>12, <1>14 DEF ReminderInv

\* The end of a claim, written if the claim is still the worker's.
LEMMA WriteOwnedStep ==
    ASSUME ReminderInv, NEW w \in Reminders, AtSend(w), NEW f \in Facts, f = reminder[w].fact,
           NEW row \in FactRows, NEW status \in {"available", "consumed", "unknown", "exhausted"},
           WriteOwned(w, row, status), row.inbox = fact[f].inbox, row.wechat # "none",
           row.wechat = "sent" => told[f] = 1, row.wechat = "skipped" \/ row.attempts = 0 => told[f] = 0,
           status = "consumed" => used[reminder[w].consent] = 1,
           status = "available" => used[reminder[w].consent] = 0
    PROVE  ReminderInv'
<1>0. AtRest \in Errands /\ AtRest.step = "idle" BY DEF AtRest, Errands
<1>1. /\ reminder' = [reminder EXCEPT ![w] = AtRest] /\ UNCHANGED <<clock, batch, inboxed, told, used>>
 BY DEF WriteOwned
<1>2. CASE ~OwnsClaim(w)
 <2>1. UNCHANGED <<fact, consent>> BY <1>2 DEF WriteOwned
 <2> QED BY <1>0, <1>1, <2>1, ErrandStep
<1>3. CASE OwnsClaim(w)
 <2>1. PICK c \in Consents : c = reminder[w].consent BY DEF ReminderInv, WorkerOK
 <2>2. /\ fact \in [Facts -> FactRows] /\ consent \in [Consents -> ConsentRows]
       /\ reminder \in [Reminders -> Errands] /\ FactOK(f) /\ ConsentOK(c)
       /\ fact[f].wechat = "pending" /\ consent[c].status = "sending" /\ consent[c].by = f
  BY <1>3, <2>1 DEF ReminderInv, ReminderTypes, WorkerOK, OwnsClaim
 <2>3. PICK by \in Facts \cup {<<>>} : by = IF status = "available" THEN <<>> ELSE f OBVIOUS
 <2>4. consent[c] = [status |-> "sending", by |-> f] BY <2>2 DEF ConsentRows
 <2>5. fact' = [fact EXCEPT ![f] = row] /\ consent' = [consent EXCEPT ![c] = [status |-> status, by |-> by]]
  BY <1>3, <2>1, <2>3, <2>4 DEF WriteOwned
 <2>6. /\ consent' \in [Consents -> ConsentRows] /\ consent'[c].status = status
       /\ \A d \in Consents : d # c => consent'[d] = consent[d]
  <3>1. PICK new \in ConsentRows : new = [status |-> status, by |-> by] BY DEF ConsentRows
  <3> QED BY <2>2, <2>5, <3>1
 <2>7. fact' \in [Facts -> FactRows] /\ fact'[f] = row /\ \A g \in Facts : g # f => fact'[g] = fact[g]
  BY <2>2, <2>5
 <2>8. /\ reminder' \in [Reminders -> Errands] /\ reminder'[w] = AtRest
       /\ \A v \in Reminders : v # w => reminder'[v] = reminder[v]
  BY <1>0, <1>1, <2>2
 <2>9. ReminderTypes' BY <1>1, <2>6, <2>7, <2>8 DEF ReminderInv, ReminderTypes
 <2>10. \A g \in Facts : FactOK(g)'
  <3>1. FactOK(f)' BY <1>1, <2>2, <2>7 DEF FactOK
  <3>2. ASSUME NEW g \in Facts, g # f PROVE FactOK(g)' BY <1>1, <2>7, <3>2 DEF ReminderInv, FactOK
  <3> QED BY <3>1, <3>2
 <2>11. \A d \in Consents : d # c /\ consent[d].status = "sending" => consent[d].by # f
  BY <2>2 DEF ReminderInv
 <2>12. \A d \in Consents : ConsentOK(d)'
  <3>1. ConsentOK(c)' BY <1>1, <2>1, <2>6 DEF ConsentOK
  <3>2. ASSUME NEW d \in Consents, d # c PROVE ConsentOK(d)'
   BY <1>1, <2>6, <2>7, <2>11, <3>2 DEF ReminderInv, ConsentOK
  <3> QED BY <3>1, <3>2
 <2>13. ~AtSend(w)' /\ \A v \in Reminders : v # w => (AtSend(v)' <=> AtSend(v)) BY <1>0, <2>8 DEF AtSend
 <2>14. \A v \in Reminders : v # w /\ AtSend(v) => /\ reminder[v].fact # f /\ reminder[v].fact \in Facts
                                                  /\ reminder[v].consent # c /\ reminder[v].consent \in Consents
  <3> SUFFICES ASSUME NEW v \in Reminders, v # w, AtSend(v)
               PROVE  /\ reminder[v].fact # f /\ reminder[v].fact \in Facts
                      /\ reminder[v].consent # c /\ reminder[v].consent \in Consents
   OBVIOUS
  <3>1. reminder[v].fact # f BY DEF ReminderInv
  <3>2. /\ reminder[v].fact \in Facts /\ reminder[v].consent \in Consents
        /\ consent[reminder[v].consent].by = reminder[v].fact
   BY DEF ReminderInv, WorkerOK, AtSend
  <3> QED BY <2>2, <3>1, <3>2
 <2>15. \A v \in Reminders : WorkerOK(v)'
  <3>1. WorkerOK(w)' BY <1>0, <2>8, <2>13 DEF WorkerOK
  <3>2. ASSUME NEW v \in Reminders, v # w PROVE WorkerOK(v)'
   BY <1>1, <2>6, <2>7, <2>8, <2>13, <2>14, <3>2 DEF ReminderInv, WorkerOK
  <3> QED BY <3>1, <3>2
 <2> QED BY <2>6, <2>8, <2>9, <2>10, <2>12, <2>13, <2>15 DEF ReminderInv
<1> QED BY <1>2, <1>3

LEMMA EndSendStep ==
    ASSUME ReminderInv, NEW w \in Reminders, CancelClaimBeforeSend(w) \/ FinishReminderSend(w)
    PROVE  ReminderInv'
<1>1. PICK f \in Facts : f = reminder[w].fact /\ AtSend(w)
 BY DEF ReminderInv, WorkerOK, CancelClaimBeforeSend, FinishReminderSend, AtSend
<1>2. /\ fact[f] \in FactRows /\ reminder[w] \in Errands /\ WorkerOK(w) /\ fact[f].attempts = 1
      /\ fact[f].wechat \in {"pending", "failed"}
 BY <1>1 DEF ReminderInv, ReminderTypes, WorkerOK
<1>3. CASE CancelClaimBeforeSend(w)
 <2>1. PICK row \in FactRows : row = [fact[f] EXCEPT !.wechat = "skipped", !.owner = "none", !.live = FALSE]
  BY <1>2 DEF FactRows
 <2>2. row.inbox = fact[f].inbox /\ row.wechat = "skipped" BY <1>2, <2>1 DEF FactRows
 <2>3. told[f] = 0 /\ used[reminder[w].consent] = 0 BY <1>1, <1>2, <1>3 DEF WorkerOK, CancelClaimBeforeSend
 <2>4. WriteOwned(w, row, "available") BY <1>1, <1>3, <2>1 DEF CancelClaimBeforeSend
 <2> QED BY <1>1, <2>2, <2>3, <2>4, WriteOwnedStep
<1>4. CASE FinishReminderSend(w)
 <2>1. PICK outcome \in {"succeeded", "unknown", "exhausted", "not_attempted"} : outcome = reminder[w].outcome
  BY <1>1, <1>2, <1>4 DEF WorkerOK, Errands, FinishReminderSend
 <2>2. reminder[w].step = "sent" BY <1>4 DEF FinishReminderSend
 <2>3. CASE outcome = "not_attempted"
  <3>1. PICK row \in FactRows : row = [fact[f] EXCEPT !.attempts = 0, !.owner = "none", !.live = FALSE]
   BY <1>2 DEF FactRows
  <3>2. row.inbox = fact[f].inbox /\ row.wechat = fact[f].wechat BY <1>2, <3>1 DEF FactRows
  <3>3. told[f] = 0 /\ used[reminder[w].consent] = 0 BY <1>1, <1>2, <2>1, <2>3 DEF WorkerOK
  <3>4. WriteOwned(w, row, "available") BY <1>1, <1>4, <2>1, <2>3, <3>1 DEF FinishReminderSend
  <3>5. row.wechat \in {"pending", "failed"} BY <1>2, <3>2
  <3> QED BY <1>1, <3>2, <3>3, <3>4, <3>5, WriteOwnedStep
 <2>4. CASE outcome # "not_attempted"
  <3>1. PICK s \in {"sent", "failed"} : s = ReminderStatus(outcome) BY DEF ReminderStatus
  <3>2. PICK status \in {"consumed", "unknown", "exhausted"} : status = ConsentStatus(outcome)
   BY <2>1, <2>4 DEF ConsentStatus
  <3>3. PICK row \in FactRows : row = [fact[f] EXCEPT !.wechat = s, !.owner = "none", !.live = FALSE]
   BY <1>2 DEF FactRows
  <3>4. row.inbox = fact[f].inbox /\ row.wechat = s /\ row.attempts = 1 BY <1>2, <3>3 DEF FactRows
  <3>5. /\ (s = "sent" => told[f] = 1) /\ (status = "consumed" => used[reminder[w].consent] = 1)
   BY <1>1, <1>2, <2>1, <2>2, <3>1, <3>2 DEF WorkerOK, ReminderStatus, ConsentStatus
  <3>6. WriteOwned(w, row, status) BY <1>1, <1>4, <2>1, <2>4, <3>1, <3>2, <3>3 DEF FinishReminderSend
  <3> QED BY <1>1, <3>4, <3>5, <3>6, WriteOwnedStep
 <2> QED BY <2>3, <2>4
<1> QED BY <1>3, <1>4

LEMMA ReminderKeeps == ReminderInv /\ ReminderNext => ReminderInv'
<1> SUFFICES ASSUME ReminderInv, ReminderNext PROVE ReminderInv'
 OBVIOUS
<1>1. CASE \E w \in Reminders : ReminderStep(w)
 <2>1. PICK w \in Reminders : ReminderStep(w) BY <1>1
 <2> QED BY <2>1, ReadStep, MaterializeStep, ClaimReminderStep, EndSendStep, SendReminderStep DEF ReminderStep
<1> QED BY <1>1, ReadStep, AroundStep DEF ReminderNext

LEMMA ReminderRests == ReminderInv /\ UNCHANGED remVars => ReminderInv'
BY DEF ReminderInv, remVars, ReminderTypes, FactOK, ConsentOK, WorkerOK, AtSend

----------------------------------------
(* The nightly check of the tickets. *)

Cursors == [phase : Phases, last : Nat]
Marks   == [Phases -> 0..IdBound]

CheckpointRows == [status : {"none", "running", "completed"}, cursor : Cursors, seed : Cursors,
                   high : Marks \cup {<<>>}, owner : Replicas \cup {"none", "gone"},
                   live : BOOLEAN, version : Nat]

Batches == [rows : SUBSET IntegrityRows, found : SUBSET IntegrityRows, next : Cursors, done : BOOLEAN]

Agents == [step : {"idle", "claimed", "scanned"}, cursor : Cursors, cycle : Days, version : Nat,
           batch : Batches]

IntegrityTypes ==
    /\ day \in Days /\ checkpoint \in [Days -> CheckpointRows] /\ agent \in [Replicas -> Agents]
    /\ there \subseteq IntegrityRows /\ present \in [Days -> SUBSET IntegrityRows]
    /\ throughout \in [Days -> SUBSET IntegrityRows] /\ reported \in [Days -> SUBSET IntegrityRows]
    /\ wrong \subseteq there /\ checkedIn \in [Days -> [IntegrityRows -> Nat]]

\* The row lies behind the cursor.
Before(r, cursor) == r[1] < cursor.phase \/ (r[1] = cursor.phase /\ r[2] <= cursor.last)

\* The rows a cycle is through with: between its seed and its cursor, those below the
\* watermarks, and of them those it began with.
Behind(d) ==
    {r \in IntegrityRows : /\ r[2] <= checkpoint[d].high[r[1]] /\ ~Before(r, checkpoint[d].seed)
                           /\ checkpoint[d].status = "completed" \/ Before(r, checkpoint[d].cursor)}
Through(d) == Behind(d) \cap present[d]

NotBefore(cursor, seed) ==
    cursor.phase > seed.phase \/ (cursor.phase = seed.phase /\ cursor.last >= seed.last)

\* Before cycle k all rows behind the cursor were checked, or were not there.
Passed(cursor, k) == \A r \in IntegrityRows : Before(r, cursor) => SeenBefore(r, k)

CycleOK(d) ==
    /\ checkpoint[d].status = "none" =>
          throughout[d] = {} /\ \A r \in IntegrityRows : checkedIn[d][r] = 0
    /\ checkpoint[d].status # "none" =>
          /\ checkpoint[d].high \in Marks
          /\ \A r \in IntegrityRows : /\ checkedIn[d][r] \in {0, 1}
                                      /\ checkedIn[d][r] = 1 => r \in Behind(d)
                                      /\ r \in Through(d) => checkedIn[d][r] = 1
          /\ present[d] \subseteq there /\ \A r \in present[d] : r[2] <= checkpoint[d].high[r[1]]
          /\ throughout[d] \cap Through(d) \subseteq reported[d]
          /\ Passed(checkpoint[d].seed, d) /\ Passed(checkpoint[d].cursor, d + 1)
    /\ checkpoint[d].status = "running" => NotBefore(checkpoint[d].cursor, checkpoint[d].seed)
    /\ d > day => checkpoint[d].status = "none"
    /\ throughout[d] \subseteq wrong

\* The rows after the cursor, up to m.
RowsUpTo(cursor, m) == {r \in IntegrityRows : r[1] = cursor.phase /\ cursor.last < r[2] /\ r[2] <= m}

\* A batch of the rows there are ends at m; it is the last of its phase if none was left.
BatchUpTo(b, cursor, high, m, fin, rows) ==
    /\ m \in Nat /\ m >= cursor.last /\ fin \in BOOLEAN
    /\ m <= high[cursor.phase] \/ m = cursor.last
    /\ b.rows \subseteq RowsUpTo(cursor, m) /\ rows \cap RowsUpTo(cursor, m) \subseteq b.rows
    /\ fin => rows \cap RowsUpTo(cursor, high[cursor.phase]) \subseteq b.rows
    /\ b.next = NextCursor(cursor.phase, m, fin)
    /\ b.done <=> fin /\ cursor.phase = PhaseCount

\* The batch of an agent at work has all rows after its cursor that its cycle began with.
BatchOK(a) ==
    \E m \in Nat, fin \in BOOLEAN :
        BatchUpTo(a.batch, a.cursor, checkpoint[a.cycle].high, m, fin, present[a.cycle])

\* An agent that still holds the checkpoint has its cursor; its batch is the one after the
\* cursor, and what it found in it is all that has been wrong the whole time.
AgentOK(w) ==
    agent[w].step # "idle" =>
        /\ checkpoint[agent[w].cycle].status # "none"
        /\ StillHeld(w) => agent[w].cursor = checkpoint[agent[w].cycle].cursor
        /\ agent[w].step = "scanned" =>
              /\ BatchOK(agent[w])
              /\ agent[w].batch.rows \cap throughout[agent[w].cycle] \subseteq agent[w].batch.found

\* Wherever a replica would seed the next cycle, no row is passed over that was never due.
CursorOK(w) == Passed(agent[w].cursor, day + 1)

IntegrityInv ==
    /\ IntegrityTypes /\ \A d \in Days : CycleOK(d)
    /\ \A w \in Replicas : AgentOK(w) /\ CursorOK(w)

\* A row lies after the seed of a cycle, or behind it.
LEMMA AfterSeed ==
    ASSUME NEW r \in IntegrityRows, NEW seed \in Cursors
    PROVE  (r[1] > seed.phase \/ (r[1] = seed.phase /\ r[2] > seed.last)) <=> ~Before(r, seed)
BY DEF IntegrityRows, Cursors, Phases, Before

LEMMA IntegrityInvImplies == IntegrityInv => CycleFindsAll
<1> SUFFICES ASSUME IntegrityInv, NEW d \in Days, checkpoint[d].status # "none"
             PROVE  /\ \A r \in IntegrityRows : checkedIn[d][r] <= 1
                    /\ (checkpoint[d].status = "completed" =>
                          /\ \A r \in RowsOfCycle(d) : checkedIn[d][r] = 1
                          /\ throughout[d] \cap RowsOfCycle(d) \subseteq reported[d])
                    /\ \A r \in present[d] \ RowsOfCycle(d) : SeenBefore(r, d)
 BY DEF CycleFindsAll
<1>1. /\ \A r \in IntegrityRows : checkedIn[d][r] \in {0, 1} /\ (r \in Through(d) => checkedIn[d][r] = 1)
      /\ \A r \in present[d] : r[2] <= checkpoint[d].high[r[1]]
      /\ throughout[d] \cap Through(d) \subseteq reported[d] /\ Passed(checkpoint[d].seed, d)
 BY DEF IntegrityInv, CycleOK
<1>2. present[d] \subseteq IntegrityRows /\ checkpoint[d].seed \in Cursors
 BY DEF IntegrityInv, IntegrityTypes, CheckpointRows
<1>3. \A r \in IntegrityRows : r \in RowsOfCycle(d) <=> r \in present[d] /\ ~Before(r, checkpoint[d].seed)
 BY <1>2, AfterSeed DEF RowsOfCycle
<1>4. RowsOfCycle(d) \subseteq IntegrityRows BY <1>2 DEF RowsOfCycle
<1>5. checkpoint[d].status = "completed" => RowsOfCycle(d) \subseteq Through(d)
 BY <1>1, <1>3, <1>4 DEF Through, Behind
<1>6. \A r \in present[d] \ RowsOfCycle(d) : SeenBefore(r, d) BY <1>1, <1>2, <1>3 DEF Passed
<1> QED BY <1>1, <1>4, <1>5, <1>6

LEMMA CursorFacts == Beginning \in Cursors /\ 1 \in Days /\ 1 \in Phases
BY IntegrityAssumption DEF Beginning, Cursors, Phases, Days

LEMMA NoBatchIsBatch == NoBatch \in Batches
BY CursorFacts DEF NoBatch, Batches

LEMMA IdleAgent == ASSUME NEW cursor \in Cursors
                   PROVE  /\ AgentIdle(cursor) \in Agents
                          /\ AgentIdle(cursor).step = "idle" /\ AgentIdle(cursor).cursor = cursor
BY CursorFacts, NoBatchIsBatch DEF AgentIdle, Agents

LEMMA NoneBehind == \A r \in IntegrityRows : ~Before(r, Beginning)
BY DEF IntegrityRows, Phases, Before, Beginning

LEMMA IntegrityInitially == IntegrityInit => IntegrityInv
<1> SUFFICES ASSUME IntegrityInit PROVE IntegrityInv
 OBVIOUS
<1>1. NoCheckpoint \in CheckpointRows BY CursorFacts DEF NoCheckpoint, CheckpointRows
<1>2. there \subseteq IntegrityRows BY IntegrityAssumption DEF IntegrityInit, IntegrityRows
<1>3. wrong \subseteq there BY DEF IntegrityInit
<1>4. day \in Days /\ checkpoint \in [Days -> CheckpointRows] /\ agent \in [Replicas -> Agents]
 BY <1>1, CursorFacts, IdleAgent DEF IntegrityInit
<1>5. IntegrityTypes BY <1>2, <1>3, <1>4 DEF IntegrityInit, IntegrityTypes
<1>6. \A d \in Days : checkpoint[d].status = "none" BY DEF IntegrityInit, NoCheckpoint
<1>7. \A d \in Days : CycleOK(d) BY <1>6 DEF IntegrityInit, CycleOK
<1>8. \A w \in Replicas : AgentOK(w) /\ CursorOK(w)
 <2>1. \A w \in Replicas : agent[w].step = "idle" /\ agent[w].cursor = Beginning
  BY DEF IntegrityInit, AgentIdle
 <2> QED BY <2>1, NoneBehind DEF AgentOK, CursorOK, Passed
<1> QED BY <1>5, <1>7, <1>8 DEF IntegrityInv

\* The least and the greatest of some naturals.
LEMMA LeastOf == ASSUME NEW S \in SUBSET Nat, S # {} PROVE \E x \in S : \A y \in S : x <= y
<1> DEFINE below == {p \in Nat \X Nat : p[1] < p[2]}
<1>1. IsWellFoundedOn(below, Nat) BY NatLessThanWellFounded DEF OpToRel
<1> HIDE DEF below
<1>2. PICK x \in S : \A y \in S : ~(<<y, x>> \in below) BY <1>1, WFMin
<1>3. ASSUME NEW y \in S PROVE x <= y
 <2>1. x \in Nat /\ y \in Nat /\ <<y, x>> \in Nat \X Nat OBVIOUS
 <2>2. ~(y < x) BY <1>2, <2>1 DEF below
 <2> QED BY <2>1, <2>2
<1> QED BY <1>3

LEMMA GreatestIsIn ==
    ASSUME NEW k \in Nat, NEW S \in SUBSET (0..k), S # {} PROVE Max(S) \in S /\ \A i \in S : i <= Max(S)
<1> DEFINE D == {k - i : i \in S}
<1>1. D \in SUBSET Nat /\ D # {} OBVIOUS
<1>2. PICK x \in D : \A y \in D : x <= y
 <2> HIDE DEF D
 <2> QED BY <1>1, LeastOf
<1>3. PICK m \in S : x = k - m OBVIOUS
<1>4. \A i \in S : i <= m
 <2> SUFFICES ASSUME NEW i \in S PROVE i <= m
  OBVIOUS
 <2>1. k - i \in D OBVIOUS
 <2> QED BY <1>2, <1>3, <2>1
<1>5. PICK z : z = Max(S) /\ z \in S /\ \A i \in S : z >= i BY <1>4 DEF Max
<1> QED BY <1>5

\* The first few of a set of numbers: whoever is before one of them is among them, and if
\* they are fewer than allowed, they are all.
LEMMA FirstFew ==
    ASSUME NEW k \in Nat, NEW ids \in SUBSET (1..k), NEW n \in Nat,
           NEW Lower, \A i \in ids : \A j : j \in Lower[i] <=> j \in ids /\ j < i,
           NEW taken, \A i : i \in taken <=> i \in ids /\ Cardinality(Lower[i]) < n
    PROVE  /\ \A i \in taken, j \in ids : j < i => j \in taken
           /\ Cardinality(taken) < n => taken = ids
<1>c. \A i \in ids : i \in Nat
 OBVIOUS
<1>d. IsFiniteSet(ids)
 <2>1. IsFiniteSet(1..k) BY FS_Interval
 <2> QED BY <2>1, FS_Subset
<1>e. \A S \in SUBSET ids : IsFiniteSet(S) /\ Cardinality(S) \in Nat
 BY <1>d, FS_Subset, FS_CardinalityType
<1>1. \A i \in ids : Lower[i] \in SUBSET ids OBVIOUS
<1>2. ASSUME NEW i \in taken, NEW j \in ids, j < i PROVE j \in taken
 <2>1. i \in Nat /\ j \in Nat /\ i \in ids BY <1>c
 <2>2. Lower[j] \in SUBSET Lower[i]
  <3> SUFFICES ASSUME NEW x \in Lower[j] PROVE x \in Lower[i]
   OBVIOUS
  <3>1. x \in ids /\ x < j /\ x \in Nat BY <1>c
  <3>2. x < i BY <1>2, <2>1, <3>1
  <3> QED BY <3>1, <3>2
 <2>3. Cardinality(Lower[j]) <= Cardinality(Lower[i]) BY <1>1, <1>e, <2>2, FS_Subset
 <2>4. Cardinality(Lower[j]) \in Nat /\ Cardinality(Lower[i]) \in Nat /\ Cardinality(Lower[i]) < n
  BY <1>1, <1>e
 <2>5. Cardinality(Lower[j]) < n BY <2>3, <2>4
 <2> QED BY <2>5
<1>3. ASSUME Cardinality(taken) < n, taken # ids PROVE FALSE
 <2>1. taken \in SUBSET ids OBVIOUS
 <2>2. PICK S \in SUBSET Nat : S = ids \ taken BY <1>c
 <2>3. PICK x \in S : \A y \in S : x <= y BY <1>3, <2>1, <2>2, LeastOf
 <2>4. Lower[x] \in SUBSET taken
  <3> SUFFICES ASSUME NEW j \in ids, j < x, j \notin taken PROVE FALSE
   BY <2>2, <2>3
  <3>1. x <= j BY <2>2, <2>3
  <3> QED BY <1>c, <2>2, <3>1
 <2>5. Cardinality(Lower[x]) <= Cardinality(taken) BY <1>e, <2>1, <2>4, FS_Subset
 <2>6. Cardinality(taken) \in Nat /\ Cardinality(Lower[x]) \in Nat BY <1>1, <1>e, <2>1, <2>2, <2>3
 <2>7. Cardinality(Lower[x]) < n BY <1>3, <2>5, <2>6
 <2> QED BY <2>2, <2>3, <2>7
<1> QED BY <1>2, <1>3

\* A batch is the next rows there are of its phase, as many as fit, and says where it ends.
LEMMA BatchFacts ==
    ASSUME NEW cursor \in Cursors, NEW high \in Marks, there \subseteq IntegrityRows
    PROVE  /\ Batch(cursor, high) \in Batches
           /\ \E m \in Nat, fin \in BOOLEAN : BatchUpTo(Batch(cursor, high), cursor, high, m, fin, there)
           /\ Batch(cursor, high).found = Batch(cursor, high).rows \cap wrong
<1>1. PICK p \in Phases : p = cursor.phase BY DEF Cursors
<1>2. PICK last \in Nat : last = cursor.last BY DEF Cursors
<1>3. PICK h \in 0..IdBound : h = high[p] BY DEF Marks
<1> DEFINE ids == {i \in 1..IdBound : <<cursor.phase, i>> \in there /\ cursor.last < i /\ i <= high[cursor.phase]}
           taken == {i \in ids : Cardinality({j \in ids : j < i}) < BatchSize}
           end == Max(taken \cup {cursor.last})
           phaseDone == Cardinality(taken) < BatchSize \/ end >= high[cursor.phase]
           rows == {<<cursor.phase, i>> : i \in taken}
<1>4. /\ \A i \in ids : i \in 1..IdBound /\ <<p, i>> \in there /\ last < i /\ i <= h
      /\ \A i \in 1..IdBound : <<p, i>> \in there /\ last < i /\ i <= h => i \in ids
 BY <1>1, <1>2, <1>3
<1>n. ASSUME NEW i \in ids PROVE i \in Nat /\ last < i /\ i <= h
 BY <1>1, <1>2, <1>3
<1>5. taken \subseteq ids OBVIOUS
<1>6. /\ \A i \in taken, j \in ids : j < i => j \in taken
      /\ Cardinality(taken) < BatchSize => taken = ids
 <2>1. PICK few \in Nat : few = BatchSize BY IntegrityAssumption
 <2>2. PICK most \in Nat : most = IdBound BY IntegrityAssumption
 <2>3. PICK lower : lower = [i \in ids |-> {j \in ids : j < i}] OBVIOUS
 <2>4. \A i \in ids : lower[i] = {j \in ids : j < i} BY <2>3
 <2>5. \A i : i \in taken <=> i \in ids /\ Cardinality(lower[i]) < few BY <2>1, <2>4
 <2>6. \A i \in ids : \A j : j \in lower[i] <=> j \in ids /\ j < i BY <2>4
 <2> HIDE DEF ids, taken
 <2>7. ids \in SUBSET (1..most) BY <1>4, <2>2
 <2>8. /\ \A i \in taken, j \in ids : j < i => j \in taken
       /\ Cardinality(taken) < few => taken = ids
  BY <2>5, <2>6, <2>7, FirstFew
 <2> QED BY <2>1, <2>8
<1> HIDE DEF ids, taken
<1>7. PICK m \in Nat : m = end /\ m \in taken \cup {last} /\ \A i \in taken \cup {last} : i <= m
 <2>1. PICK k \in Nat : k = IdBound + last BY IntegrityAssumption
 <2>2. taken \cup {last} \in SUBSET (0..k) /\ taken \cup {last} # {}
  <3>1. \A i \in taken : i \in 0..k
   <4> SUFFICES ASSUME NEW i \in taken PROVE i \in 0..k
    OBVIOUS
   <4>1. i \in 1..IdBound BY <1>4, <1>5
   <4> QED BY <2>1, <4>1, IntegrityAssumption
  <3>2. last \in 0..k BY <2>1, IntegrityAssumption
  <3> QED BY <3>1, <3>2
 <2>3. PICK S : S = taken \cup {last} OBVIOUS
 <2>4. Max(S) \in S /\ \A i \in S : i <= Max(S) BY <2>2, <2>3, GreatestIsIn
 <2> QED BY <1>2, <2>2, <2>3, <2>4
<1>8. PICK fin \in BOOLEAN : fin = phaseDone OBVIOUS
<1> HIDE DEF end, phaseDone
<1>9. m >= last /\ (m <= h \/ m = last) BY <1>4, <1>5, <1>7
<1>10. \A j \in ids : j <= m => j \in taken
 <2> SUFFICES ASSUME NEW j \in ids, j <= m PROVE j \in taken
  OBVIOUS
 <2>1. j \in Nat /\ last < j BY <1>n
 <2>2. m \in taken BY <1>7, <2>1
 <2> QED BY <1>6, <2>1, <2>2
<1>11. fin => ids \subseteq taken
 <2>1. CASE Cardinality(taken) < BatchSize
  BY <1>6, <2>1
 <2>2. CASE m >= h
  <3> SUFFICES ASSUME NEW j \in ids PROVE j \in taken
   OBVIOUS
  <3>1. j \in Nat /\ j <= h BY <1>n
  <3> QED BY <1>10, <2>2, <3>1
 <2> QED BY <1>1, <1>3, <1>7, <1>8, <2>1, <2>2 DEF phaseDone
<1>12. \A r \in IntegrityRows : r = <<r[1], r[2]>> /\ r[2] \in 1..IdBound BY DEF IntegrityRows
<1>13. rows \subseteq RowsUpTo(cursor, m)
 <2>1. \A i \in taken : <<p, i>> \in IntegrityRows /\ last < i /\ i <= m BY <1>4, <1>5, <1>7
 <2> QED BY <1>1, <1>2, <2>1 DEF RowsUpTo
<1>14. \A r \in there : r[1] = p /\ r[2] \in taken => r \in rows BY <1>1, <1>12
<1>15. there \cap RowsUpTo(cursor, m) \subseteq rows
 <2> SUFFICES ASSUME NEW r \in there, r \in IntegrityRows, r[1] = p, last < r[2], r[2] <= m PROVE r \in rows
  BY <1>1, <1>2 DEF RowsUpTo
 <2>1. r[2] <= h BY <1>9, <1>12
 <2>2. r[2] \in ids BY <1>4, <1>12, <2>1
 <2> QED BY <1>10, <1>14, <2>2
<1>16. fin => there \cap RowsUpTo(cursor, high[cursor.phase]) \subseteq rows
 <2> SUFFICES ASSUME fin, NEW r \in there, r \in IntegrityRows, r[1] = p, last < r[2], r[2] <= h PROVE r \in rows
  BY <1>1, <1>2, <1>3 DEF RowsUpTo
 <2>1. r[2] \in ids BY <1>4, <1>12
 <2> QED BY <1>11, <1>14, <2>1
<1>17. PICK next \in Cursors : next = NextCursor(cursor.phase, m, fin)
 <2>1. [phase |-> p, last |-> m] \in Cursors BY DEF Cursors
 <2>2. p # PhaseCount => p + 1 \in Phases BY IntegrityAssumption DEF Phases
 <2>3. p # PhaseCount => [phase |-> p + 1, last |-> 0] \in Cursors BY <2>2 DEF Cursors
 <2> QED BY <1>1, <2>1, <2>3, CursorFacts DEF NextCursor
<1>18. PICK done \in BOOLEAN : done = (fin /\ cursor.phase = PhaseCount) OBVIOUS
<1> HIDE DEF rows
<1>19. Batch(cursor, high) = [rows |-> rows, found |-> rows \cap wrong, next |-> next, done |-> done]
 <2>1. Batch(cursor, high) = [rows |-> rows, found |-> rows \cap wrong,
                              next |-> NextCursor(cursor.phase, end, phaseDone),
                              done |-> phaseDone /\ cursor.phase = PhaseCount]
  BY DEF Batch, ids, taken, end, phaseDone, rows
 <2> QED BY <1>7, <1>8, <1>17, <1>18, <2>1
<1>20. rows \subseteq IntegrityRows BY <1>13 DEF RowsUpTo
<1>21. Batch(cursor, high) \in Batches BY <1>19, <1>20 DEF Batches
<1>22. /\ Batch(cursor, high).rows = rows /\ Batch(cursor, high).found = rows \cap wrong
       /\ Batch(cursor, high).next = next /\ Batch(cursor, high).done = done
 BY <1>19
<1>23. BatchUpTo(Batch(cursor, high), cursor, high, m, fin, there)
 BY <1>1, <1>2, <1>3, <1>9, <1>13, <1>15, <1>16, <1>17, <1>18, <1>22 DEF BatchUpTo
<1> QED BY <1>21, <1>22, <1>23

\* What a cycle has checked stays checked.
Kept ==
    \A e \in Days : checkpoint[e].status # "none" =>
        /\ checkpoint'[e].status # "none" /\ present'[e] = present[e]
        /\ \A r \in IntegrityRows : checkedIn[e][r] = 1 => checkedIn'[e][r] = 1

LEMMA PassedStays ==
    ASSUME Kept, NEW c \in Cursors, NEW k \in Int, NEW n \in Int, k <= n, Passed(c, k)
    PROVE  Passed(c, n)'
<1> SUFFICES ASSUME NEW r \in IntegrityRows, Before(r, c) PROVE SeenBefore(r, n)'
 BY DEF Passed, Before
<1>1. PICK e \in Days : e < k /\ checkpoint[e].status # "none" /\ (checkedIn[e][r] = 1 \/ r \notin present[e])
 BY DEF Passed, SeenBefore
<1>2. e < n BY <1>1 DEF Days
<1> QED BY <1>1, <1>2 DEF SeenBefore, Kept

LEMMA CursorKeeps ==
    ASSUME IntegrityInv, Kept, day' \in Days, day <= day', NEW v \in Replicas,
           \/ agent'[v].cursor \in {agent[v].cursor, Beginning}
           \/ \E d \in Days : checkpoint[d].status # "none" /\ agent'[v].cursor = checkpoint[d].cursor
    PROVE  CursorOK(v)'
<1>0. day \in Days /\ day \in Int /\ day' \in Int /\ agent[v].cursor \in Cursors
 BY DEF IntegrityInv, IntegrityTypes, Agents, Days
<1>1. PICK n \in Int : n = day' + 1 /\ day + 1 <= n
 <2>1. \A i, j \in Int : i <= j => j + 1 \in Int /\ i + 1 <= j + 1 OBVIOUS
 <2> QED BY <1>0, <2>1
<1>2. CASE agent'[v].cursor = agent[v].cursor
 <2>1. PICK c \in Cursors : c = agent[v].cursor BY <1>0
 <2>2. Passed(c, day + 1) BY <2>1 DEF IntegrityInv, CursorOK
 <2>3. Passed(c, n)' BY <1>0, <1>1, <2>2, PassedStays
 <2> QED BY <1>1, <1>2, <2>1, <2>3 DEF CursorOK, Passed
<1>3. CASE agent'[v].cursor = Beginning
 BY <1>3, NoneBehind DEF CursorOK, Passed
<1>4. CASE \E d \in Days : checkpoint[d].status # "none" /\ agent'[v].cursor = checkpoint[d].cursor
 <2>1. PICK d \in Days : checkpoint[d].status # "none" /\ agent'[v].cursor = checkpoint[d].cursor BY <1>4
 <2>2. PICK c \in Cursors : c = checkpoint[d].cursor BY DEF IntegrityInv, IntegrityTypes, CheckpointRows
 <2>3. Passed(c, d + 1) /\ ~(d > day) BY <2>1, <2>2 DEF IntegrityInv, CycleOK
 <2>4. d + 1 \in Int /\ d + 1 <= n BY <1>0, <1>1, <2>3 DEF Days
 <2>5. Passed(c, n)' BY <1>1, <2>3, <2>4, PassedStays
 <2> QED BY <1>1, <2>1, <2>2, <2>5 DEF CursorOK, Passed
<1> QED BY <1>2, <1>3, <1>4

\* Who holds a checkpoint changes, or what is there and wrong, and no cycle advances.
LEMMA SameProgress ==
    ASSUME IntegrityInv,
           day' \in Days, day <= day', there \subseteq there', there' \subseteq IntegrityRows, wrong' \subseteq there',
           checkpoint' \in [Days -> CheckpointRows], agent' \in [Replicas -> Agents],
           \A d \in Days : /\ checkpoint'[d].status = checkpoint[d].status
                           /\ checkpoint'[d].cursor = checkpoint[d].cursor
                           /\ checkpoint'[d].seed = checkpoint[d].seed /\ checkpoint'[d].high = checkpoint[d].high,
           UNCHANGED <<present, checkedIn, reported>>,
           throughout' \in [Days -> SUBSET IntegrityRows],
           \A d \in Days : throughout'[d] \subseteq throughout[d] /\ throughout'[d] \subseteq wrong',
           \A v \in Replicas :
              /\ \/ agent'[v].cursor \in {agent[v].cursor, Beginning}
                 \/ \E d \in Days : checkpoint[d].status # "none" /\ agent'[v].cursor = checkpoint[d].cursor
              /\ \/ AgentOK(v)'
                 \/ agent'[v] = agent[v] /\ (agent[v].step # "idle" /\ StillHeld(v)' => StillHeld(v))
    PROVE  IntegrityInv'
<1>0. /\ IntegrityTypes /\ \A d \in Days : CycleOK(d)
      /\ \A v \in Replicas : AgentOK(v) /\ agent[v].cycle \in Days
 BY DEF IntegrityInv, IntegrityTypes, Agents
<1>1. IntegrityTypes' BY <1>0 DEF IntegrityTypes
<1>k. Kept
 BY DEF Kept
<1>2. \A d \in Days : CycleOK(d)'
 <2> SUFFICES ASSUME NEW d \in Days PROVE CycleOK(d)'
  OBVIOUS
 <2>1. Behind(d)' = Behind(d) BY DEF Behind, Before
 <2>2. Through(d)' = Through(d) BY <2>1 DEF Through
 <2>3. d \in Int /\ d + 1 \in Int /\ day \in Int /\ day' \in Int BY <1>0 DEF IntegrityTypes, Days
 <2>4. checkpoint[d].status # "none" => Passed(checkpoint[d].seed, d)' /\ Passed(checkpoint[d].cursor, d + 1)'
  <3> SUFFICES ASSUME checkpoint[d].status # "none" PROVE Passed(checkpoint[d].seed, d)' /\ Passed(checkpoint[d].cursor, d + 1)'
   OBVIOUS
  <3>1. PICK x \in Cursors : x = checkpoint[d].seed BY <1>0 DEF IntegrityTypes, CheckpointRows
  <3>2. PICK y \in Cursors : y = checkpoint[d].cursor BY <1>0 DEF IntegrityTypes, CheckpointRows
  <3>3. Passed(x, d) /\ Passed(y, d + 1) BY <1>0, <3>1, <3>2 DEF CycleOK
  <3>4. Passed(x, d)' /\ Passed(y, d + 1)' BY <1>k, <2>3, <3>3, PassedStays
  <3> QED BY <3>1, <3>2, <3>4 DEF Passed, Before
 <2>5. CycleOK(d) BY <1>0
 <2> QED BY <2>1, <2>2, <2>3, <2>4, <2>5 DEF CycleOK, NotBefore
<1>3. \A v \in Replicas : AgentOK(v)'
 <2> SUFFICES ASSUME NEW v \in Replicas, agent'[v] = agent[v],
                     agent[v].step # "idle" /\ StillHeld(v)' => StillHeld(v)
              PROVE  AgentOK(v)'
  OBVIOUS
 <2>1. PICK d \in Days : d = agent[v].cycle BY <1>0
 <2> QED BY <1>0, <2>1 DEF AgentOK, BatchOK
<1>4. \A v \in Replicas : CursorOK(v)' BY <1>k, CursorKeeps
<1> QED BY <1>1, <1>2, <1>3, <1>4 DEF IntegrityInv

\* Nothing about the checkpoints changes.
LEMMA QuietStep ==
    ASSUME IntegrityInv,
           NextDay \/ \E r \in IntegrityRows : RowAdded(r) \/ RowGoesWrong(r) \/ ResolveException(r)
    PROVE  IntegrityInv'
<1>0. /\ IntegrityTypes /\ \A d \in Days : throughout[d] \subseteq wrong
 BY DEF IntegrityInv, CycleOK
<1>1. UNCHANGED <<checkpoint, agent, present, checkedIn, reported>>
 BY DEF NextDay, RowAdded, RowGoesWrong, ResolveException
<1>2. day' \in Days /\ day <= day'
 BY <1>0, IntegrityAssumption DEF NextDay, RowAdded, RowGoesWrong, ResolveException, IntegrityTypes, Days
<1>3. there \subseteq there' /\ there' \subseteq IntegrityRows
 BY <1>0 DEF IntegrityTypes, NextDay, RowAdded, RowGoesWrong, ResolveException
<1>4. /\ wrong' \subseteq there' /\ throughout' \in [Days -> SUBSET IntegrityRows]
      /\ \A d \in Days : throughout'[d] \subseteq throughout[d] /\ throughout'[d] \subseteq wrong'
 <2>1. CASE UNCHANGED <<wrong, throughout>>
  BY <1>0, <1>3, <2>1 DEF IntegrityTypes
 <2>2. CASE \E r \in IntegrityRows : RowGoesWrong(r)
  BY <1>0, <1>3, <2>2 DEF IntegrityTypes, RowGoesWrong
 <2>3. CASE \E r \in IntegrityRows : wrong' = wrong \ {r} /\ throughout' = [d \in Days |-> throughout[d] \ {r}]
  BY <1>0, <1>3, <2>3 DEF IntegrityTypes
 <2> QED BY <2>1, <2>2, <2>3 DEF NextDay, RowAdded, ResolveException
<1>5. \A v \in Replicas : agent'[v] = agent[v] /\ (StillHeld(v)' <=> StillHeld(v)) BY <1>1 DEF StillHeld
<1>6. checkpoint' \in [Days -> CheckpointRows] /\ agent' \in [Replicas -> Agents]
 BY <1>0, <1>1 DEF IntegrityTypes
<1> QED BY <1>1, <1>2, <1>3, <1>4, <1>5, <1>6, SameProgress

\* The names and the version on one checkpoint change, and the memory of one replica.
LEMMA OneHolder ==
    ASSUME IntegrityInv, NEW d \in Days, NEW w \in Replicas, NEW row \in CheckpointRows,
           NEW a \in Agents,
           checkpoint' = [checkpoint EXCEPT ![d] = row], agent' = [agent EXCEPT ![w] = a],
           row.status = checkpoint[d].status, row.cursor = checkpoint[d].cursor,
           row.seed = checkpoint[d].seed, row.high = checkpoint[d].high,
           \/ row.owner \notin Replicas \ {w}
           \/ row.owner = checkpoint[d].owner /\ row.version = checkpoint[d].version,
           AgentOK(w)', a.cursor = agent[w].cursor \/ (a.cursor = checkpoint[d].cursor /\ row.status # "none"),
           UNCHANGED <<day, there, wrong, present, throughout, checkedIn, reported>>
    PROVE  IntegrityInv'
<1>0. IntegrityTypes /\ \A e \in Days : throughout[e] \subseteq wrong BY DEF IntegrityInv, CycleOK
<1>1. /\ checkpoint' \in [Days -> CheckpointRows] /\ agent' \in [Replicas -> Agents]
      /\ checkpoint'[d] = row /\ \A e \in Days : e # d => checkpoint'[e] = checkpoint[e]
      /\ agent'[w] = a /\ \A v \in Replicas : v # w => agent'[v] = agent[v]
 BY <1>0 DEF IntegrityTypes
<1>2. \A e \in Days : /\ checkpoint'[e].status = checkpoint[e].status
                      /\ checkpoint'[e].cursor = checkpoint[e].cursor /\ checkpoint'[e].seed = checkpoint[e].seed
                      /\ checkpoint'[e].high = checkpoint[e].high
 BY <1>1
<1>3. \A v \in Replicas : \/ AgentOK(v)'
                          \/ agent'[v] = agent[v] /\ (agent[v].step # "idle" /\ StillHeld(v)' => StillHeld(v))
 <2> SUFFICES ASSUME NEW v \in Replicas, v # w PROVE agent'[v] = agent[v] /\ (StillHeld(v)' => StillHeld(v))
  OBVIOUS
 <2>1. agent'[v] = agent[v] /\ agent[v].cycle \in Days BY <1>0, <1>1 DEF IntegrityTypes, Agents
 <2> QED BY <1>1, <2>1 DEF StillHeld
<1>4. /\ day' \in Days /\ day <= day' /\ there \subseteq there' /\ there' \subseteq IntegrityRows
      /\ wrong' \subseteq there' /\ throughout' \in [Days -> SUBSET IntegrityRows]
      /\ \A e \in Days : throughout'[e] \subseteq throughout[e] /\ throughout'[e] \subseteq wrong'
 BY <1>0 DEF IntegrityTypes, Days
<1>5. \A v \in Replicas : \/ agent'[v].cursor \in {agent[v].cursor, Beginning}
                          \/ \E e \in Days : checkpoint[e].status # "none" /\ agent'[v].cursor = checkpoint[e].cursor
 BY <1>1
<1> QED BY <1>1, <1>2, <1>3, <1>4, <1>5, SameProgress

LEMMA ClaimCheckpointStep == ASSUME IntegrityInv, NEW w \in Replicas, ClaimCheckpoint(w) PROVE IntegrityInv'
<1>0. /\ day \in Days /\ checkpoint[day] \in CheckpointRows /\ agent[w] \in Agents
      /\ checkpoint \in [Days -> CheckpointRows] /\ agent \in [Replicas -> Agents]
      /\ checkpoint[day].cursor \in Cursors /\ checkpoint[day].version \in Nat
 BY DEF IntegrityInv, IntegrityTypes, CheckpointRows
<1>1. UNCHANGED <<day, there, wrong, present, throughout, checkedIn, reported>> /\ checkpoint[day].status # "none"
 BY DEF ClaimCheckpoint
<1>2. CASE MayClaim(w, checkpoint[day])
 <2>1. PICK n \in Nat : n = checkpoint[day].version + 1 BY <1>0
 <2>2. PICK row \in CheckpointRows : row = [checkpoint[day] EXCEPT !.owner = w, !.live = TRUE, !.version = n]
  BY <1>0 DEF CheckpointRows
 <2>3. /\ row.status = checkpoint[day].status /\ row.cursor = checkpoint[day].cursor
       /\ row.seed = checkpoint[day].seed /\ row.high = checkpoint[day].high /\ row.owner = w /\ row.version = n
  BY <1>0, <2>2 DEF CheckpointRows
 <2>4. PICK a \in Agents : a = [AgentIdle(checkpoint[day].cursor) EXCEPT !.step = "claimed", !.cycle = day, !.version = n]
  <3>1. PICK b \in Agents : b = AgentIdle(checkpoint[day].cursor) BY <1>0, IdleAgent
  <3>2. [b EXCEPT !.step = "claimed", !.cycle = day, !.version = n] \in Agents BY <1>0, <2>1 DEF Agents
  <3> QED BY <3>1, <3>2
 <2>5. a.step = "claimed" /\ a.cycle = day /\ a.version = n /\ a.cursor = checkpoint[day].cursor
  BY <2>4 DEF AgentIdle
 <2>6. checkpoint' = [checkpoint EXCEPT ![day] = row] /\ agent' = [agent EXCEPT ![w] = a]
  BY <1>2, <2>1, <2>2, <2>4 DEF ClaimCheckpoint
 <2>7. PICK d \in Days : d = day BY <1>0
 <2>8. checkpoint'[d] = row /\ agent'[w] = a BY <1>0, <2>6, <2>7
 <2>9. AgentOK(w)' BY <1>1, <2>3, <2>5, <2>7, <2>8 DEF AgentOK
 <2> QED BY <1>0, <1>1, <2>3, <2>5, <2>6, <2>9, OneHolder
<1>3. CASE ~MayClaim(w, checkpoint[day])
 <2>1. PICK a \in Agents : a = AgentIdle(checkpoint[day].cursor) /\ a.step = "idle" /\ a.cursor = checkpoint[day].cursor
  BY <1>0, IdleAgent
 <2>2. checkpoint' = checkpoint /\ agent' = [agent EXCEPT ![w] = a] BY <1>3, <2>1 DEF ClaimCheckpoint
 <2>3. PICK row \in CheckpointRows : row = checkpoint[day] BY <1>0
 <2>4. checkpoint' = [checkpoint EXCEPT ![day] = row] BY <1>0, <2>2, <2>3
 <2>5. AgentOK(w)' BY <1>0, <2>1, <2>2 DEF AgentOK
 <2> QED BY <1>0, <1>1, <2>1, <2>2, <2>3, <2>4, <2>5, OneHolder
<1> QED BY <1>2, <1>3

LEMMA ScanBatchStep == ASSUME IntegrityInv, NEW w \in Replicas, ScanBatch(w) PROVE IntegrityInv'
<1>0. /\ agent[w] \in Agents /\ agent[w].step = "claimed" /\ there \subseteq IntegrityRows
      /\ checkpoint \in [Days -> CheckpointRows] /\ agent \in [Replicas -> Agents] /\ agent[w].cursor \in Cursors
 BY DEF IntegrityInv, IntegrityTypes, Agents, ScanBatch
<1>1. PICK d \in Days : d = agent[w].cycle BY <1>0 DEF Agents
<1>2. /\ checkpoint[d] \in CheckpointRows /\ checkpoint[d].status # "none" /\ checkpoint[d].high \in Marks
      /\ throughout[d] \subseteq wrong /\ present[d] \subseteq there
      /\ StillHeld(w) => agent[w].cursor = checkpoint[d].cursor
 BY <1>0, <1>1 DEF IntegrityInv, CycleOK, AgentOK
<1>3. PICK cursor \in Cursors : cursor = agent[w].cursor BY <1>0
<1>4. PICK high \in Marks : high = checkpoint[d].high BY <1>2
<1>5. PICK b \in Batches : /\ b = Batch(cursor, high) /\ b.found = b.rows \cap wrong
                           /\ \E m \in Nat, fin \in BOOLEAN : BatchUpTo(b, cursor, high, m, fin, there)
 BY <1>0, BatchFacts
<1>6. PICK a \in Agents : a = [agent[w] EXCEPT !.step = "scanned", !.batch = b] BY <1>0 DEF Agents
<1>7. /\ a.step = "scanned" /\ a.batch = b /\ a.cursor = cursor /\ a.cycle = d /\ a.version = agent[w].version
 BY <1>0, <1>1, <1>3, <1>6 DEF Agents
<1>8. agent' = [agent EXCEPT ![w] = a] /\ checkpoint' = checkpoint
 BY <1>0, <1>1, <1>3, <1>4, <1>5, <1>6 DEF ScanBatch
<1>9. agent'[w] = a /\ checkpoint'[d] = checkpoint[d] BY <1>0, <1>8
<1>10. AgentOK(w)'
 <2>1. StillHeld(w)' => StillHeld(w) BY <1>1, <1>7, <1>9 DEF StillHeld
 <2>2. throughout' = throughout BY DEF ScanBatch
 <2>3. b.rows \cap throughout[d] \subseteq b.found BY <1>2, <1>5
 <2>4. PICK m \in Nat, fin \in BOOLEAN : BatchUpTo(b, cursor, high, m, fin, there) BY <1>5
 <2>5. BatchUpTo(b, cursor, high, m, fin, present[d]) BY <1>2, <2>4 DEF BatchUpTo
 <2>6. present' = present /\ checkpoint'[d].high = high BY <1>4, <1>9 DEF ScanBatch
 <2>7. BatchOK(agent[w])' BY <1>7, <1>9, <2>5, <2>6 DEF BatchOK
 <2> QED BY <1>2, <1>3, <1>4, <1>7, <1>9, <2>1, <2>2, <2>3, <2>7 DEF AgentOK
<1>11. PICK row \in CheckpointRows : row = checkpoint[d] BY <1>2
<1>12. checkpoint' = [checkpoint EXCEPT ![d] = row] BY <1>0, <1>8, <1>11
<1>13. UNCHANGED <<day, there, wrong, present, throughout, checkedIn, reported>> BY DEF ScanBatch
<1> QED BY <1>3, <1>7, <1>8, <1>10, <1>11, <1>12, <1>13, OneHolder

LEMMA ReleaseCheckpointStep == ASSUME IntegrityInv, NEW w \in Replicas, ReleaseCheckpoint(w) PROVE IntegrityInv'
<1>0. /\ agent[w] \in Agents /\ checkpoint \in [Days -> CheckpointRows] /\ agent \in [Replicas -> Agents]
      /\ agent[w].cursor \in Cursors
 BY DEF IntegrityInv, IntegrityTypes, Agents
<1>1. PICK d \in Days : d = agent[w].cycle BY <1>0 DEF Agents
<1>2. PICK n \in Nat : n = checkpoint[d].version + 1 BY <1>0 DEF CheckpointRows
<1>3. checkpoint[d] \in CheckpointRows BY <1>0
<1>4. PICK free \in CheckpointRows : free = [checkpoint[d] EXCEPT !.owner = "none", !.live = FALSE, !.version = n]
 BY <1>3 DEF CheckpointRows
<1>5. /\ free.status = checkpoint[d].status /\ free.cursor = checkpoint[d].cursor
      /\ free.seed = checkpoint[d].seed /\ free.high = checkpoint[d].high /\ free.owner = "none"
 BY <1>3, <1>4 DEF CheckpointRows
<1>6. PICK a \in Agents : a = AgentIdle(agent[w].cursor) /\ a.step = "idle" /\ a.cursor = agent[w].cursor
 BY <1>0, IdleAgent
<1>7. agent' = [agent EXCEPT ![w] = a] /\ UNCHANGED <<day, there, wrong, present, throughout, checkedIn, reported>>
 BY <1>0, <1>6 DEF ReleaseCheckpoint
<1>8. agent'[w] = a BY <1>0, <1>7
<1>9. AgentOK(w)' BY <1>6, <1>8 DEF AgentOK
<1>10. \/ checkpoint' = [checkpoint EXCEPT ![d] = free]
       \/ checkpoint' = [checkpoint EXCEPT ![d] = checkpoint[d]]
 BY <1>0, <1>1, <1>2, <1>4 DEF ReleaseCheckpoint
<1>11. free.owner \notin Replicas \ {w} BY <1>5, IntegrityAssumption
<1>12. CASE checkpoint' = [checkpoint EXCEPT ![d] = free]
 BY <1>5, <1>6, <1>7, <1>9, <1>11, <1>12, OneHolder
<1>13. CASE checkpoint' = [checkpoint EXCEPT ![d] = checkpoint[d]]
 BY <1>3, <1>6, <1>7, <1>9, <1>13, OneHolder
<1> QED BY <1>10, <1>12, <1>13

LEMMA LeaseEndsStep == ASSUME IntegrityInv, LeaseEnds PROVE IntegrityInv'
<1>0. /\ IntegrityTypes /\ day \in Days /\ checkpoint \in [Days -> CheckpointRows]
      /\ \A e \in Days : throughout[e] \subseteq wrong
 BY DEF IntegrityInv, IntegrityTypes, CycleOK
<1>1. PICK row \in CheckpointRows : row = [checkpoint[day] EXCEPT !.live = FALSE] BY <1>0 DEF CheckpointRows
<1>2. /\ row.status = checkpoint[day].status /\ row.cursor = checkpoint[day].cursor
      /\ row.seed = checkpoint[day].seed /\ row.high = checkpoint[day].high
      /\ row.owner = checkpoint[day].owner /\ row.version = checkpoint[day].version
 BY <1>0, <1>1 DEF CheckpointRows
<1>3. checkpoint' = [checkpoint EXCEPT ![day] = row] BY <1>0, <1>1 DEF LeaseEnds
<1>4. UNCHANGED <<day, agent, there, wrong, present, throughout, checkedIn, reported>> BY DEF LeaseEnds
<1>5. checkpoint' \in [Days -> CheckpointRows] BY <1>0, <1>3
<1>6. \A e \in Days : /\ checkpoint'[e].status = checkpoint[e].status
                      /\ checkpoint'[e].cursor = checkpoint[e].cursor /\ checkpoint'[e].seed = checkpoint[e].seed
                      /\ checkpoint'[e].high = checkpoint[e].high /\ checkpoint'[e].owner = checkpoint[e].owner
                      /\ checkpoint'[e].version = checkpoint[e].version
 BY <1>0, <1>2, <1>3
<1>7. \A v \in Replicas : agent'[v] = agent[v] /\ (StillHeld(v)' => StillHeld(v))
 <2> SUFFICES ASSUME NEW v \in Replicas PROVE StillHeld(v)' => StillHeld(v)
  BY <1>4
 <2>1. PICK d \in Days : d = agent[v].cycle BY <1>0 DEF IntegrityTypes, Agents
 <2> QED BY <1>4, <1>6, <2>1 DEF StillHeld
<1>8. /\ day' \in Days /\ day <= day' /\ there \subseteq there' /\ there' \subseteq IntegrityRows
      /\ wrong' \subseteq there' /\ agent' \in [Replicas -> Agents]
      /\ throughout' \in [Days -> SUBSET IntegrityRows]
      /\ \A e \in Days : throughout'[e] \subseteq throughout[e] /\ throughout'[e] \subseteq wrong'
 BY <1>0, <1>4 DEF IntegrityTypes, Days
<1> QED BY <1>4, <1>5, <1>6, <1>7, <1>8, SameProgress

LEMMA ReplicaRestartsStep == ASSUME IntegrityInv, NEW w \in Replicas, ReplicaRestarts(w) PROVE IntegrityInv'
<1>0. /\ IntegrityTypes /\ checkpoint \in [Days -> CheckpointRows] /\ agent \in [Replicas -> Agents]
      /\ \A e \in Days : throughout[e] \subseteq wrong
 BY DEF IntegrityInv, IntegrityTypes, CycleOK
<1>1. PICK a \in Agents : a = AgentIdle(Beginning) /\ a.step = "idle" /\ a.cursor = Beginning
 BY IdleAgent, CursorFacts
<1>2. /\ agent' = [agent EXCEPT ![w] = a] /\ UNCHANGED <<day, there, wrong, present, throughout, checkedIn, reported>>
      /\ checkpoint' = [d \in Days |-> IF checkpoint[d].owner = w THEN [checkpoint[d] EXCEPT !.owner = "gone"]
                                       ELSE checkpoint[d]]
 BY <1>1 DEF ReplicaRestarts
<1>3. \A e \in Days : /\ checkpoint'[e] \in CheckpointRows /\ checkpoint'[e].status = checkpoint[e].status
                      /\ checkpoint'[e].cursor = checkpoint[e].cursor /\ checkpoint'[e].seed = checkpoint[e].seed
                      /\ checkpoint'[e].high = checkpoint[e].high /\ checkpoint'[e].version = checkpoint[e].version
                      /\ checkpoint'[e].owner \in {checkpoint[e].owner, "gone"}
 <2> SUFFICES ASSUME NEW e \in Days
              PROVE  /\ checkpoint'[e] \in CheckpointRows /\ checkpoint'[e].status = checkpoint[e].status
                     /\ checkpoint'[e].cursor = checkpoint[e].cursor /\ checkpoint'[e].seed = checkpoint[e].seed
                     /\ checkpoint'[e].high = checkpoint[e].high /\ checkpoint'[e].version = checkpoint[e].version
                     /\ checkpoint'[e].owner \in {checkpoint[e].owner, "gone"}
  OBVIOUS
 <2>1. checkpoint'[e] = [checkpoint[e] EXCEPT !.owner = "gone"] \/ checkpoint'[e] = checkpoint[e] BY <1>2
 <2>2. checkpoint[e] \in CheckpointRows BY <1>0
 <2> QED BY <2>1, <2>2 DEF CheckpointRows
<1>4. checkpoint' \in [Days -> CheckpointRows] BY <1>2, <1>3
<1>5. agent' \in [Replicas -> Agents] /\ agent'[w] = a /\ \A v \in Replicas : v # w => agent'[v] = agent[v]
 BY <1>0, <1>2
<1>6. \A v \in Replicas : \/ AgentOK(v)'
                          \/ agent'[v] = agent[v] /\ (agent[v].step # "idle" /\ StillHeld(v)' => StillHeld(v))
 <2> SUFFICES ASSUME NEW v \in Replicas
              PROVE  \/ AgentOK(v)'
                     \/ agent'[v] = agent[v] /\ (StillHeld(v)' => StillHeld(v))
  OBVIOUS
 <2>1. CASE v = w
  BY <1>1, <1>5, <2>1 DEF AgentOK
 <2>2. CASE v # w
  <3>1. PICK d \in Days : d = agent[v].cycle /\ d = agent'[v].cycle
   BY <1>0, <1>5, <2>2 DEF IntegrityTypes, Agents
  <3>2. v # "gone" BY IntegrityAssumption
  <3> QED BY <1>3, <1>5, <2>2, <3>1, <3>2 DEF StillHeld
 <2> QED BY <2>1, <2>2
<1>7. /\ day' \in Days /\ day <= day' /\ there \subseteq there' /\ there' \subseteq IntegrityRows
      /\ wrong' \subseteq there' /\ throughout' \in [Days -> SUBSET IntegrityRows]
      /\ \A e \in Days : throughout'[e] \subseteq throughout[e] /\ throughout'[e] \subseteq wrong'
 BY <1>0, <1>2 DEF IntegrityTypes, Days
<1>8. UNCHANGED <<present, checkedIn, reported>> BY <1>2
<1>9. \A v \in Replicas : agent'[v].cursor \in {agent[v].cursor, Beginning} BY <1>1, <1>5
<1> QED BY <1>3, <1>4, <1>5, <1>6, <1>7, <1>8, <1>9, SameProgress

\* One cycle is written, and nobody holds its checkpoint after that.
LEMMA OneCycle ==
    ASSUME IntegrityInv, IntegrityTypes', NEW d \in Days, NEW w \in Replicas, NEW row \in CheckpointRows,
           checkpoint' = [checkpoint EXCEPT ![d] = row], row.owner = "none", row.status # "none",
           checkpoint[d].status # "none" =>
              /\ row.high = checkpoint[d].high /\ throughout'[d] = throughout[d] /\ present'[d] = present[d]
              /\ \A r \in IntegrityRows : checkedIn[d][r] = 1 => checkedIn'[d][r] = 1,
           \A v \in Replicas : v # w => agent'[v] = agent[v],
           AgentOK(w)', CursorOK(w)', CycleOK(d)', UNCHANGED <<day, there, wrong>>,
           \A e \in Days : e # d => /\ throughout'[e] = throughout[e] /\ present'[e] = present[e]
                                    /\ checkedIn'[e] = checkedIn[e] /\ reported'[e] = reported[e]
    PROVE  IntegrityInv'
<1>0. /\ IntegrityTypes /\ \A e \in Days : CycleOK(e)
      /\ \A v \in Replicas : AgentOK(v) /\ agent[v].cycle \in Days
 BY DEF IntegrityInv, IntegrityTypes, Agents
<1>1. checkpoint'[d] = row /\ \A e \in Days : e # d => checkpoint'[e] = checkpoint[e]
 BY <1>0 DEF IntegrityTypes
<1>k. Kept
 BY <1>1 DEF Kept
<1>2. \A e \in Days : CycleOK(e)'
 <2> SUFFICES ASSUME NEW e \in Days, e # d PROVE CycleOK(e)'
  OBVIOUS
 <2>1. checkpoint'[e] = checkpoint[e] /\ present'[e] = present[e] /\ checkedIn'[e] = checkedIn[e] BY <1>1
 <2>2. Behind(e)' = Behind(e) BY <2>1 DEF Behind, Before
 <2>3. Through(e)' = Through(e) BY <2>1, <2>2 DEF Through
 <2>4. e \in Int /\ e + 1 \in Int BY DEF Days
 <2>5. checkpoint[e].status # "none" => Passed(checkpoint[e].seed, e)' /\ Passed(checkpoint[e].cursor, e + 1)'
  <3> SUFFICES ASSUME checkpoint[e].status # "none"
               PROVE  Passed(checkpoint[e].seed, e)' /\ Passed(checkpoint[e].cursor, e + 1)'
   OBVIOUS
  <3>1. PICK x \in Cursors : x = checkpoint[e].seed BY <1>0 DEF IntegrityTypes, CheckpointRows
  <3>2. PICK y \in Cursors : y = checkpoint[e].cursor BY <1>0 DEF IntegrityTypes, CheckpointRows
  <3>3. Passed(x, e) /\ Passed(y, e + 1) BY <1>0, <3>1, <3>2 DEF CycleOK
  <3>4. Passed(x, e)' /\ Passed(y, e + 1)' BY <1>k, <2>4, <3>3, PassedStays
  <3> QED BY <2>1, <3>1, <3>2, <3>4 DEF Passed, Before
 <2>6. CycleOK(e) BY <1>0
 <2> QED BY <2>1, <2>2, <2>3, <2>5, <2>6 DEF CycleOK, NotBefore
<1>3. \A v \in Replicas : AgentOK(v)'
 <2> SUFFICES ASSUME NEW v \in Replicas, v # w, agent'[v].step # "idle" PROVE AgentOK(v)'
  BY DEF AgentOK
 <2>1. agent'[v] = agent[v] /\ AgentOK(v) BY <1>0
 <2>2. PICK e \in Days : e = agent[v].cycle BY <1>0
 <2>3. checkpoint[e].status # "none" BY <2>1, <2>2 DEF AgentOK
 <2>4. /\ checkpoint'[e].status # "none" /\ checkpoint'[e].high = checkpoint[e].high
       /\ throughout'[e] = throughout[e] /\ present'[e] = present[e]
  BY <1>1, <2>3
 <2>5. StillHeld(v)' => StillHeld(v) /\ checkpoint'[e] = checkpoint[e]
  BY <1>1, <2>1, <2>2, IntegrityAssumption DEF StillHeld
 <2> QED BY <2>1, <2>2, <2>4, <2>5 DEF AgentOK, BatchOK
<1>4. \A v \in Replicas : CursorOK(v)'
 <2>1. day' \in Days /\ day <= day' BY <1>0 DEF IntegrityTypes, Days
 <2> QED BY <1>k, <2>1, CursorKeeps
<1> QED BY <1>2, <1>3, <1>4 DEF IntegrityInv

LEMMA Watermarks ==
    ASSUME there \subseteq IntegrityRows
    PROVE  /\ [p \in Phases |-> HighWatermark(p)] \in Marks /\ \A r \in there : r[2] <= HighWatermark(r[1])
<1>1. \A r \in IntegrityRows : r[1] \in Phases /\ r[2] \in 1..IdBound BY DEF IntegrityRows
<1>2. ASSUME NEW p \in Phases
      PROVE  /\ HighWatermark(p) \in 0..IdBound
             /\ \A r \in there : r[1] = p => r[2] <= HighWatermark(p)
 <2>1. PICK S : S = {r[2] : r \in {q \in there : q[1] = p}} \cup {0} OBVIOUS
 <2>2. S \in SUBSET (0..IdBound) /\ S # {} /\ \A r \in there : r[1] = p => r[2] \in S
  BY <1>1, <2>1, IntegrityAssumption
 <2>3. IdBound \in Nat BY IntegrityAssumption
 <2>4. Max(S) \in S /\ \A i \in S : i <= Max(S) BY <2>2, <2>3, GreatestIsIn
 <2>5. HighWatermark(p) = Max(S) BY <2>1 DEF HighWatermark
 <2> QED BY <2>2, <2>4, <2>5
<1> QED BY <1>1, <1>2 DEF Marks

LEMMA SeedCheckpointStep == ASSUME IntegrityInv, NEW w \in Replicas, SeedCheckpoint(w) PROVE IntegrityInv'
<1>0. /\ IntegrityTypes /\ agent[w] \in Agents /\ agent[w].cursor \in Cursors
      /\ checkpoint \in [Days -> CheckpointRows] /\ present \in [Days -> SUBSET IntegrityRows]
      /\ throughout \in [Days -> SUBSET IntegrityRows] /\ wrong \subseteq there /\ there \subseteq IntegrityRows
 BY DEF IntegrityInv, IntegrityTypes, Agents
<1>1. PICK d \in Days : d = day BY <1>0 DEF IntegrityTypes
<1>2. PICK cursor \in Cursors : cursor = agent[w].cursor BY <1>0
<1>3. NoCheckpoint \in CheckpointRows BY CursorFacts DEF NoCheckpoint, CheckpointRows
<1>m. PICK high \in Marks : /\ high = [p \in Phases |-> HighWatermark(p)] /\ \A r \in there : r[2] <= high[r[1]]
 <2>1. \A r \in there : r[1] \in Phases BY <1>0 DEF IntegrityRows
 <2> QED BY <1>0, <2>1, Watermarks
<1>4. PICK row \in CheckpointRows :
         row = [NoCheckpoint EXCEPT !.status = "running", !.cursor = cursor, !.seed = cursor,
                                    !.high = high, !.version = 1]
 BY <1>3 DEF CheckpointRows
<1>5. /\ row.status = "running" /\ row.cursor = cursor /\ row.seed = cursor /\ row.high = high /\ row.owner = "none"
 BY <1>4 DEF NoCheckpoint
<1>6. /\ checkpoint[d].status = "none" /\ agent[w].step = "idle"
      /\ checkpoint' = [checkpoint EXCEPT ![d] = row] /\ throughout' = [throughout EXCEPT ![d] = wrong]
      /\ present' = [present EXCEPT ![d] = there] /\ UNCHANGED <<day, agent, there, wrong, checkedIn, reported>>
 BY <1>1, <1>2, <1>m, <1>4 DEF SeedCheckpoint
<1>7. /\ checkpoint'[d] = row /\ throughout'[d] = wrong /\ present'[d] = there
      /\ \A e \in Days : e # d => /\ throughout'[e] = throughout[e] /\ present'[e] = present[e]
                                  /\ checkpoint'[e] = checkpoint[e]
 BY <1>0, <1>6
<1>8. IntegrityTypes'
 <2>1. wrong \subseteq IntegrityRows BY <1>0
 <2> QED BY <1>0, <1>6, <2>1 DEF IntegrityTypes
<1>9. Behind(d)' = {} /\ Through(d)' = {} BY <1>5, <1>7 DEF Through, Behind, Before
<1>k. Kept
 BY <1>6, <1>7 DEF Kept
<1>10. CycleOK(d)'
 <2>1. \A r \in IntegrityRows : checkedIn[d][r] = 0 BY <1>6 DEF IntegrityInv, CycleOK
 <2>2. NotBefore(cursor, cursor) BY DEF NotBefore, Cursors
 <2>3. d \in Int /\ d + 1 \in Int /\ d - 1 \in Int BY DEF Days
 <2>4. Passed(cursor, d + 1) BY <1>1, <1>2 DEF IntegrityInv, CursorOK
 <2>5. Passed(cursor, d) BY <1>6, <2>3, <2>4 DEF Passed, SeenBefore, Days
 <2>6. Passed(cursor, d)' /\ Passed(cursor, d + 1)' BY <1>k, <2>3, <2>4, <2>5, PassedStays
 <2>7. Passed(checkpoint[d].seed, d)' /\ Passed(checkpoint[d].cursor, d + 1)'
  BY <1>5, <1>7, <2>6 DEF Passed, Before
 <2>8. \A r \in present'[d] : r[2] <= checkpoint'[d].high[r[1]] BY <1>m, <1>5, <1>7
 <2>9. NotBefore(checkpoint'[d].cursor, checkpoint'[d].seed) BY <1>5, <1>7, <2>2
 <2> QED BY <1>0, <1>1, <1>5, <1>6, <1>7, <1>9, <2>1, <2>3, <2>7, <2>8, <2>9 DEF CycleOK, NotBefore
<1>11. AgentOK(w)' BY <1>6 DEF AgentOK
<1>12. CursorOK(w)'
 <2>1. day' \in Days /\ day <= day' /\ agent'[w].cursor = agent[w].cursor
  BY <1>0, <1>6 DEF IntegrityTypes, Days
 <2> QED BY <1>k, <2>1, CursorKeeps
<1>13. \A v \in Replicas : agent'[v] = agent[v] BY <1>6
<1>14. \A e \in Days : e # d => /\ throughout'[e] = throughout[e] /\ present'[e] = present[e]
                                /\ checkedIn'[e] = checkedIn[e] /\ reported'[e] = reported[e]
 BY <1>6, <1>7
<1> QED BY <1>5, <1>6, <1>8, <1>10, <1>11, <1>12, <1>13, <1>14, OneCycle

\* What a batch adds to the rows a cycle is through with, row by row.
LEMMA BatchAdds ==
    ASSUME NEW b \in Batches, NEW cursor \in Cursors, NEW seed \in Cursors, NEW high \in Marks, NEW m \in Nat,
           NEW fin \in BOOLEAN, NEW rows, BatchUpTo(b, cursor, high, m, fin, rows), NotBefore(cursor, seed),
           NEW r \in IntegrityRows
    PROVE  LET reached == b.done \/ Before(r, b.next)
           IN  /\ r \in b.rows => r[2] <= high[r[1]] /\ ~Before(r, seed) /\ ~Before(r, cursor) /\ reached
               /\ Before(r, cursor) => reached
               /\ r \in rows /\ r[2] <= high[r[1]] /\ reached => Before(r, cursor) \/ r \in b.rows
<1>1. PICK p \in Phases : p = cursor.phase BY DEF Cursors
<1>2. PICK last \in Nat : last = cursor.last BY DEF Cursors
<1>3. PICK h \in 0..IdBound : h = high[p] BY DEF Marks
<1>4. PICK i \in Phases : i = r[1] BY DEF IntegrityRows
<1>5. PICK j \in 1..IdBound : j = r[2] BY DEF IntegrityRows
<1>6. p \in Nat /\ i \in Nat /\ p <= PhaseCount /\ i <= PhaseCount /\ j \in Nat /\ j > 0 /\ h \in Nat
 BY IntegrityAssumption DEF Phases
<1>7. PICK sp \in Nat : sp = seed.phase BY DEF Cursors, Phases
<1>8. PICK sl \in Nat : sl = seed.last BY DEF Cursors
<1>9. p > sp \/ (p = sp /\ last >= sl) BY <1>1, <1>2, <1>7, <1>8 DEF NotBefore
<1>10. /\ m >= last /\ (m <= h \/ m = last)
       /\ b.next = NextCursor(p, m, fin)
       /\ b.done <=> fin /\ p = PhaseCount
       /\ r \in b.rows => i = p /\ last < j /\ j <= m
       /\ r \in rows /\ i = p /\ last < j /\ (j <= m \/ (fin /\ j <= h)) => r \in b.rows
 BY <1>1, <1>2, <1>3, <1>4, <1>5 DEF BatchUpTo, RowsUpTo
<1>11. /\ Before(r, cursor) <=> i < p \/ (i = p /\ j <= last)
       /\ Before(r, seed) <=> i < sp \/ (i = sp /\ j <= sl)
 BY <1>1, <1>2, <1>4, <1>5, <1>7, <1>8 DEF Before
<1>12. ~b.done => (Before(r, b.next) <=> IF fin THEN i < p + 1 \/ (i = p + 1 /\ j <= 0)
                                         ELSE i < p \/ (i = p /\ j <= m))
 BY <1>4, <1>5, <1>10 DEF Before, NextCursor
<1>13. i = p => high[r[1]] = h BY <1>3, <1>4
<1>14. r \in b.rows => /\ i = p /\ j <= h /\ ~Before(r, seed) /\ ~Before(r, cursor)
                       /\ b.done \/ Before(r, b.next)
 BY <1>2, <1>6, <1>7, <1>8, <1>9, <1>10, <1>11, <1>12
<1>15. Before(r, cursor) => b.done \/ Before(r, b.next) BY <1>2, <1>6, <1>10, <1>11, <1>12
<1>16. ASSUME r \in rows, r[2] <= high[r[1]], b.done \/ Before(r, b.next) PROVE Before(r, cursor) \/ r \in b.rows
 <2>1. i = p => j <= h BY <1>5, <1>13, <1>16
 <2> QED BY <1>2, <1>6, <1>10, <1>11, <1>12, <1>16, <2>1
<1> QED BY <1>5, <1>13, <1>14, <1>15, <1>16

\* The cursor a batch leaves is not before the seed, unless the cycle has ended.
LEMMA NextIsLater ==
    ASSUME NEW b \in Batches, NEW cursor \in Cursors, NEW seed \in Cursors, NEW high \in Marks, NEW m \in Nat,
           NEW fin \in BOOLEAN, NEW rows, BatchUpTo(b, cursor, high, m, fin, rows), NotBefore(cursor, seed), ~b.done
    PROVE  NotBefore(b.next, seed)
<1>1. PICK p \in Phases : p = cursor.phase BY DEF Cursors
<1>2. PICK last \in Nat : last = cursor.last BY DEF Cursors
<1>3. PICK sp \in Nat : sp = seed.phase BY DEF Cursors, Phases
<1>4. PICK sl \in Nat : sl = seed.last BY DEF Cursors
<1>5. /\ m >= last /\ b.next = NextCursor(p, m, fin) /\ (b.done <=> fin /\ p = PhaseCount)
      /\ p > sp \/ (p = sp /\ last >= sl)
 BY <1>1, <1>2, <1>3, <1>4 DEF BatchUpTo, NotBefore
<1>6. p \in Nat BY DEF Phases
<1>7. \/ b.next.phase = p /\ b.next.last = m
      \/ b.next.phase = p + 1
 BY <1>5 DEF NextCursor
<1> QED BY <1>2, <1>3, <1>4, <1>5, <1>6, <1>7 DEF NotBefore

LEMMA PersistHeldStep ==
    ASSUME IntegrityInv, NEW w \in Replicas, PersistBatch(w), StillHeld(w) PROVE IntegrityInv'
<1>0. /\ IntegrityTypes /\ agent[w] \in Agents /\ agent[w].step = "scanned"
      /\ checkpoint \in [Days -> CheckpointRows] /\ agent \in [Replicas -> Agents]
      /\ checkedIn \in [Days -> [IntegrityRows -> Nat]] /\ reported \in [Days -> SUBSET IntegrityRows]
 BY DEF IntegrityInv, IntegrityTypes, PersistBatch
<1>1. PICK d \in Days : d = agent[w].cycle BY <1>0 DEF Agents
<1>2. PICK b \in Batches : b = agent[w].batch BY <1>0 DEF Agents
<1>3. CycleOK(d) /\ AgentOK(w) /\ present[d] \subseteq IntegrityRows BY DEF IntegrityInv, IntegrityTypes
<1>4. /\ checkpoint[d] \in CheckpointRows /\ checkpoint[d].status = "running"
      /\ checkpoint[d].version \in Nat /\ b.next \in Cursors /\ b.done \in BOOLEAN
      /\ b.rows \subseteq IntegrityRows /\ b.found \subseteq IntegrityRows
 BY <1>0, <1>1 DEF StillHeld, CheckpointRows, Batches
<1>5. PICK cursor \in Cursors : cursor = checkpoint[d].cursor BY <1>4 DEF CheckpointRows
<1>6. PICK seed \in Cursors : seed = checkpoint[d].seed BY <1>4 DEF CheckpointRows
<1>7. PICK high \in Marks : high = checkpoint[d].high BY <1>3, <1>4 DEF CycleOK
<1>8. agent[w].cursor = cursor BY <1>0, <1>1, <1>3, <1>5 DEF AgentOK
<1>9. PICK m \in Nat, fin \in BOOLEAN : BatchUpTo(b, cursor, high, m, fin, present[d])
 BY <1>0, <1>1, <1>2, <1>3, <1>7, <1>8 DEF AgentOK, BatchOK
<1>10. b.rows \cap throughout[d] \subseteq b.found BY <1>0, <1>1, <1>2, <1>3 DEF AgentOK
<1>11. /\ NotBefore(cursor, seed) /\ throughout[d] \subseteq wrong /\ ~(d > day)
       /\ present[d] \subseteq there /\ \A r \in present[d] : r[2] <= high[r[1]]
       /\ Passed(seed, d) /\ Passed(cursor, d + 1)
 BY <1>3, <1>4, <1>5, <1>6, <1>7 DEF CycleOK
<1>12. PICK n \in Nat : n = checkpoint[d].version + 1 BY <1>4
<1>13. PICK st \in {"running", "completed"} : st = IF b.done THEN "completed" ELSE "running" OBVIOUS
<1>14. PICK row \in CheckpointRows :
          row = [checkpoint[d] EXCEPT !.status = st, !.cursor = b.next, !.owner = "none",
                                      !.live = FALSE, !.version = n]
 BY <1>4 DEF CheckpointRows
<1>15. /\ row.status = st /\ row.cursor = b.next /\ row.owner = "none" /\ row.seed = seed /\ row.high = high
 BY <1>4, <1>6, <1>7, <1>14 DEF CheckpointRows
<1>16. checkpoint' = [checkpoint EXCEPT ![d] = row]
 BY ZenonT(30), <1>0, <1>1, <1>2, <1>12, <1>13, <1>14 DEF PersistBatch
<1>17. PICK a \in Agents : a = AgentIdle(b.next) /\ a.step = "idle" /\ a.cursor = b.next BY <1>4, IdleAgent
<1>18. agent' = [agent EXCEPT ![w] = a] /\ UNCHANGED <<day, there, wrong, present, throughout>>
 BY <1>2, <1>17 DEF PersistBatch
<1>19. /\ checkedIn' = [checkedIn EXCEPT ![d] = [r \in IntegrityRows |->
                          checkedIn[d][r] + (IF r \in b.rows THEN 1 ELSE 0)]]
       /\ reported' = [reported EXCEPT ![d] = reported[d] \cup b.found]
 BY <1>1, <1>2 DEF PersistBatch
<1>20. /\ checkpoint'[d] = row /\ agent'[w] = a /\ \A v \in Replicas : v # w => agent'[v] = agent[v]
 BY <1>0, <1>16, <1>18
<1>21. \A r \in IntegrityRows : checkedIn'[d][r] = checkedIn[d][r] + (IF r \in b.rows THEN 1 ELSE 0)
 BY <1>0, <1>19
<1>22. reported'[d] = reported[d] \cup b.found BY <1>0, <1>19
<1>23. \A e \in Days : e # d => /\ throughout'[e] = throughout[e] /\ present'[e] = present[e]
                                /\ checkedIn'[e] = checkedIn[e] /\ reported'[e] = reported[e]
 BY <1>0, <1>18, <1>19
<1>24. IntegrityTypes'
 <2>1. [r \in IntegrityRows |-> checkedIn[d][r] + (IF r \in b.rows THEN 1 ELSE 0)] \in [IntegrityRows -> Nat]
  BY <1>0
 <2>2. checkedIn' \in [Days -> [IntegrityRows -> Nat]] BY <1>0, <1>19, <2>1
 <2>3. reported' \in [Days -> SUBSET IntegrityRows] BY <1>0, <1>4, <1>19
 <2>4. checkpoint' \in [Days -> CheckpointRows] /\ agent' \in [Replicas -> Agents] BY <1>0, <1>16, <1>18
 <2> QED BY <1>0, <1>18, <2>2, <2>3, <2>4 DEF IntegrityTypes
<1>25. \A r \in IntegrityRows :
          /\ r \in b.rows => r \in Behind(d)' /\ r \notin Behind(d)
          /\ r \in Behind(d) => r \in Behind(d)'
          /\ r \in Through(d)' => r \in Through(d) \/ r \in b.rows
          /\ ~b.done /\ Before(r, b.next) => Before(r, cursor) \/ r \in b.rows \/ r \notin present[d]
 <2> SUFFICES ASSUME NEW r \in IntegrityRows
              PROVE  /\ r \in b.rows => r \in Behind(d)' /\ r \notin Behind(d)
                     /\ r \in Behind(d) => r \in Behind(d)'
                     /\ r \in Through(d)' => r \in Through(d) \/ r \in b.rows
                     /\ ~b.done /\ Before(r, b.next) => Before(r, cursor) \/ r \in b.rows \/ r \notin present[d]
  OBVIOUS
 <2>1. r \in Behind(d) <=> r[2] <= high[r[1]] /\ ~Before(r, seed) /\ Before(r, cursor)
  BY <1>4, <1>5, <1>6, <1>7 DEF Behind
 <2>2. r \in Behind(d)' <=> r[2] <= high[r[1]] /\ ~Before(r, seed) /\ (b.done \/ Before(r, b.next))
  BY <1>13, <1>15, <1>20 DEF Behind, Before
 <2>3. /\ r \in b.rows => /\ r[2] <= high[r[1]] /\ ~Before(r, seed) /\ ~Before(r, cursor)
                          /\ b.done \/ Before(r, b.next)
       /\ Before(r, cursor) => b.done \/ Before(r, b.next)
       /\ r \in present[d] /\ r[2] <= high[r[1]] /\ (b.done \/ Before(r, b.next)) => Before(r, cursor) \/ r \in b.rows
  BY <1>9, <1>11, BatchAdds
 <2>4. /\ r \in Through(d) <=> r \in Behind(d) /\ r \in present[d]
       /\ r \in Through(d)' <=> r \in Behind(d)' /\ r \in present[d]
  BY <1>18 DEF Through
 <2> QED BY <1>11, <2>1, <2>2, <2>3, <2>4
<1>26. \A r \in IntegrityRows : /\ checkedIn[d][r] \in {0, 1}
                                /\ checkedIn[d][r] = 1 => r \in Behind(d)
                                /\ r \in Through(d) => checkedIn[d][r] = 1
 BY <1>3, <1>4 DEF CycleOK
<1>27. \A r \in IntegrityRows : /\ checkedIn'[d][r] \in {0, 1}
                                /\ checkedIn'[d][r] = 1 => r \in Behind(d)'
                                /\ r \in Through(d)' => checkedIn'[d][r] = 1
                                /\ checkedIn[d][r] = 1 => checkedIn'[d][r] = 1
                                /\ r \in b.rows => checkedIn'[d][r] = 1
 BY <1>21, <1>25, <1>26
<1>k. Kept
 <2>1. \A e \in Days : e # d => checkpoint'[e] = checkpoint[e] BY <1>0, <1>16
 <2> QED BY <1>13, <1>15, <1>18, <1>20, <1>23, <1>27, <2>1 DEF Kept
<1>28. d \in Int /\ d + 1 \in Int /\ day \in Int /\ day + 1 \in Int /\ d + 1 <= day + 1
 BY <1>0, <1>11 DEF IntegrityTypes, Days
<1>29. Passed(b.next, d + 1)'
 <2>1. CASE b.done
  <3>1. b.next = Beginning BY <1>9, <2>1 DEF BatchUpTo, NextCursor
  <3> QED BY <3>1, NoneBehind DEF Passed, Before, Beginning
 <2>2. CASE ~b.done
  <3>1. Passed(cursor, d + 1)' BY <1>k, <1>11, <1>28, PassedStays
  <3> SUFFICES ASSUME NEW r \in IntegrityRows, Before(r, b.next) PROVE SeenBefore(r, d + 1)'
   BY DEF Passed, Before
  <3>2. CASE Before(r, cursor)
   BY <3>1, <3>2 DEF Passed, Before
  <3>3. CASE r \in b.rows \/ r \notin present[d]
   <4>1. checkpoint'[d].status # "none" /\ (checkedIn'[d][r] = 1 \/ r \notin present'[d])
    BY <1>13, <1>15, <1>18, <1>20, <1>27, <3>3
   <4>2. d < d + 1 BY <1>28
   <4> QED BY <4>1, <4>2 DEF SeenBefore
  <3> QED BY <1>25, <2>2, <3>2, <3>3
 <2> QED BY <2>1, <2>2
<1>30. CycleOK(d)'
 <2>1. throughout[d] \cap Through(d) \subseteq reported[d] BY <1>3, <1>4 DEF CycleOK
 <2>2. Through(d)' \subseteq IntegrityRows BY DEF Through, Behind
 <2>3. throughout'[d] \cap Through(d)' \subseteq reported'[d] BY <1>10, <1>18, <1>22, <1>25, <2>1, <2>2
 <2>4. st = "running" => NotBefore(b.next, seed) BY <1>9, <1>11, <1>13, NextIsLater
 <2>5. checkpoint'[d].status = "running" => NotBefore(checkpoint'[d].cursor, checkpoint'[d].seed)
  BY <1>15, <1>20, <2>4
 <2>6. Passed(seed, d)' BY <1>k, <1>11, <1>28, PassedStays
 <2>7. Passed(checkpoint[d].seed, d)' /\ Passed(checkpoint[d].cursor, d + 1)'
  BY <1>15, <1>20, <1>29, <2>6 DEF Passed, Before
 <2>8. present'[d] \subseteq there' /\ \A r \in present'[d] : r[2] <= checkpoint'[d].high[r[1]]
  BY <1>11, <1>15, <1>18, <1>20
 <2> QED BY <1>11, <1>13, <1>15, <1>18, <1>20, <1>27, <2>3, <2>5, <2>7, <2>8 DEF CycleOK, NotBefore
<1>31. AgentOK(w)' BY <1>17, <1>20 DEF AgentOK
<1>32. CursorOK(w)'
 <2>1. Passed(b.next, day + 1)' BY <1>18, <1>28, <1>29 DEF Passed, SeenBefore, Days
 <2> QED BY <1>17, <1>20, <2>1 DEF CursorOK, Passed, Before
<1>33. /\ row.status # "none" /\ row.high = checkpoint[d].high /\ throughout'[d] = throughout[d]
       /\ present'[d] = present[d] /\ UNCHANGED <<day, there, wrong>>
       /\ \A r \in IntegrityRows : checkedIn[d][r] = 1 => checkedIn'[d][r] = 1
 BY <1>7, <1>13, <1>15, <1>18, <1>27
<1> QED BY <1>15, <1>16, <1>20, <1>23, <1>24, <1>30, <1>31, <1>32, <1>33, OneCycle

LEMMA PersistLostStep ==
    ASSUME IntegrityInv, NEW w \in Replicas, PersistBatch(w), ~StillHeld(w) PROVE IntegrityInv'
<1>0. /\ agent[w] \in Agents /\ checkpoint \in [Days -> CheckpointRows] /\ agent \in [Replicas -> Agents]
      /\ agent[w].cursor \in Cursors
 BY DEF IntegrityInv, IntegrityTypes, Agents
<1>1. PICK d \in Days : d = agent[w].cycle BY <1>0 DEF Agents
<1>2. PICK a \in Agents : a = AgentIdle(agent[w].cursor) /\ a.step = "idle" /\ a.cursor = agent[w].cursor
 BY <1>0, IdleAgent
<1>3. agent' = [agent EXCEPT ![w] = a] /\ UNCHANGED <<day, checkpoint, there, wrong, present, throughout, checkedIn, reported>>
 BY <1>0, <1>2 DEF PersistBatch
<1>4. agent'[w] = a BY <1>0, <1>3
<1>5. AgentOK(w)' BY <1>2, <1>4 DEF AgentOK
<1>6. PICK row \in CheckpointRows : row = checkpoint[d] BY <1>0
<1>7. checkpoint' = [checkpoint EXCEPT ![d] = row] BY <1>0, <1>3, <1>6
<1> QED BY <1>2, <1>3, <1>5, <1>6, <1>7, OneHolder

LEMMA IntegrityKeeps == IntegrityInv /\ IntegrityNext => IntegrityInv'
<1> SUFFICES ASSUME IntegrityInv, IntegrityNext PROVE IntegrityInv'
 OBVIOUS
<1>1. ASSUME NEW w \in Replicas, IntegrityAgent(w) PROVE IntegrityInv'
 BY <1>1, SeedCheckpointStep, ClaimCheckpointStep, ScanBatchStep, PersistHeldStep, PersistLostStep
    DEF IntegrityAgent
<1> QED BY <1>1, ReleaseCheckpointStep, ReplicaRestartsStep, LeaseEndsStep, QuietStep DEF IntegrityNext

LEMMA IntegrityRests == IntegrityInv /\ UNCHANGED integrityVars => IntegrityInv'
<1> SUFFICES ASSUME IntegrityInv, UNCHANGED integrityVars PROVE IntegrityInv'
 OBVIOUS
<1>1. UNCHANGED <<day, checkpoint, agent, there, wrong, present, throughout, checkedIn, reported>>
 BY DEF integrityVars
<1>2. IntegrityTypes' /\ \A d \in Days : throughout'[d] \subseteq wrong'
 BY <1>1 DEF IntegrityInv, IntegrityTypes, CycleOK
<1>3. \A w \in Replicas : StillHeld(w)' = StillHeld(w) BY <1>1 DEF StillHeld
<1>4. /\ day' \in Days /\ day <= day' /\ there \subseteq there' /\ there' \subseteq IntegrityRows
      /\ wrong' \subseteq there' /\ checkpoint' \in [Days -> CheckpointRows] /\ agent' \in [Replicas -> Agents]
      /\ throughout' \in [Days -> SUBSET IntegrityRows]
 BY <1>1, <1>2 DEF IntegrityTypes, Days
<1>5. \A d \in Days : throughout'[d] \subseteq throughout[d] BY <1>1
<1> QED BY <1>1, <1>2, <1>3, <1>4, <1>5, SameProgress

----------------------------------------
(* The provider's bills. *)

\* What the provider may have on record, and what the payment and its refund may be here.
BilledOK ==
    \/ \E e \in PaymentEntries : billed = {e, RefundEntry} \ {NotBilled}
    \/ \E e \in RefundEntries : billed = {PaymentEntry, e} \ {NotBilled}
    \/ billed = {UnknownEntry}

LocalOK ==
    /\ local \in [pay : {"paying", "succeeded"}, refund : {"none", "submitting", "pending", "succeeded"}]
    /\ (local.refund # "none" => local.pay = "succeeded")

\* A clerk with a sound file holds the whole bill of its job.
ClerkOK(c) ==
    /\ DOMAIN clerk[c] = {"step", "todo", "version", "file"}
    /\ clerk[c].step \in {"reading", "nothing"} /\ Sound(clerk[c].file)
          => clerk[c].file.rows = Bill(Job(c)[1], Job(c)[2])

\* BillsTellTheTruth of one row, and that nothing of a row under way has been resolved.
BillRowOK(d, t, r, l) ==
    /\ DOMAIN r = {"status", "stale", "version", "found", "count", "resolved"}
    /\ r.count = Cardinality(r.found) /\ (r.resolved => r.found # {})
    /\ (r.status \notin {"succeeded", "no_statement"} => r.found = {} /\ ~r.resolved)
    /\ (d = 1 /\ t = "trade" /\ r.status \in {"succeeded", "no_statement"} => ((r.found = {}) <=> Agree(l)))
    /\ (d # 1 => r.found = {})

BillsInv ==
    /\ BilledOK /\ LocalOK /\ DOMAIN clerk = Clerks /\ \A c \in Clerks : ClerkOK(c)
    /\ DOMAIN run = BillDates
    /\ \A d \in BillDates : /\ DOMAIN run[d] = BillTypes
                            /\ \A t \in BillTypes : BillRowOK(d, t, run[d][t], compared)

LEMMA BillsInvImplies == BillsInv => BillsTellTheTruth
BY DEF BillsInv, BillRowOK, BillsTellTheTruth, Completed

LEMMA BillsInitially == BillsInit => BillsInv
<1> SUFFICES ASSUME BillsInit PROVE BillsInv
 OBVIOUS
<1>1. BilledOK /\ LocalOK BY DEF BillsInit, BilledOK, LocalOK
<1>2. DOMAIN clerk = Clerks /\ \A c \in Clerks : ClerkOK(c) BY DEF BillsInit, ClerkOK, Free
<1>3. Cardinality({}) = 0 BY FS_EmptySet
<1>4. DOMAIN run = BillDates /\ \A d \in BillDates : DOMAIN run[d] = BillTypes BY DEF BillsInit
<1>5. \A d \in BillDates, t \in BillTypes : BillRowOK(d, t, run[d][t], compared)
 BY <1>3 DEF BillsInit, BillRowOK
<1> QED BY <1>1, <1>2, <1>4, <1>5 DEF BillsInv

\* What one entry says against the rows here, and when it agrees with them.
EntryAgrees(e, l) ==
    CASE e.kind = "payment" -> /\ l.pay = "succeeded" /\ e = PaymentEntry
      [] e.kind = "refund" -> /\ e.no = "r" /\ e.refund = "f" /\ e.trade = "t" /\ e.amount = 1
                              /\ l.refund \in {"pending", "succeeded"}
                              /\ (e.status = "SUCCESS") = (l.refund = "succeeded")
      [] OTHER -> FALSE

\* What an entry that differs from ours in a field or two says.
EntryFields == {"kind", "no", "trade", "refund", "amount", "status"}

LEMMA PaymentFields ==
    ASSUME NEW e \in PaymentEntries, e # NotBilled
    PROVE  /\ e.kind = "payment" /\ e.status = "SUCCESS"
           /\ e = PaymentEntry <=> e.no = "p" /\ e.trade = "t" /\ e.amount = 1
<1>1. PICK E : E = PaymentEntry OBVIOUS
<1>2. /\ DOMAIN E = EntryFields /\ E.kind = "payment" /\ E.no = "p" /\ E.trade = "t" /\ E.amount = 1
      /\ E.status = "SUCCESS"
 BY <1>1 DEF PaymentEntry, EntryFields
<1>3. e \in {E, [E EXCEPT !.no = "x"], [E EXCEPT !.trade = "u"], [E EXCEPT !.no = "x", !.trade = "u"], [E EXCEPT !.amount = 2]}
 BY <1>1 DEF PaymentEntries
<1>4. CASE e = E
 BY <1>1, <1>2, <1>4
<1>5. CASE e = [E EXCEPT !.no = "x"]
 BY <1>1, <1>2, <1>5 DEF EntryFields
<1>6. CASE e = [E EXCEPT !.trade = "u"]
 BY <1>1, <1>2, <1>6 DEF EntryFields
<1>7. CASE e = [E EXCEPT !.no = "x", !.trade = "u"]
 BY <1>1, <1>2, <1>7 DEF EntryFields
<1>8. CASE e = [E EXCEPT !.amount = 2]
 BY <1>1, <1>2, <1>8 DEF EntryFields
<1> QED BY <1>3, <1>4, <1>5, <1>6, <1>7, <1>8

LEMMA RefundFields ==
    ASSUME NEW e \in RefundEntries, e # NotBilled
    PROVE  /\ e.kind = "refund" /\ e.status \in {"SUCCESS", "FAIL"} /\ e.refund \in {"f", "g"}
           /\ e.no = "r" \/ e.no = "y"
<1>1. PICK E : E = RefundEntry OBVIOUS
<1>2. /\ DOMAIN E = EntryFields /\ E.kind = "refund" /\ E.no = "r" /\ E.trade = "t" /\ E.amount = 1
      /\ E.status = "SUCCESS" /\ E.refund = "f"
 BY <1>1 DEF RefundEntry, EntryFields
<1>3. e \in {E, [E EXCEPT !.no = "y"], [E EXCEPT !.refund = "g"], [E EXCEPT !.trade = "u"],
              [E EXCEPT !.no = "y", !.refund = "g"], [E EXCEPT !.amount = 2], [E EXCEPT !.status = "FAIL"]}
 BY <1>1 DEF RefundEntries
<1>4. CASE e = E
 BY <1>1, <1>2, <1>4
<1>5. CASE e = [E EXCEPT !.no = "y"]
 BY <1>1, <1>2, <1>5 DEF EntryFields
<1>6. CASE e = [E EXCEPT !.refund = "g"]
 BY <1>1, <1>2, <1>6 DEF EntryFields
<1>7. CASE e = [E EXCEPT !.trade = "u"]
 BY <1>1, <1>2, <1>7 DEF EntryFields
<1>8. CASE e = [E EXCEPT !.no = "y", !.refund = "g"]
 BY <1>1, <1>2, <1>8 DEF EntryFields
<1>9. CASE e = [E EXCEPT !.amount = 2]
 BY <1>1, <1>2, <1>9 DEF EntryFields
<1>10. CASE e = [E EXCEPT !.status = "FAIL"]
 BY <1>1, <1>2, <1>10 DEF EntryFields
<1> QED BY <1>3, <1>4, <1>5, <1>6, <1>7, <1>8, <1>9, <1>10

LEMMA PaymentSilent ==
    ASSUME LocalOK, NEW e \in PaymentEntries, e # NotBilled
    PROVE  CompareObservation(e) = {} <=> EntryAgrees(e, local)
<1>0. /\ e.kind = "payment" /\ e.status = "SUCCESS"
      /\ e = PaymentEntry <=> e.no = "p" /\ e.trade = "t" /\ e.amount = 1
 BY PaymentFields
<1>1. CompareObservation(e) = {} <=> PaymentKinds(e) = {} BY <1>0 DEF CompareObservation
<1>2. PaymentKinds(e) = {} <=> FindsPayment(e) /\ e.amount = 1 /\ local.pay = "succeeded" /\ e.no = "p" /\ e.trade = LocalTrade
 BY DEF PaymentKinds
<1>3. local.pay = "succeeded" => LocalTrade = "t" BY DEF LocalTrade
<1>4. EntryAgrees(e, local) <=> local.pay = "succeeded" /\ e = PaymentEntry BY <1>0 DEF EntryAgrees
<1> QED BY <1>0, <1>1, <1>2, <1>3, <1>4 DEF FindsPayment

LEMMA RefundSilent ==
    ASSUME LocalOK, NEW e \in RefundEntries, e # NotBilled
    PROVE  CompareObservation(e) = {} <=> EntryAgrees(e, local)
<1>0. e.kind = "refund" /\ e.status \in {"SUCCESS", "FAIL"} /\ e.refund \in {"f", "g"} BY RefundFields
<1>1. CompareObservation(e) = {} <=> RefundKinds(e) = {} BY <1>0 DEF CompareObservation
<1>2. RefundKinds(e) = {} <=>
         /\ FindsRefund(e.no, e.refund) /\ e.amount = 1 /\ e.no = "r" /\ e.refund = LocalRefund /\ e.trade = LocalTrade
         /\ ((e.status = "SUCCESS") <=> (local.refund = "succeeded"))
 BY <1>0 DEF RefundKinds
<1>3. /\ (local.refund # "none" => LocalTrade = "t")
      /\ LocalRefund = (IF local.refund \in {"pending", "succeeded"} THEN "f" ELSE "")
 BY DEF LocalOK, LocalTrade, LocalRefund
<1>4. EntryAgrees(e, local) <=>
         /\ e.no = "r" /\ e.refund = "f" /\ e.trade = "t" /\ e.amount = 1
         /\ local.refund \in {"pending", "succeeded"}
         /\ ((e.status = "SUCCESS") <=> (local.refund = "succeeded"))
 BY <1>0 DEF EntryAgrees
<1> QED BY <1>0, <1>1, <1>2, <1>3, <1>4 DEF FindsRefund

\* An entry of no known kind is always a discrepancy.
LEMMA UnknownLoud == CompareObservation(UnknownEntry) # {} /\ ~EntryAgrees(UnknownEntry, local)
BY DEF CompareObservation, UnknownEntry, EntryAgrees

\* What the bill lacks.
MissingPayment == local.pay = "succeeded" /\ ~\E e \in billed : e.kind = "payment" /\ (e.no = "p" \/ e.trade = "t")
MissingRefund  == LocalRefund # "" /\ ~\E e \in billed : e.kind = "refund" /\ (e.no = "r" \/ e.refund = "f")

LEMMA CompareIsEmpty ==
    CompareDate(1, "trade", billed) = {} <=>
       (\A e \in billed : CompareObservation(e) = {}) /\ ~MissingPayment /\ ~MissingRefund
<1> DEFINE lacks == {k \in {"payment", "refund"} :
            /\ "trade" = "trade" /\ 1 = 1
            /\ \/ /\ k = "payment" /\ local.pay = "succeeded"
                  /\ ~\E e \in billed : e.kind = k /\ (e.no = "p" \/ e.trade = "t")
               \/ /\ k = "refund" /\ LocalRefund # ""
                  /\ ~\E e \in billed : e.kind = k /\ (e.no = "r" \/ e.refund = "f")}
<1>1. lacks = {} <=> ~MissingPayment /\ ~MissingRefund
 <2>1. "payment" \in lacks <=> MissingPayment BY DEF MissingPayment
 <2>2. "refund" \in lacks <=> MissingRefund BY DEF MissingRefund
 <2>3. lacks \subseteq {"payment", "refund"} OBVIOUS
 <2> HIDE DEF lacks
 <2> QED BY <2>1, <2>2, <2>3
<1> DEFINE noted == UNION {CompareObservation(e) : e \in billed}
           absent == {<<[NotBilled EXCEPT !.kind = k], "missing_wechat">> : k \in lacks}
<1>2. CompareDate(1, "trade", billed) = noted \cup absent BY DEF CompareDate
<1>3. noted = {} <=> \A e \in billed : CompareObservation(e) = {} OBVIOUS
<1> HIDE DEF lacks
<1>4. absent = {} <=> lacks = {} OBVIOUS
<1> HIDE DEF noted, absent
<1> QED BY <1>1, <1>2, <1>3, <1>4

\* The comparison finds nothing exactly if the bill and the rows agree.
LEMMA ComparisonIsTrue ==
    ASSUME BilledOK, LocalOK PROVE CompareDate(1, "trade", billed) = {} <=> Agree(local)
<1>0. /\ local.pay \in {"paying", "succeeded"} /\ local.refund \in {"none", "submitting", "pending", "succeeded"}
      /\ (local.refund # "none" => local.pay = "succeeded")
      /\ (LocalRefund # "" <=> local.refund \in {"pending", "succeeded"})
 BY DEF LocalOK, LocalRefund
<1>1. /\ PaymentEntry \in PaymentEntries /\ PaymentEntry # NotBilled
      /\ RefundEntry \in RefundEntries /\ RefundEntry # NotBilled
 BY DEF PaymentEntries, RefundEntries, PaymentEntry, RefundEntry, NotBilled
<1>2. \A e \in billed : CompareObservation(e) = {} <=> EntryAgrees(e, local)
 BY <1>1, PaymentSilent, RefundSilent, UnknownLoud DEF BilledOK
<1>3. CompareDate(1, "trade", billed) = {} <=>
         (\A e \in billed : EntryAgrees(e, local)) /\ ~MissingPayment /\ ~MissingRefund
 BY <1>2, CompareIsEmpty
<1>4. \A e \in billed : e = UnknownEntry \/ e.kind \in {"refund", "payment"}
 <2>1. CASE \E e \in PaymentEntries : billed = {e, RefundEntry} \ {NotBilled}
  BY <1>1, <2>1, PaymentFields, RefundFields
 <2>2. CASE \E e \in RefundEntries : billed = {PaymentEntry, e} \ {NotBilled}
  BY <1>1, <2>2, PaymentFields, RefundFields
 <2>3. CASE billed = {UnknownEntry}
  BY <2>3
 <2> QED BY <2>1, <2>2, <2>3 DEF BilledOK
<1>5. \A e, f \in billed : e.kind = "payment" /\ f.kind = "payment" => e = f
 BY <1>1, PaymentFields, RefundFields DEF BilledOK
<1>6. PaymentEntry.kind = "payment" /\ PaymentEntry.no = "p" /\ UnknownEntry.kind = "unknown"
 BY DEF PaymentEntry, UnknownEntry
<1>7. ASSUME Agree(local) PROVE (\A e \in billed : EntryAgrees(e, local)) /\ ~MissingPayment /\ ~MissingRefund
 <2>1. \A e \in billed : e.kind = "refund" =>
         /\ e.no = "r" /\ e.refund = "f" /\ e.trade = "t" /\ e.amount = 1 /\ local.refund \in {"pending", "succeeded"}
         /\ (e.status = "SUCCESS") = (local.refund = "succeeded")
  BY <1>7 DEF Agree
 <2>2. ASSUME NEW e \in billed PROVE EntryAgrees(e, local)
  <3>1. CASE e.kind = "refund"
   BY <2>1, <3>1 DEF EntryAgrees
  <3>2. CASE e.kind = "payment"
   <4>1. local.pay = "succeeded" /\ PaymentEntry \in billed BY <1>7, <3>2 DEF Agree
   <4>2. e = PaymentEntry BY <1>5, <1>6, <3>2, <4>1
   <4> QED BY <3>2, <4>1, <4>2 DEF EntryAgrees
  <3> QED BY <1>4, <1>7, <3>1, <3>2 DEF Agree
 <2>3. ~MissingPayment BY <1>6, <1>7 DEF Agree, MissingPayment
 <2>4. ~MissingRefund BY <1>0, <1>7, <2>1 DEF Agree, MissingRefund
 <2> QED BY <2>2, <2>3, <2>4
<1>8. ASSUME \A e \in billed : EntryAgrees(e, local), ~MissingPayment, ~MissingRefund PROVE Agree(local)
 <2>1. UnknownEntry \notin billed BY <1>8, UnknownLoud
 <2>2. \A e \in billed : e.kind = "payment" => local.pay = "succeeded" /\ e = PaymentEntry
  BY <1>8 DEF EntryAgrees
 <2>3. \A e \in billed : e.kind = "refund" =>
         /\ e.no = "r" /\ e.refund = "f" /\ e.trade = "t" /\ e.amount = 1 /\ local.refund \in {"pending", "succeeded"}
         /\ (e.status = "SUCCESS") = (local.refund = "succeeded")
  BY <1>8 DEF EntryAgrees
 <2>4. local.pay = "succeeded" => \E e \in billed : e.kind = "payment" BY <1>8 DEF MissingPayment
 <2>5. local.refund \in {"pending", "succeeded"} => \E e \in billed : e.kind = "refund"
  BY <1>0, <1>8 DEF MissingRefund
 <2> QED BY <2>1, <2>2, <2>3, <2>4, <2>5 DEF Agree
<1> QED BY <1>3, <1>7, <1>8

----------------------------------------
\* A step that changes one row of one clerk's job, and only that row, keeps the others.
LEMMA OneBill ==
    ASSUME BillsInv, NEW d, NEW t, NEW r, run' = [run EXCEPT ![d][t] = r],
           d \in BillDates /\ t \in BillTypes => BillRowOK(d, t, r, compared'),
           compared' = compared \/ (d = 1 /\ t = "trade"), billed' = billed
    PROVE  /\ DOMAIN run' = BillDates
           /\ \A e \in BillDates : /\ DOMAIN run'[e] = BillTypes
                                  /\ \A u \in BillTypes : BillRowOK(e, u, run'[e][u], compared')
<1>1. DOMAIN run = BillDates /\ \A e \in BillDates : DOMAIN run[e] = BillTypes BY DEF BillsInv
<1>2. DOMAIN run' = BillDates BY <1>1
<1>3. ASSUME NEW e \in BillDates PROVE DOMAIN run'[e] = BillTypes BY <1>1
<1>4. ASSUME NEW e \in BillDates, NEW u \in BillTypes PROVE BillRowOK(e, u, run'[e][u], compared')
 <2>1. CASE e = d /\ u = t
  <3>1. run'[e][u] = r BY <1>1, <2>1
  <3> QED BY <2>1, <3>1
 <2>2. CASE ~(e = d /\ u = t)
  <3>1. run'[e][u] = run[e][u] BY <1>1, <2>2
  <3>2. BillRowOK(e, u, run[e][u], compared) BY DEF BillsInv
  <3>3. compared' = compared \/ ~(e = 1 /\ u = "trade") BY <2>2
  <3> QED BY <3>1, <3>2, <3>3 DEF BillRowOK
 <2> QED BY <2>1, <2>2
<1> QED BY <1>2, <1>3, <1>4

\* A step of one clerk keeps the others.
LEMMA OneClerk ==
    ASSUME BillsInv, NEW c \in Clerks, NEW k, clerk' = [clerk EXCEPT ![c] = k], ClerkOK(c)', billed' = billed
    PROVE  DOMAIN clerk' = Clerks /\ \A e \in Clerks : ClerkOK(e)'
<1>1. DOMAIN clerk = Clerks /\ \A e \in Clerks : ClerkOK(e) BY DEF BillsInv
<1>2. DOMAIN clerk' = Clerks BY <1>1
<1>3. ASSUME NEW e \in Clerks, e # c PROVE ClerkOK(e)'
 <2>1. clerk'[e] = clerk[e] BY <1>1, <1>3
 <2> QED BY <1>1, <2>1 DEF ClerkOK, Job, Bill
<1> QED BY <1>2, <1>3

\* The rows of the bill in a sound file are the provider's, whole.
LEMMA SoundIsWhole ==
    ASSUME NEW d, NEW t, NEW f \in Files(d, t).good \cup Files(d, t).bad, Sound(f)
    PROVE  f.rows = Bill(d, t)
<1> DEFINE whole == [rows |-> Bill(d, t), count |-> Cardinality(Bill(d, t)), sameDay |-> TRUE, intact |-> TRUE]
           lost  == {[whole EXCEPT !.rows = @ \ {e}, !.intact = FALSE] : e \in Bill(d, t)}
<1>1. PICK W : W = whole OBVIOUS
<1>2. DOMAIN W = {"rows", "count", "sameDay", "intact"} /\ W.rows = Bill(d, t) BY <1>1
<1> DEFINE gone == {[W EXCEPT !.rows = W.rows \ {e}, !.intact = FALSE] : e \in Bill(d, t)}
<1>3. f \in {W} \cup gone \cup {[g EXCEPT !.count = g.count - 1] : g \in gone}
             \cup {[W EXCEPT !.sameDay = FALSE]} \cup {[W EXCEPT !.count = -1, !.intact = FALSE]}
 <2> DEFINE bad == lost \cup {[g EXCEPT !.count = @ - 1] : g \in lost} \cup {[whole EXCEPT !.sameDay = FALSE]}
                   \cup {[whole EXCEPT !.count = -1, !.intact = FALSE]}
 <2>1. Files(d, t) = [good |-> {whole}, bad |-> bad] BY Zenon DEF Files
 <2>2. f \in {whole} \cup bad
  <3> HIDE DEF whole, bad
  <3> QED BY <2>1
 <2>3. lost = gone BY <1>1, Zenon
 <2> HIDE DEF lost, whole, gone
 <2> QED BY <1>1, <2>2, <2>3, Zenon
<1>4. \A g \in gone : DOMAIN g = {"rows", "count", "sameDay", "intact"} /\ ~g.intact BY <1>2
<1>5. \A g \in {[g EXCEPT !.count = g.count - 1] : g \in gone} : ~g.intact
 <2> HIDE DEF gone
 <2> SUFFICES ASSUME NEW g \in gone PROVE ~[g EXCEPT !.count = g.count - 1].intact
  OBVIOUS
 <2>1. PICK n : n = g.count - 1 OBVIOUS
 <2>2. ~[g EXCEPT !.count = n].intact BY <1>4
 <2> QED BY <2>1, <2>2, Zenon
<1>6. f.sameDay /\ f.intact BY DEF Sound
<1>7. ~[W EXCEPT !.sameDay = FALSE].sameDay BY <1>2
<1>8. ~[W EXCEPT !.count = -1, !.intact = FALSE].intact
 <2>1. PICK n : n = -1 OBVIOUS
 <2>2. ~[W EXCEPT !.count = n, !.intact = FALSE].intact BY <1>2
 <2> QED BY <2>1, <2>2, Zenon
<1>9. f = W
 <2> HIDE DEF gone
 <2> QED BY <1>3, <1>4, <1>5, <1>6, <1>7, <1>8, Zenon
<1> QED BY <1>2, <1>9

----------------------------------------
\* The parts of the invariant, for steps that leave the others alone.
RunsOK ==
    /\ DOMAIN run = BillDates
    /\ \A d \in BillDates : /\ DOMAIN run[d] = BillTypes
                            /\ \A t \in BillTypes : BillRowOK(d, t, run[d][t], compared)

ClerksOK == DOMAIN clerk = Clerks /\ \A c \in Clerks : ClerkOK(c)

LEMMA BillsParts ==
    /\ BillsInv => BilledOK /\ LocalOK /\ ClerksOK /\ RunsOK
    /\ BilledOK' /\ LocalOK' /\ ClerksOK' /\ RunsOK' => BillsInv'
BY DEF BillsInv, ClerksOK, RunsOK

LEMMA BilledRests == BilledOK /\ LocalOK /\ UNCHANGED <<billed, local>> => BilledOK' /\ LocalOK'
BY DEF BilledOK, LocalOK

LEMMA ClerksRest == ClerksOK /\ UNCHANGED <<clerk, billed>> => ClerksOK'
BY DEF ClerksOK, ClerkOK, Job, Bill

LEMMA RunsRest == RunsOK /\ UNCHANGED <<run, compared, billed>> => RunsOK'
BY DEF RunsOK, BillRowOK, Agree

\* A clerk without a file.
LEMMA ClerkWithout ==
    ASSUME BillsInv, NEW c \in Clerks, NEW k, clerk' = [clerk EXCEPT ![c] = k], billed' = billed,
           DOMAIN k = {"step", "todo", "version", "file"}, k.step \notin {"reading", "nothing"}
    PROVE  ClerksOK'
<1>1. clerk'[c] = k BY DEF BillsInv
<1>2. ClerkOK(c)' BY <1>1 DEF ClerkOK
<1> QED BY <1>2, OneClerk DEF ClerksOK

LEMMA RunDueStep == ASSUME BillsInv, NEW c \in Clerks, RunDue(c) PROVE BillsInv'
<1>1. PICK q : q = Cycle(MissingDates) OBVIOUS
<1>2. DOMAIN clerk = Clerks /\ clerk[c] = Free BY DEF BillsInv, RunDue
<1>3. PICK k : k = [clerk[c] EXCEPT !.todo = q] OBVIOUS
<1>4. DOMAIN k = {"step", "todo", "version", "file"} /\ k.step = "idle" BY <1>2, <1>3 DEF Free
<1>5. clerk' = [clerk EXCEPT ![c] = k] BY <1>1, <1>3 DEF RunDue
<1>6. ClerksOK' BY <1>4, <1>5, ClerkWithout DEF RunDue
<1> QED BY <1>6, BillsParts, BilledRests, RunsRest DEF RunDue

LEMMA RunBillManualStep ==
    ASSUME BillsInv, NEW c \in Clerks, NEW d, NEW t, RunBillManual(c, d, t) PROVE BillsInv'
<1>1. PICK q : q = <<<<d, t>>>> OBVIOUS
<1>2. DOMAIN clerk = Clerks /\ clerk[c] = Free BY DEF BillsInv, RunBillManual
<1>3. PICK k : k = [clerk[c] EXCEPT !.todo = q] OBVIOUS
<1>4. DOMAIN k = {"step", "todo", "version", "file"} /\ k.step = "idle" BY <1>2, <1>3 DEF Free
<1>5. clerk' = [clerk EXCEPT ![c] = k] BY <1>1, <1>3 DEF RunBillManual
<1>6. ClerksOK' BY <1>4, <1>5, ClerkWithout DEF RunBillManual
<1> QED BY <1>6, BillsParts, BilledRests, RunsRest DEF RunBillManual

\* A clerk that goes on to its next job has no file.
LEMMA ClerkGoesOn ==
    ASSUME BillsInv, NEW c \in Clerks, clerk' = [clerk EXCEPT ![c] = Next1(c)], billed' = billed PROVE ClerksOK'
<1>1. PICK q : q = Tail(clerk[c].todo) OBVIOUS
<1>2. PICK k : k = [Free EXCEPT !.todo = q] OBVIOUS
<1>3. DOMAIN k = {"step", "todo", "version", "file"} /\ k.step = "idle" BY <1>2 DEF Free
<1>4. clerk' = [clerk EXCEPT ![c] = k] BY <1>1, <1>2 DEF Next1
<1> QED BY <1>3, <1>4, ClerkWithout

LEMMA RunStep ==
    ASSUME BillsInv, NEW d, NEW t, NEW r, run' = [run EXCEPT ![d][t] = r],
           d \in BillDates /\ t \in BillTypes => BillRowOK(d, t, r, compared'),
           compared' = compared \/ (d = 1 /\ t = "trade"), billed' = billed
    PROVE  RunsOK'
<1>1. /\ DOMAIN run' = BillDates
      /\ \A e \in BillDates : /\ DOMAIN run'[e] = BillTypes
                             /\ \A u \in BillTypes : BillRowOK(e, u, run'[e][u], compared')
 BY OneBill
<1>2. \A e, u : BillRowOK(e, u, run[e][u], compared)' <=> BillRowOK(e, u, run'[e][u], compared')
 BY DEF BillRowOK, Agree
<1> QED BY <1>1, <1>2, Zenon DEF RunsOK

LEMMA AcquireRunStep == ASSUME BillsInv, NEW c \in Clerks, AcquireRun(c) PROVE BillsInv'
<1> DEFINE r == RunOf(c)
           taken == r.status \in {"succeeded", "no_statement"} \/ (r.status = "running" /\ ~r.stale)
<1>0. UNCHANGED <<billed, local, compared>> BY DEF AcquireRun
<1>1. CASE taken
 <2>1. clerk' = [clerk EXCEPT ![c] = Next1(c)] /\ run' = run BY <1>1 DEF AcquireRun
 <2> QED BY <1>0, <2>1, ClerkGoesOn, BillsParts, BilledRests, RunsRest
<1>2. CASE ~taken
 <2>1. PICK v : v = r.version + 1 OBVIOUS
 <2>2. PICK d, t : d = Job(c)[1] /\ t = Job(c)[2] OBVIOUS
 <2>3. PICK row : row = [status |-> "running", stale |-> FALSE, version |-> v, found |-> {}, count |-> 0, resolved |-> FALSE]
  OBVIOUS
 <2>4. run' = [run EXCEPT ![d][t] = row] BY <1>2, <2>1, <2>2, <2>3, Zenon DEF AcquireRun
 <2>5. BillRowOK(d, t, row, compared)
  <3>1. Cardinality({}) = 0 BY FS_EmptySet
  <3> QED BY <2>3, <3>1 DEF BillRowOK
 <2>6. RunsOK' BY <1>0, <2>4, <2>5, RunStep
 <2>7. clerk' = [clerk EXCEPT ![c] = [clerk[c] EXCEPT !.step = "opening", !.version = v]]
  BY <1>2, <2>1, Zenon DEF AcquireRun
 <2>8. PICK k : k = [clerk[c] EXCEPT !.step = "opening", !.version = v] OBVIOUS
 <2>9. DOMAIN k = {"step", "todo", "version", "file"} /\ k.step = "opening" BY <2>8 DEF BillsInv, ClerkOK
 <2>10. ClerksOK' BY <1>0, <2>7, <2>8, <2>9, ClerkWithout
 <2> QED BY <1>0, <2>6, <2>10, BillsParts, BilledRests
<1> QED BY <1>1, <1>2

\* A row marked failed has no discrepancies: it was running.
LEMMA MarkFailedStep ==
    ASSUME BillsInv, NEW c \in Clerks, MarkFailed(c), UNCHANGED <<billed, compared>> PROVE RunsOK'
<1>1. CASE RunOf(c).status = "running" /\ RunOf(c).version = clerk[c].version
 <2>1. PICK d, t : d = Job(c)[1] /\ t = Job(c)[2] OBVIOUS
 <2>2. PICK R : R = run[d][t] OBVIOUS
 <2>3. PICK v : v = R.version + 1 OBVIOUS
 <2>4. PICK row : row = [R EXCEPT !.status = "failed", !.version = v] OBVIOUS
 <2>5. run' = [run EXCEPT ![d][t] = row] BY <1>1, <2>1, <2>2, <2>3, <2>4, Zenon DEF MarkFailed, RunOf
 <2>6. R.status = "running" BY <1>1, <2>1, <2>2 DEF RunOf
 <2>7. ASSUME d \in BillDates, t \in BillTypes PROVE BillRowOK(d, t, row, compared)
  <3>1. BillRowOK(d, t, R, compared) BY <2>2, <2>7 DEF BillsInv
  <3> QED BY <2>4, <2>6, <3>1 DEF BillRowOK
 <2> QED BY <2>5, <2>7, RunStep
<1>2. CASE ~(RunOf(c).status = "running" /\ RunOf(c).version = clerk[c].version)
 <2>1. run' = run BY <1>2 DEF MarkFailed
 <2> QED BY <2>1, BillsParts, RunsRest
<1> QED BY <1>1, <1>2

LEMMA OpenBillStep ==
    ASSUME BillsInv, NEW c \in Clerks, NEW answer \in {"good", "bad", "error"}, OpenBill(c, answer) PROVE BillsInv'
<1>0. UNCHANGED <<billed, local, compared>> /\ DOMAIN clerk = Clerks BY DEF OpenBill, BillsInv
<1>1. CASE answer = "error"
 <2>1. MarkFailed(c) /\ clerk' = [clerk EXCEPT ![c] = Next1(c)] BY <1>1 DEF OpenBill
 <2> QED BY <1>0, <2>1, ClerkGoesOn, MarkFailedStep, BillsParts, BilledRests
<1>2. CASE answer # "error"
 <2>1. PICK d, t : d = Job(c)[1] /\ t = Job(c)[2] OBVIOUS
 <2>2. /\ \E f \in (IF answer = "good" THEN Files(d, t).good ELSE Files(d, t).bad) :
            clerk' = [clerk EXCEPT ![c].step = IF answer = "good" /\ f.rows = {} THEN "nothing" ELSE "reading",
                                   ![c].file = f]
       /\ run' = run
  BY <1>2, <2>1, Zenon DEF OpenBill
 <2>3. PICK f \in Files(d, t).good \cup Files(d, t).bad :
            clerk' = [clerk EXCEPT ![c].step = IF answer = "good" /\ f.rows = {} THEN "nothing" ELSE "reading",
                                   ![c].file = f]
  BY <2>2, Zenon
 <2>4. PICK s : s = IF answer = "good" /\ f.rows = {} THEN "nothing" ELSE "reading" OBVIOUS
 <2>5. clerk' = [clerk EXCEPT ![c] = [clerk[c] EXCEPT !.step = s, !.file = f]] BY <2>3, <2>4, Zenon
 <2>6. PICK k : k = [clerk[c] EXCEPT !.step = s, !.file = f] OBVIOUS
 <2>7. DOMAIN k = {"step", "todo", "version", "file"} /\ k.file = f /\ k.todo = clerk[c].todo
  BY <2>6 DEF BillsInv, ClerkOK
 <2>8. clerk'[c] = k BY <1>0, <2>5, <2>6
 <2>9. Sound(f) => f.rows = Bill(d, t) BY SoundIsWhole
 <2>10. Job(c)' = Job(c) BY <2>7, <2>8 DEF Job
 <2>11. Bill(d, t)' = Bill(d, t) BY <1>0 DEF Bill
 <2>12. ClerkOK(c)' BY <2>1, <2>7, <2>8, <2>9, <2>10, <2>11 DEF ClerkOK
 <2>13. ClerksOK' BY <1>0, <2>5, <2>6, <2>12, OneClerk DEF ClerksOK
 <2> QED BY <1>0, <2>2, <2>13, BillsParts, BilledRests, RunsRest
<1> QED BY <1>1, <1>2

LEMMA CompleteRunStep == ASSUME BillsInv, NEW c \in Clerks, CompleteRun(c) PROVE BillsInv'
<1>0. UNCHANGED <<billed, local>> /\ clerk' = [clerk EXCEPT ![c] = Next1(c)] BY DEF CompleteRun
<1>1. PICK d, t, f : d = Job(c)[1] /\ t = Job(c)[2] /\ f = clerk[c].file OBVIOUS
<1>2. CASE ~(Sound(f) /\ StillMine(c))
 <2>1. MarkFailed(c) /\ compared' = compared BY <1>1, <1>2 DEF CompleteRun
 <2> QED BY <1>0, <2>1, MarkFailedStep, ClerkGoesOn, BillsParts, BilledRests
<1>3. CASE Sound(f) /\ StillMine(c)
 <2> DEFINE found == CompareDate(d, t, f.rows)
 <2>1. PICK s : s = (IF clerk[c].step = "nothing" THEN "no_statement" ELSE "succeeded") OBVIOUS
 <2>2. s \in {"succeeded", "no_statement"} BY <2>1
 <2>3. PICK F, n : F = found /\ n = Cardinality(F) OBVIOUS
 <2>4. PICK R : R = run[d][t] OBVIOUS
 <2>5. PICK row : row = [R EXCEPT !.status = s, !.version = 0, !.found = F, !.count = n] OBVIOUS
 <2>6. run' = [run EXCEPT ![d][t] = row] BY <1>1, <1>3, <2>1, <2>3, <2>4, <2>5, Zenon DEF CompleteRun
 <2>7. compared' = IF d = 1 /\ t = "trade" THEN local ELSE compared BY <1>1, <1>3, Zenon DEF CompleteRun
 <2>8. f.rows = Bill(d, t) BY <1>1, <1>3 DEF BillsInv, ClerkOK, CompleteRun
 <2>9. ASSUME d \in BillDates, t \in BillTypes PROVE BillRowOK(d, t, row, compared')
  <3>1. BillRowOK(d, t, R, compared) /\ R.status = "running"
   BY <1>1, <1>3, <2>4, <2>9 DEF BillsInv, StillMine, RunOf
  <3>2. /\ DOMAIN row = {"status", "stale", "version", "found", "count", "resolved"}
        /\ row.status = s /\ row.found = F /\ row.count = n /\ ~row.resolved
   BY <2>5, <3>1 DEF BillRowOK
  <3>3. d = 1 /\ t = "trade" => ((F = {}) <=> Agree(compared'))
   <4>1. d = 1 /\ t = "trade" => F = CompareDate(1, "trade", billed) BY <2>3, <2>8 DEF Bill
   <4> QED BY <2>7, <4>1, ComparisonIsTrue DEF BillsInv
  <3>4. d # 1 => F = {} BY <2>3, <2>8 DEF Bill, CompareDate
  <3> QED BY <2>2, <2>3, <3>2, <3>3, <3>4 DEF BillRowOK
 <2>10. RunsOK' BY <1>0, <2>6, <2>7, <2>9, RunStep
 <2> QED BY <1>0, <2>10, ClerkGoesOn, BillsParts, BilledRests
<1> QED BY <1>2, <1>3

LEMMA ResolveDiscrepancyStep ==
    ASSUME BillsInv, NEW d \in BillDates, NEW t \in BillTypes, ResolveDiscrepancy(d, t) PROVE BillsInv'
<1>0. UNCHANGED <<billed, local, clerk, compared>> BY DEF ResolveDiscrepancy
<1>1. PICK R : R = run[d][t] /\ BillRowOK(d, t, R, compared) /\ R.found # {}
 BY DEF BillsInv, ResolveDiscrepancy
<1>2. PICK row : row = [R EXCEPT !.resolved = TRUE] OBVIOUS
<1>3. run' = [run EXCEPT ![d][t] = row] BY <1>1, <1>2, Zenon DEF ResolveDiscrepancy
<1>4. BillRowOK(d, t, row, compared) BY <1>1, <1>2 DEF BillRowOK
<1> QED BY <1>0, <1>3, <1>4, RunStep, BillsParts, BilledRests, ClerksRest

LEMMA RunGoesStaleStep ==
    ASSUME BillsInv, NEW d \in BillDates, NEW t \in BillTypes, RunGoesStale(d, t) PROVE BillsInv'
<1>0. UNCHANGED <<billed, local, clerk, compared>> BY DEF RunGoesStale
<1>1. PICK R : R = run[d][t] /\ BillRowOK(d, t, R, compared) BY DEF BillsInv
<1>2. PICK row : row = [R EXCEPT !.stale = TRUE] OBVIOUS
<1>3. run' = [run EXCEPT ![d][t] = row] BY <1>1, <1>2, Zenon DEF RunGoesStale
<1>4. BillRowOK(d, t, row, compared) BY <1>1, <1>2 DEF BillRowOK
<1> QED BY <1>0, <1>3, <1>4, RunStep, BillsParts, BilledRests, ClerksRest

LEMMA ClerkDiesStep == ASSUME BillsInv, NEW c \in Clerks, ClerkDies(c) PROVE BillsInv'
<1>1. DOMAIN Free = {"step", "todo", "version", "file"} /\ Free.step = "idle" BY DEF Free
<1>2. clerk' = [clerk EXCEPT ![c] = Free] /\ UNCHANGED <<billed, local, run, compared>> BY DEF ClerkDies
<1>3. ClerksOK' BY <1>1, <1>2, ClerkWithout
<1> QED BY <1>2, <1>3, BillsParts, BilledRests, RunsRest

LEMMA LocalSettlesStep == ASSUME BillsInv, LocalSettles PROVE BillsInv'
<1>0. UNCHANGED <<billed, run, clerk, compared>> BY DEF LocalSettles
<1>1. LocalOK' BY DEF LocalSettles, LocalOK, BillsInv
<1>2. BilledOK' BY <1>0 DEF BilledOK, BillsInv
<1> QED BY <1>0, <1>1, <1>2, BillsParts, ClerksRest, RunsRest

LEMMA BillsRest == BillsInv /\ UNCHANGED billVars => BillsInv'
BY BillsParts, BilledRests, ClerksRest, RunsRest DEF billVars

LEMMA BillsKeep == BillsInv /\ BillsNext => BillsInv'
<1> SUFFICES ASSUME BillsInv, BillsNext PROVE BillsInv'
 OBVIOUS
<1>1. ASSUME BillDayPasses PROVE BillsInv'
 BY <1>1, BillsParts, BilledRests, ClerksRest, RunsRest DEF BillDayPasses
<1> QED BY <1>1, RunDueStep, AcquireRunStep, CompleteRunStep, ClerkDiesStep, RunBillManualStep, OpenBillStep,
            RunGoesStaleStep, ResolveDiscrepancyStep, LocalSettlesStep DEF BillsNext

----------------------------------------
(* The customer's assets. *)

LotRows      == [granted : Nat, available : Nat, frozen : Nat, consumed : Nat, expired : Nat,
                 dated : BOOLEAN, past : BOOLEAN, listed : BOOLEAN]
PartRows     == [amount : Nat, committed : Nat, released : Nat]
HoldRows     == [status : {"none", "active", "partially_committed", "committed", "released", "expired"},
                 original : Nat, committed : Nat, released : Nat, part : [LotIds -> PartRows]]
TransferRows == [action : {"none", "credit", "debit", "failed"}, amount : Nat, reversed : Nat]
AssetBooks   == [available : Nat, frozen : Nat, control : Int, lots : [LotIds -> LotRows]]

\* What is so of a lot, of a hold and of a transfer by itself.
LotOK(L) ==
    /\ L.granted = L.available + L.frozen + L.consumed + L.expired
    /\ (L.expired > 0 => L.past) /\ (L.past => L.dated)

RestOfParts(H) == SumFunctionOnSet([l \in LotIds |-> PartRest(H.part[l])], LotIds)

HoldOK(H) ==
    /\ H.committed + H.released <= H.original
    /\ \A l \in LotIds : H.part[l].committed + H.part[l].released <= H.part[l].amount
    /\ HoldRest(H) = RestOfParts(H)
    /\ (H.status = "none" => H = NoHold)

TransferOK(T) == T.reversed <= T.amount /\ (T.action \in {"none", "failed"} => T.amount = 0)

NetOf(T) ==
    CASE T.action = "credit" -> T.amount - T.reversed
      [] T.action = "debit" -> T.reversed - T.amount
      [] OTHER -> 0

\* The sums the balances are compared with.
AvailableIn(B)  == SumFunctionOnSet([l \in LotIds |-> B.lots[l].available], LotIds)
FrozenIn(B)     == SumFunctionOnSet([l \in LotIds |-> B.lots[l].frozen], LotIds)
ExpiredIn(B)    == SumFunctionOnSet([l \in LotIds |-> B.lots[l].expired], LotIds)
FrozenBy(H, l)  == SumFunctionOnSet([h \in Holds |-> PartRest(H[h].part[l])], Holds)
RestIn(H)       == SumFunctionOnSet([h \in Holds |-> HoldRest(H[h])], Holds)
CommittedIn(H)  == SumFunctionOnSet([h \in Holds |-> H[h].committed], Holds)
NetIn(T)        == SumFunctionOnSet([s \in AllSources |-> NetOf(T[s])], AllSources)

\* The books B, the transfers T and the holds H agree.
BooksOK(B, T, H) ==
    /\ B \in AssetBooks /\ T \in [AllSources -> TransferRows] /\ H \in [Holds -> HoldRows]
    /\ \A l \in LotIds : LotOK(B.lots[l]) /\ B.lots[l].frozen = FrozenBy(H, l)
    /\ \A h \in Holds : HoldOK(H[h])
    /\ \A s \in AllSources : TransferOK(T[s])
    /\ B.available = AvailableIn(B) /\ B.frozen = FrozenIn(B) /\ B.frozen = RestIn(H)
    /\ B.control = CommittedIn(H) + ExpiredIn(B) - NetIn(T) /\ B.available + B.frozen + B.control = 0

CompensationRows == [status : {"none", "approved", "issuing", "issued", "failed"}, live : BOOLEAN, valid : BOOLEAN]

\* A worker that has credited, and a compensation that reads issued, point to a credit; what
\* a compensation's source was used for is a credit.
CompensationOK ==
    /\ compensation \in [Compensations -> CompensationRows]
    /\ payer \in [Payers -> [step : {"idle", "claimed", "credited", "refused"}, row : Compensations \cup {"none"}]]
    /\ \A w \in Payers : /\ payer[w].step # "idle" => payer[w].row \in Compensations
                         /\ payer[w].step = "credited" => transfer[payer[w].row].action = "credit"
    /\ \A c \in Compensations : /\ transfer[c].action \in {"none", "credit"}
                                /\ compensation[c].status = "issued" => transfer[c].action = "credit"

\* Growth is never held and never dated.
GrowthOK ==
    asset = "growth" => /\ profile = Profile(books) /\ \A h \in Holds : hold[h].status = "none"
                        /\ \A l \in LotIds : ~books.lots[l].dated

AssetInv == asset \in {"balance", "growth"} /\ BooksOK(books, transfer, hold) /\ CompensationOK /\ GrowthOK

LEMMA FiniteAssets == IsFiniteSet(LotIds) /\ IsFiniteSet(Holds) /\ IsFiniteSet(AllSources)
<1>1. IsFiniteSet(LotIds) BY AssetAssumption, FS_Interval DEF LotIds
<1>2. IsFiniteSet(AllSources) BY AssetAssumption, FS_Union DEF AllSources
<1> QED BY <1>1, <1>2, AssetAssumption

\* The sums are numbers.
LEMMA SumsAreNumbers ==
    ASSUME NEW B, NEW T, NEW H, BooksOK(B, T, H)
    PROVE  /\ AvailableIn(B) \in Nat /\ FrozenIn(B) \in Nat /\ ExpiredIn(B) \in Nat
           /\ RestIn(H) \in Nat /\ CommittedIn(H) \in Nat /\ NetIn(T) \in Int
           /\ \A l \in LotIds : FrozenBy(H, l) \in Nat
<1>1. AvailableIn(B) \in Nat /\ FrozenIn(B) \in Nat /\ ExpiredIn(B) \in Nat
 <2>1. \A l \in LotIds : B.lots[l].available \in Nat /\ B.lots[l].frozen \in Nat /\ B.lots[l].expired \in Nat
  BY DEF BooksOK, AssetBooks, LotRows
 <2>2. \A l \in LotIds : /\ [k \in LotIds |-> B.lots[k].available][l] \in Nat
                         /\ [k \in LotIds |-> B.lots[k].frozen][l] \in Nat
                         /\ [k \in LotIds |-> B.lots[k].expired][l] \in Nat
  BY <2>1
 <2> QED BY <2>2, FiniteAssets, SumSubset DEF AvailableIn, FrozenIn, ExpiredIn
<1>2. \A h \in Holds : HoldRest(H[h]) \in Nat /\ H[h].committed \in Nat
 BY DEF BooksOK, HoldRows, HoldOK, HoldRest
<1>3. RestIn(H) \in Nat /\ CommittedIn(H) \in Nat
 <2>1. \A h \in Holds : [g \in Holds |-> HoldRest(H[g])][h] \in Nat /\ [g \in Holds |-> H[g].committed][h] \in Nat
  BY <1>2
 <2> QED BY <2>1, FiniteAssets, SumSubset DEF RestIn, CommittedIn
<1>4. NetIn(T) \in Int
 <2>1. \A s \in AllSources : [r \in AllSources |-> NetOf(T[r])][s] \in Int
  BY DEF BooksOK, TransferRows, NetOf
 <2> QED BY <2>1, FiniteAssets, SumType DEF NetIn
<1>5. ASSUME NEW l \in LotIds PROVE FrozenBy(H, l) \in Nat
 <2>1. \A h \in Holds : PartRest(H[h].part[l]) \in Nat BY DEF BooksOK, HoldRows, PartRows, HoldOK, PartRest
 <2>2. \A h \in Holds : [g \in Holds |-> PartRest(H[g].part[l])][h] \in Nat BY <2>1
 <2> QED BY <2>2, FiniteAssets, SumSubset DEF FrozenBy
<1> QED BY <1>1, <1>3, <1>4, <1>5

LEMMA AssetInvImplies == AssetInv => AssetsReconcile
<1> SUFFICES ASSUME AssetInv PROVE AssetsReconcile
 OBVIOUS
<1>1. BooksOK(books, transfer, hold) BY DEF AssetInv
<1>2. /\ Total([l \in LotIds |-> books.lots[l].available]) = AvailableIn(books)
      /\ Total([l \in LotIds |-> books.lots[l].frozen]) = FrozenIn(books)
      /\ Total([l \in LotIds |-> books.lots[l].expired]) = ExpiredIn(books)
      /\ Total([h \in Holds |-> hold[h].committed]) = CommittedIn(hold)
      /\ Total([h \in Holds |-> HoldRest(hold[h])]) = RestIn(hold)
      /\ \A l \in LotIds : Total([h \in Holds |-> PartRest(hold[h].part[l])]) = FrozenBy(hold, l)
 BY Zenon DEF Total, AvailableIn, FrozenIn, ExpiredIn, CommittedIn, RestIn, FrozenBy
<1>3. Total([s \in AllSources |->
                 CASE transfer[s].action = "credit" -> transfer[s].amount - transfer[s].reversed
                   [] transfer[s].action = "debit" -> transfer[s].reversed - transfer[s].amount
                   [] OTHER -> 0]) = NetIn(transfer)
 BY Zenon DEF Total, NetIn, NetOf
<1>4. Expected = [available |-> NetIn(transfer) - (CommittedIn(hold) + ExpiredIn(books)) - RestIn(hold),
                  frozen |-> RestIn(hold), control |-> (CommittedIn(hold) + ExpiredIn(books)) - NetIn(transfer)]
 BY <1>2, <1>3, Zenon DEF Expected
<1>5. PICK rest \in Nat, gone \in Nat, net \in Int :
         rest = RestIn(hold) /\ gone = CommittedIn(hold) + ExpiredIn(books) /\ net = NetIn(transfer)
 BY <1>1, SumsAreNumbers
<1>6. books \in AssetBooks /\ books.frozen = rest /\ books.available + books.frozen + books.control = 0
 BY <1>1, <1>5 DEF BooksOK
<1>60. books.control = CommittedIn(hold) + ExpiredIn(books) - NetIn(transfer) BY <1>1 DEF BooksOK
<1>61. books.control = gone - net
 <2>1. PICK c \in Nat, e \in Nat : c = CommittedIn(hold) /\ e = ExpiredIn(books) BY <1>1, SumsAreNumbers
 <2>2. books.control = c + e - net /\ gone = c + e BY <1>5, <1>60, <2>1
 <2> QED BY <2>2
<1>62. books.available \in Nat BY <1>6 DEF AssetBooks
<1>7. books.available = net - gone - rest BY <1>6, <1>61, <1>62
<1>8. [k \in {"available", "frozen", "control"} |-> books[k]] =
         [available |-> net - gone - rest, frozen |-> rest, control |-> gone - net]
 BY <1>6, <1>61, <1>7
<1>9. [k \in {"available", "frozen", "control"} |-> books[k]] = Expected BY <1>4, <1>5, <1>8, Zenon
<1>10. ASSUME NEW l \in LotIds
       PROVE  LET L == books.lots[l] IN
          /\ L.granted = L.available + L.frozen + L.consumed + L.expired
          /\ {L.available, L.frozen, L.consumed, L.expired} \subseteq Nat
          /\ L.frozen = Total([h \in Holds |-> PartRest(hold[h].part[l])])
          /\ (L.expired > 0 => L.past)
 <2>1. books.lots[l] \in LotRows /\ LotOK(books.lots[l]) /\ books.lots[l].frozen = FrozenBy(hold, l)
  BY <1>1 DEF BooksOK, AssetBooks
 <2>2. books.lots[l].frozen = Total([h \in Holds |-> PartRest(hold[h].part[l])]) BY <1>2, <2>1, Zenon
 <2> QED BY <2>1, <2>2 DEF LotOK, LotRows
<1>11. \A s \in AllSources : transfer[s].reversed <= transfer[s].amount BY <1>1 DEF BooksOK, TransferOK
<1>12. books.available = Total([l \in LotIds |-> books.lots[l].available]) BY <1>1, <1>2, Zenon DEF BooksOK
<1>13. books.frozen = Total([l \in LotIds |-> books.lots[l].frozen]) BY <1>1, <1>2, Zenon DEF BooksOK
<1>14. /\ \A c \in Compensations : compensation[c].status = "issued" => transfer[c].action = "credit"
       /\ (asset = "growth" => profile = Profile(books))
 BY DEF AssetInv, CompensationOK, GrowthOK
<1> QED BY <1>9, <1>10, <1>11, <1>12, <1>13, <1>14, Zenon DEF AssetsReconcile

----------------------------------------
\* What changes in the lots changes the sums over them.
MovedBy(B, C, da, df, de) ==
    \A l \in LotIds : /\ da[l] \in Int /\ df[l] \in Int /\ de[l] \in Int
                      /\ C.lots[l].available = B.lots[l].available + da[l]
                      /\ C.lots[l].frozen = B.lots[l].frozen + df[l]
                      /\ C.lots[l].expired = B.lots[l].expired + de[l]

LEMMA LotsMove ==
    ASSUME NEW B \in AssetBooks, NEW C \in AssetBooks, NEW da, NEW df, NEW de, MovedBy(B, C, da, df, de)
    PROVE  /\ AvailableIn(C) = AvailableIn(B) + SumFunctionOnSet(da, LotIds)
           /\ FrozenIn(C) = FrozenIn(B) + SumFunctionOnSet(df, LotIds)
           /\ ExpiredIn(C) = ExpiredIn(B) + SumFunctionOnSet(de, LotIds)
<1>1. \A l \in LotIds : B.lots[l].available \in Int /\ B.lots[l].frozen \in Int /\ B.lots[l].expired \in Int
 BY DEF AssetBooks, LotRows
<1>2. AvailableIn(C) = AvailableIn(B) + SumFunctionOnSet(da, LotIds)
 <2> DEFINE f == [l \in LotIds |-> B.lots[l].available]
            h == [l \in LotIds |-> C.lots[l].available]
 <2>1. \A l \in LotIds : f[l] \in Int /\ da[l] \in Int /\ h[l] = f[l] + da[l] BY <1>1 DEF MovedBy
 <2> HIDE DEF f, h
 <2>2. SumFunctionOnSet(h, LotIds) = SumFunctionOnSet(f, LotIds) + SumFunctionOnSet(da, LotIds)
  BY <2>1, FiniteAssets, SumPlus
 <2> QED BY <2>2 DEF f, h, AvailableIn
<1>3. FrozenIn(C) = FrozenIn(B) + SumFunctionOnSet(df, LotIds)
 <2> DEFINE f == [l \in LotIds |-> B.lots[l].frozen]
            h == [l \in LotIds |-> C.lots[l].frozen]
 <2>1. \A l \in LotIds : f[l] \in Int /\ df[l] \in Int /\ h[l] = f[l] + df[l] BY <1>1 DEF MovedBy
 <2> HIDE DEF f, h
 <2>2. SumFunctionOnSet(h, LotIds) = SumFunctionOnSet(f, LotIds) + SumFunctionOnSet(df, LotIds)
  BY <2>1, FiniteAssets, SumPlus
 <2> QED BY <2>2 DEF f, h, FrozenIn
<1>4. ExpiredIn(C) = ExpiredIn(B) + SumFunctionOnSet(de, LotIds)
 <2> DEFINE f == [l \in LotIds |-> B.lots[l].expired]
            h == [l \in LotIds |-> C.lots[l].expired]
 <2>1. \A l \in LotIds : f[l] \in Int /\ de[l] \in Int /\ h[l] = f[l] + de[l] BY <1>1 DEF MovedBy
 <2> HIDE DEF f, h
 <2>2. SumFunctionOnSet(h, LotIds) = SumFunctionOnSet(f, LotIds) + SumFunctionOnSet(de, LotIds)
  BY <2>1, FiniteAssets, SumPlus
 <2> QED BY <2>2 DEF f, h, ExpiredIn
<1> QED BY <1>2, <1>3, <1>4

\* A transfer changes what was posted in all by what it posts.
LEMMA NetMoves ==
    ASSUME NEW T \in [AllSources -> TransferRows], NEW s \in AllSources, NEW r \in TransferRows
    PROVE  NetIn([T EXCEPT ![s] = r]) = NetIn(T) - NetOf(T[s]) + NetOf(r)
<1> DEFINE U == [T EXCEPT ![s] = r]
           f == [x \in AllSources |-> NetOf(T[x])]
           g == [x \in AllSources |-> NetOf(U[x])]
<1>1. \A x \in AllSources : NetOf(T[x]) \in Int BY DEF TransferRows, NetOf
<1>2. NetOf(r) \in Int BY DEF TransferRows, NetOf
<1>3. U[s] = r /\ \A x \in AllSources \ {s} : U[x] = T[x] OBVIOUS
<1> HIDE DEF U
<1>4. (\A x \in AllSources : f[x] \in Int) /\ g[s] = NetOf(r) /\ f[s] = NetOf(T[s]) /\ \A x \in AllSources \ {s} : g[x] = f[x]
 BY <1>1, <1>3
<1> HIDE DEF f, g
<1>5. SumFunctionOnSet(g, AllSources) = SumFunctionOnSet(f, AllSources) - f[s] + g[s]
 BY <1>2, <1>4, FiniteAssets, SumChange
<1> QED BY <1>4, <1>5 DEF f, g, U, NetIn

\* A change to one hold changes the sums over the holds by it.
LEMMA HoldMoves ==
    ASSUME NEW H \in [Holds -> HoldRows], \A h \in Holds : HoldOK(H[h]), NEW h \in Holds, NEW r \in HoldRows, HoldOK(r)
    PROVE  /\ RestIn([H EXCEPT ![h] = r]) = RestIn(H) - HoldRest(H[h]) + HoldRest(r)
           /\ CommittedIn([H EXCEPT ![h] = r]) = CommittedIn(H) - H[h].committed + r.committed
           /\ \A l \in LotIds : FrozenBy([H EXCEPT ![h] = r], l) =
                                   FrozenBy(H, l) - PartRest(H[h].part[l]) + PartRest(r.part[l])
<1> DEFINE U == [H EXCEPT ![h] = r]
<1>1. U[h] = r /\ \A x \in Holds \ {h} : U[x] = H[x] OBVIOUS
<1> HIDE DEF U
<1>2. \A x \in Holds : HoldRest(H[x]) \in Int /\ H[x].committed \in Int BY DEF HoldRows, HoldRest
<1>3. HoldRest(r) \in Int /\ r.committed \in Int BY DEF HoldRows, HoldRest
<1>4. RestIn(U) = RestIn(H) - HoldRest(H[h]) + HoldRest(r)
 <2> DEFINE f == [x \in Holds |-> HoldRest(H[x])]
            g == [x \in Holds |-> HoldRest(U[x])]
 <2>1. (\A x \in Holds : f[x] \in Int) /\ g[h] = HoldRest(r) /\ f[h] = HoldRest(H[h]) /\ \A x \in Holds \ {h} : g[x] = f[x]
  BY <1>1, <1>2
 <2> HIDE DEF f, g
 <2>2. SumFunctionOnSet(g, Holds) = SumFunctionOnSet(f, Holds) - f[h] + g[h]
  BY <1>3, <2>1, FiniteAssets, SumChange
 <2> QED BY <2>1, <2>2 DEF f, g, RestIn
<1>5. CommittedIn(U) = CommittedIn(H) - H[h].committed + r.committed
 <2> DEFINE f == [x \in Holds |-> H[x].committed]
            g == [x \in Holds |-> U[x].committed]
 <2>1. (\A x \in Holds : f[x] \in Int) /\ g[h] = r.committed /\ f[h] = H[h].committed /\ \A x \in Holds \ {h} : g[x] = f[x]
  BY <1>1, <1>2
 <2> HIDE DEF f, g
 <2>2. SumFunctionOnSet(g, Holds) = SumFunctionOnSet(f, Holds) - f[h] + g[h]
  BY <1>3, <2>1, FiniteAssets, SumChange
 <2> QED BY <2>1, <2>2 DEF f, g, CommittedIn
<1>6. ASSUME NEW l \in LotIds PROVE FrozenBy(U, l) = FrozenBy(H, l) - PartRest(H[h].part[l]) + PartRest(r.part[l])
 <2> DEFINE f == [x \in Holds |-> PartRest(H[x].part[l])]
            g == [x \in Holds |-> PartRest(U[x].part[l])]
 <2>0. (\A x \in Holds : PartRest(H[x].part[l]) \in Int) /\ PartRest(r.part[l]) \in Int
  BY DEF HoldRows, PartRows, PartRest
 <2>1. /\ \A x \in Holds : f[x] \in Int
       /\ g[h] = PartRest(r.part[l]) /\ f[h] = PartRest(H[h].part[l]) /\ \A x \in Holds \ {h} : g[x] = f[x]
  BY <1>1, <2>0
 <2> HIDE DEF f, g
 <2>2. SumFunctionOnSet(g, Holds) = SumFunctionOnSet(f, Holds) - f[h] + g[h]
  BY <2>0, <2>1, FiniteAssets, SumChange
 <2> QED BY <2>1, <2>2 DEF f, g, FrozenBy
<1> QED BY <1>4, <1>5, <1>6 DEF U

----------------------------------------
\* The balances follow the sums.
FollowedBy(B, T, H, C, U, K, da, df, de, dc, dn) ==
    /\ da \in Int /\ df \in Int /\ de \in Int /\ dc \in Int /\ dn \in Int /\ da + df + (dc + de - dn) = 0
    /\ C \in AssetBooks /\ U \in [AllSources -> TransferRows] /\ K \in [Holds -> HoldRows]
    /\ \A l \in LotIds : LotOK(C.lots[l]) /\ C.lots[l].frozen = FrozenBy(K, l)
    /\ \A h \in Holds : HoldOK(K[h])
    /\ \A s \in AllSources : TransferOK(U[s])
    /\ AvailableIn(C) = AvailableIn(B) + da /\ FrozenIn(C) = FrozenIn(B) + df /\ ExpiredIn(C) = ExpiredIn(B) + de
    /\ RestIn(K) = RestIn(H) + df /\ CommittedIn(K) = CommittedIn(H) + dc /\ NetIn(U) = NetIn(T) + dn
    /\ C.available = B.available + da /\ C.frozen = B.frozen + df /\ C.control = B.control + (dc + de - dn)

LEMMA BooksFollow ==
    ASSUME NEW B, NEW T, NEW H, BooksOK(B, T, H), NEW C, NEW U, NEW K,
           NEW da, NEW df, NEW de, NEW dc, NEW dn, FollowedBy(B, T, H, C, U, K, da, df, de, dc, dn)
    PROVE  BooksOK(C, U, K)
<1>0. da \in Int /\ df \in Int /\ de \in Int /\ dc \in Int /\ dn \in Int /\ da + df + (dc + de - dn) = 0
 BY DEF FollowedBy
<1>1. PICK av \in Nat, fr \in Nat, ex \in Nat, re \in Nat, co \in Nat, ne \in Int :
         /\ av = AvailableIn(B) /\ fr = FrozenIn(B) /\ ex = ExpiredIn(B)
         /\ re = RestIn(H) /\ co = CommittedIn(H) /\ ne = NetIn(T)
 BY SumsAreNumbers
<1>2. PICK a \in Nat, f \in Nat, c \in Int : a = B.available /\ f = B.frozen /\ c = B.control
 BY DEF BooksOK, AssetBooks
<1>3. a = av /\ f = fr /\ f = re /\ c = co + ex - ne /\ a + f + c = 0 BY <1>1, <1>2 DEF BooksOK
<1>4. /\ C.available = a + da /\ C.frozen = f + df /\ C.control = c + (dc + de - dn)
      /\ AvailableIn(C) = av + da /\ FrozenIn(C) = fr + df /\ ExpiredIn(C) = ex + de
      /\ RestIn(K) = re + df /\ CommittedIn(K) = co + dc /\ NetIn(U) = ne + dn
 BY <1>1, <1>2 DEF FollowedBy
<1>5. c + (dc + de - dn) = (co + dc) + (ex + de) - (ne + dn) /\ (a + da) + (f + df) + (c + (dc + de - dn)) = 0
 BY <1>0, <1>3
<1>6. C.available = AvailableIn(C) /\ C.frozen = FrozenIn(C) /\ C.frozen = RestIn(K) BY <1>3, <1>4
<1>7. C.control = CommittedIn(K) + ExpiredIn(C) - NetIn(U) /\ C.available + C.frozen + C.control = 0
 BY <1>4, <1>5
<1> QED BY <1>6, <1>7 DEF BooksOK, FollowedBy

LEMMA NothingInParts ==
    ASSUME NEW a \in Nat, NEW b \in Nat, NEW c \in Nat, NEW d \in Nat, NEW n, n = 0, n = a + b + c + d
    PROVE  a = 0 /\ b = 0 /\ c = 0 /\ d = 0
OBVIOUS

\* A new lot of an amount, for a credit or the reversal of a debit.
LEMMA CreditKeeps ==
    ASSUME NEW B, NEW T, NEW H, BooksOK(B, T, H), NEW k \in LotIds, B.lots[k].granted = 0, NEW a \in Nat,
           NEW dated \in BOOLEAN, NEW L, L = [NoLot EXCEPT !.granted = a, !.available = a, !.dated = dated],
           NEW av, av = B.available + a, NEW ct, ct = B.control - a,
           NEW C, C = [B EXCEPT !.available = av, !.control = ct, !.lots[k] = L],
           NEW s \in AllSources, NEW r \in TransferRows, TransferOK(r), NetOf(r) = NetOf(T[s]) + a
    PROVE  BooksOK(C, [T EXCEPT ![s] = r], H)
<1>0. B \in AssetBooks /\ T \in [AllSources -> TransferRows] /\ H \in [Holds -> HoldRows] BY DEF BooksOK
<1>1. /\ L \in LotRows /\ L.granted = a /\ L.available = a /\ L.frozen = 0 /\ L.consumed = 0 /\ L.expired = 0
      /\ L.past = FALSE /\ L.dated = dated
 BY DEF NoLot, LotRows
<1>2. B.lots[k] \in LotRows /\ LotOK(B.lots[k]) /\ B.lots[k].frozen = FrozenBy(H, k)
 BY DEF BooksOK, AssetBooks
<1>3. B.lots[k].available = 0 /\ B.lots[k].frozen = 0 /\ B.lots[k].expired = 0
 <2>1. PICK R \in LotRows : R = B.lots[k] BY <1>2
 <2>2. /\ R.granted \in Nat /\ R.available \in Nat /\ R.frozen \in Nat /\ R.consumed \in Nat /\ R.expired \in Nat
       /\ R.granted = 0 /\ R.granted = R.available + R.frozen + R.consumed + R.expired
  BY <1>2, <2>1 DEF LotOK, LotRows
 <2>3. R.available = 0 /\ R.frozen = 0 /\ R.expired = 0 BY <2>2, NothingInParts
 <2> QED BY <2>1, <2>3
<1>4. av \in Nat /\ ct \in Int BY <1>0 DEF AssetBooks
<1>5. /\ C \in AssetBooks /\ C.available = av /\ C.frozen = B.frozen /\ C.control = ct
      /\ C.lots[k] = L /\ \A l \in LotIds \ {k} : C.lots[l] = B.lots[l]
 BY <1>0, <1>1, <1>4 DEF AssetBooks
<1> DEFINE da == [l \in LotIds |-> IF l = k THEN a ELSE 0]
           zero == [l \in LotIds |-> 0]
<1>6. \A l \in LotIds : /\ da[l] \in Int /\ zero[l] \in Int /\ zero[l] \in Int
                        /\ C.lots[l].available = B.lots[l].available + da[l]
                        /\ C.lots[l].frozen = B.lots[l].frozen + zero[l]
                        /\ C.lots[l].expired = B.lots[l].expired + zero[l]
 <2>1. \A l \in LotIds : B.lots[l].available \in Nat /\ B.lots[l].frozen \in Nat /\ B.lots[l].expired \in Nat
  BY <1>0 DEF AssetBooks, LotRows
 <2> SUFFICES ASSUME NEW l \in LotIds
              PROVE  /\ da[l] \in Int /\ zero[l] \in Int /\ zero[l] \in Int
                     /\ C.lots[l].available = B.lots[l].available + da[l]
                     /\ C.lots[l].frozen = B.lots[l].frozen + zero[l]
                     /\ C.lots[l].expired = B.lots[l].expired + zero[l]
  OBVIOUS
 <2>2. CASE l = k
  <3>1. da[l] = a /\ zero[l] = 0 BY <2>2
  <3>2. C.lots[l].available = a /\ C.lots[l].frozen = 0 /\ C.lots[l].expired = 0 BY <1>1, <1>5, <2>2
  <3>3. B.lots[l].available = 0 /\ B.lots[l].frozen = 0 /\ B.lots[l].expired = 0 BY <1>3, <2>2
  <3> HIDE DEF da, zero
  <3> QED BY <3>1, <3>2, <3>3
 <2>3. CASE l # k
  BY <1>5, <2>1, <2>3
 <2> QED BY <2>2, <2>3
<1>7. SumFunctionOnSet(da, LotIds) = a /\ SumFunctionOnSet(zero, LotIds) = 0
 <2>1. \A l \in LotIds : zero[l] = 0 OBVIOUS
 <2>2. SumFunctionOnSet(zero, LotIds) = 0
  <3> HIDE DEF zero
  <3> QED BY <2>1, FiniteAssets, SumZero
 <2>3. (\A l \in LotIds : zero[l] \in Int) /\ da[k] = a /\ zero[k] = 0 /\ \A l \in LotIds \ {k} : da[l] = zero[l]
  OBVIOUS
 <2>4. SumFunctionOnSet(da, LotIds) = SumFunctionOnSet(zero, LotIds) - zero[k] + da[k]
  <3> HIDE DEF zero, da
  <3> QED BY <2>3, FiniteAssets, SumChange
 <2> HIDE DEF zero, da
 <2> QED BY <2>2, <2>3, <2>4
<1> HIDE DEF da, zero
<1>8. /\ AvailableIn(C) = AvailableIn(B) + SumFunctionOnSet(da, LotIds)
      /\ FrozenIn(C) = FrozenIn(B) + SumFunctionOnSet(zero, LotIds)
      /\ ExpiredIn(C) = ExpiredIn(B) + SumFunctionOnSet(zero, LotIds)
 <2>1. MovedBy(B, C, da, zero, zero) BY <1>6 DEF MovedBy
 <2> QED BY <1>0, <1>5, <2>1, LotsMove
<1>9. NetIn([T EXCEPT ![s] = r]) = NetIn(T) + a
 <2>1. NetIn([T EXCEPT ![s] = r]) = NetIn(T) - NetOf(T[s]) + NetOf(r) BY <1>0, NetMoves
 <2>2. PICK m \in Int, n \in Int : m = NetIn(T) /\ n = NetOf(T[s])
  BY <1>0, SumsAreNumbers DEF TransferRows, NetOf
 <2>3. NetIn([T EXCEPT ![s] = r]) = m - n + (n + a) BY <2>1, <2>2
 <2> QED BY <2>2, <2>3
<1>10. RestIn(H) = RestIn(H) + 0 /\ CommittedIn(H) = CommittedIn(H) + 0 BY SumsAreNumbers
<1>11. \A l \in LotIds : LotOK(C.lots[l]) /\ C.lots[l].frozen = FrozenBy(H, l)
 BY <1>1, <1>2, <1>3, <1>5 DEF LotOK, BooksOK
<1>12. [T EXCEPT ![s] = r] \in [AllSources -> TransferRows] /\ \A x \in AllSources : TransferOK([T EXCEPT ![s] = r][x])
 BY <1>0 DEF BooksOK
<1>13. C.available = B.available + a /\ C.frozen = B.frozen + 0 /\ C.control = B.control + (0 + 0 - a)
 BY <1>0, <1>5 DEF AssetBooks
<1>14. a + 0 + (0 + 0 - a) = 0 /\ a \in Int OBVIOUS
<1>15. \A h \in Holds : HoldOK(H[h]) BY DEF BooksOK
<1>16. AvailableIn(C) = AvailableIn(B) + a /\ FrozenIn(C) = FrozenIn(B) + 0 /\ ExpiredIn(C) = ExpiredIn(B) + 0
 BY <1>7, <1>8
<1>17. FollowedBy(B, T, H, C, [T EXCEPT ![s] = r], H, a, 0, 0, 0, a)
 BY <1>0, <1>5, <1>9, <1>10, <1>11, <1>12, <1>13, <1>14, <1>15, <1>16 DEF FollowedBy
<1> QED BY <1>17, BooksFollow

\* What a lot gives is used up, or frozen.
LotGiven(R, g) == [R EXCEPT !.available = @ - g, !.consumed = @ + g]

LEMMA LotGives ==
    ASSUME NEW R \in LotRows, LotOK(R), NEW g \in Nat, g <= R.available
    PROVE  /\ LotGiven(R, g) \in LotRows /\ LotOK(LotGiven(R, g)) /\ LotGiven(R, g).available = R.available - g
           /\ LotGiven(R, g).frozen = R.frozen /\ LotGiven(R, g).expired = R.expired
           /\ LotGiven(R, g).dated = R.dated
<1>1. PICK x \in Nat, y \in Nat : x = R.available - g /\ y = R.consumed + g BY DEF LotRows
<1>2. PICK M : M = [R EXCEPT !.available = x, !.consumed = y] OBVIOUS
<1>3. /\ M \in LotRows /\ M.granted = R.granted /\ M.available = x /\ M.consumed = y /\ M.frozen = R.frozen
      /\ M.expired = R.expired /\ M.dated = R.dated /\ M.past = R.past
 BY <1>2 DEF LotRows
<1>4. LotOK(M)
 <2>1. R.granted \in Nat /\ R.available \in Nat /\ R.frozen \in Nat /\ R.consumed \in Nat /\ R.expired \in Nat
  BY DEF LotRows
 <2>2. M.granted = M.available + M.frozen + M.consumed + M.expired BY <1>1, <1>3, <2>1 DEF LotOK
 <2> QED BY <1>3, <2>2 DEF LotOK
<1>5. LotGiven(R, g) = M BY <1>1, <1>2, Zenon DEF LotGiven
<1> QED BY <1>1, <1>3, <1>4, <1>5, Zenon

LotFrozen(R, g) == [R EXCEPT !.available = @ - g, !.frozen = @ + g]

LEMMA LotFreezes ==
    ASSUME NEW R \in LotRows, LotOK(R), NEW g \in Nat, g <= R.available
    PROVE  /\ LotFrozen(R, g) \in LotRows /\ LotOK(LotFrozen(R, g)) /\ LotFrozen(R, g).available = R.available - g
           /\ LotFrozen(R, g).frozen = R.frozen + g /\ LotFrozen(R, g).expired = R.expired
<1>1. PICK x \in Nat, y \in Nat : x = R.available - g /\ y = R.frozen + g BY DEF LotRows
<1>2. PICK M : M = [R EXCEPT !.available = x, !.frozen = y] OBVIOUS
<1>3. /\ M \in LotRows /\ M.granted = R.granted /\ M.available = x /\ M.consumed = R.consumed /\ M.frozen = y
      /\ M.expired = R.expired /\ M.dated = R.dated /\ M.past = R.past
 BY <1>2 DEF LotRows
<1>4. LotOK(M)
 <2>1. R.granted \in Nat /\ R.available \in Nat /\ R.frozen \in Nat /\ R.consumed \in Nat /\ R.expired \in Nat
  BY DEF LotRows
 <2>2. M.granted = M.available + M.frozen + M.consumed + M.expired BY <1>1, <1>3, <2>1 DEF LotOK
 <2> QED BY <1>3, <2>2 DEF LotOK
<1>5. LotFrozen(R, g) = M BY <1>1, <1>2, Zenon DEF LotFrozen
<1> QED BY <1>1, <1>3, <1>4, <1>5, Zenon

\* What is given is taken off the sums.
LEMMA SumOfNegatives ==
    ASSUME NEW S, IsFiniteSet(S), NEW give, \A l \in S : give[l] \in Int
    PROVE  SumFunctionOnSet([l \in S |-> 0 - give[l]], S) = 0 - SumFunctionOnSet(give, S)
<1> DEFINE neg == [l \in S |-> 0 - give[l]]
           zero == [l \in S |-> 0]
<1>1. \A l \in S : neg[l] \in Int /\ give[l] \in Int /\ zero[l] = neg[l] + give[l] OBVIOUS
<1>2. \A l \in S : zero[l] = 0 OBVIOUS
<1> HIDE DEF neg, zero
<1>3. SumFunctionOnSet(zero, S) = 0 BY <1>2, SumZero
<1>4. SumFunctionOnSet(zero, S) = SumFunctionOnSet(neg, S) + SumFunctionOnSet(give, S) BY <1>1, SumPlus
<1>5. PICK m \in Int, n \in Int : m = SumFunctionOnSet(neg, S) /\ n = SumFunctionOnSet(give, S)
 <2>1. SumFunctionOnSet(neg, S) \in Int BY <1>1, SumType
 <2>2. SumFunctionOnSet(give, S) \in Int BY SumType
 <2> QED BY <2>1, <2>2
<1>6. m = 0 - n BY <1>3, <1>4, <1>5
<1> QED BY <1>5, <1>6 DEF neg

\* The lots of B after each has given its share.
Given(B, give) == [l \in LotIds |-> [B.lots[l] EXCEPT !.available = @ - give[l], !.consumed = @ + give[l]]]

DebitDone(B, C, U, H) == BooksOK(C, U, H) /\ \A l \in LotIds : C.lots[l].dated = B.lots[l].dated

IsDebit(B, T, a, give, L, av, ct, C, s, r) ==
    /\ a \in Nat /\ a <= B.available /\ \A l \in LotIds : give[l] \in Nat /\ give[l] <= B.lots[l].available
    /\ SumFunctionOnSet(give, LotIds) = a /\ L = Given(B, give) /\ av = B.available - a /\ ct = B.control + a
    /\ C = [B EXCEPT !.available = av, !.control = ct, !.lots = L]
    /\ s \in AllSources /\ r \in TransferRows /\ TransferOK(r) /\ NetOf(r) = NetOf(T[s]) - a

\* Taking an amount from the lots, for a debit or the reversal of a credit.
LEMMA DebitKeeps ==
    ASSUME NEW B, NEW T, NEW H, BooksOK(B, T, H), NEW a, NEW give, NEW L, NEW av, NEW ct, NEW C, NEW s, NEW r,
           IsDebit(B, T, a, give, L, av, ct, C, s, r)
    PROVE  DebitDone(B, C, [T EXCEPT ![s] = r], H)
<1> /\ a \in Nat /\ a <= B.available /\ \A l \in LotIds : give[l] \in Nat /\ give[l] <= B.lots[l].available
    /\ SumFunctionOnSet(give, LotIds) = a /\ L = Given(B, give) /\ av = B.available - a /\ ct = B.control + a
    /\ C = [B EXCEPT !.available = av, !.control = ct, !.lots = L]
    /\ s \in AllSources /\ r \in TransferRows /\ TransferOK(r) /\ NetOf(r) = NetOf(T[s]) - a
 BY Zenon DEF IsDebit
<1>0. B \in AssetBooks /\ T \in [AllSources -> TransferRows] /\ H \in [Holds -> HoldRows] BY DEF BooksOK
<1>1. \A l \in LotIds : B.lots[l] \in LotRows /\ LotOK(B.lots[l]) /\ B.lots[l].frozen = FrozenBy(H, l)
 BY DEF BooksOK, AssetBooks
<1>2. ASSUME NEW l \in LotIds
      PROVE  /\ L[l] \in LotRows /\ LotOK(L[l]) /\ L[l].available = B.lots[l].available - give[l]
             /\ L[l].frozen = B.lots[l].frozen /\ L[l].expired = B.lots[l].expired /\ L[l].dated = B.lots[l].dated
 <2>1. PICK R \in LotRows, g \in Nat : R = B.lots[l] /\ g = give[l] /\ LotOK(R) /\ g <= R.available BY <1>1
 <2>2. L[l] = LotGiven(R, g) BY <2>1, Zenon DEF Given, LotGiven
 <2> QED BY <2>1, <2>2, LotGives
<1>3. L \in [LotIds -> LotRows]
 <2>1. L = [l \in LotIds |-> L[l]] BY Zenon DEF Given
 <2> QED BY <1>2, <2>1
<1>4. av \in Nat /\ ct \in Int BY <1>0 DEF AssetBooks
<1>5. C \in AssetBooks /\ C.available = av /\ C.frozen = B.frozen /\ C.control = ct /\ C.lots = L
 BY <1>0, <1>3, <1>4 DEF AssetBooks
<1> DEFINE da == [l \in LotIds |-> 0 - give[l]]
           zero == [l \in LotIds |-> 0]
<1>6. MovedBy(B, C, da, zero, zero)
 <2>1. \A l \in LotIds : B.lots[l].available \in Nat /\ B.lots[l].frozen \in Nat /\ B.lots[l].expired \in Nat
  BY <1>1 DEF LotRows
 <2>2. \A l \in LotIds : da[l] = 0 - give[l] /\ zero[l] = 0 OBVIOUS
 <2> HIDE DEF da, zero
 <2> QED BY <1>2, <1>5, <2>1, <2>2 DEF MovedBy
<1>7. SumFunctionOnSet(da, LotIds) = 0 - a /\ SumFunctionOnSet(zero, LotIds) = 0
 <2>1. \A l \in LotIds : zero[l] = 0 OBVIOUS
 <2>2. SumFunctionOnSet(zero, LotIds) = 0
  <3> HIDE DEF zero
  <3> QED BY <2>1, FiniteAssets, SumZero
 <2>3. SumFunctionOnSet(da, LotIds) = 0 - SumFunctionOnSet(give, LotIds) BY FiniteAssets, SumOfNegatives
 <2> HIDE DEF zero, da
 <2> QED BY <2>2, <2>3
<1> HIDE DEF da, zero
<1>8. AvailableIn(C) = AvailableIn(B) + (0 - a) /\ FrozenIn(C) = FrozenIn(B) + 0 /\ ExpiredIn(C) = ExpiredIn(B) + 0
 <2>1. /\ AvailableIn(C) = AvailableIn(B) + SumFunctionOnSet(da, LotIds)
       /\ FrozenIn(C) = FrozenIn(B) + SumFunctionOnSet(zero, LotIds)
       /\ ExpiredIn(C) = ExpiredIn(B) + SumFunctionOnSet(zero, LotIds)
  BY <1>0, <1>5, <1>6, LotsMove
 <2> QED BY <1>7, <2>1
<1>9. NetIn([T EXCEPT ![s] = r]) = NetIn(T) + (0 - a)
 <2>1. NetIn([T EXCEPT ![s] = r]) = NetIn(T) - NetOf(T[s]) + NetOf(r) BY <1>0, NetMoves
 <2>2. PICK m \in Int, n \in Int : m = NetIn(T) /\ n = NetOf(T[s])
  BY <1>0, SumsAreNumbers DEF TransferRows, NetOf
 <2>3. NetIn([T EXCEPT ![s] = r]) = m - n + (n - a) BY <2>1, <2>2
 <2> QED BY <2>2, <2>3
<1>10. RestIn(H) = RestIn(H) + 0 /\ CommittedIn(H) = CommittedIn(H) + 0 BY SumsAreNumbers
<1>11. \A l \in LotIds : LotOK(C.lots[l]) /\ C.lots[l].frozen = FrozenBy(H, l) BY <1>1, <1>2, <1>5
<1>12. [T EXCEPT ![s] = r] \in [AllSources -> TransferRows] /\ \A x \in AllSources : TransferOK([T EXCEPT ![s] = r][x])
 BY <1>0 DEF BooksOK
<1>13. C.available = B.available + (0 - a) /\ C.frozen = B.frozen + 0 /\ C.control = B.control + (0 + 0 - (0 - a))
 BY <1>0, <1>5 DEF AssetBooks
<1>14. PICK b \in Int : b = 0 - a /\ b + 0 + (0 + 0 - b) = 0 OBVIOUS
<1>15. \A h \in Holds : HoldOK(H[h]) BY DEF BooksOK
<1>16. FollowedBy(B, T, H, C, [T EXCEPT ![s] = r], H, b, 0, 0, 0, b)
 BY <1>0, <1>5, <1>8, <1>9, <1>10, <1>11, <1>12, <1>13, <1>14, <1>15 DEF FollowedBy
<1>17. BooksOK(C, [T EXCEPT ![s] = r], H) BY <1>16, BooksFollow
<1> QED BY <1>2, <1>5, <1>17 DEF DebitDone

----------------------------------------
\* The lots of B after each has frozen its share.
Froze(B, give) == [l \in LotIds |-> [B.lots[l] EXCEPT !.available = @ - give[l], !.frozen = @ + give[l]]]

\* A new hold over the lots.
NewHold(a, give) ==
    [NoHold EXCEPT !.status = "active", !.original = a,
                   !.part = [l \in LotIds |-> [NoPart EXCEPT !.amount = give[l]]]]

LEMMA NewHoldFacts ==
    ASSUME NEW a \in Nat, NEW give, \A l \in LotIds : give[l] \in Nat, SumFunctionOnSet(give, LotIds) = a
    PROVE  /\ NewHold(a, give) \in HoldRows /\ HoldOK(NewHold(a, give))
           /\ HoldRest(NewHold(a, give)) = a /\ NewHold(a, give).committed = 0 /\ NewHold(a, give).status = "active"
           /\ \A l \in LotIds : PartRest(NewHold(a, give).part[l]) = give[l]
<1>1. PICK P : P = [l \in LotIds |-> [NoPart EXCEPT !.amount = give[l]]] OBVIOUS
<1>2. ASSUME NEW l \in LotIds
      PROVE  P[l] \in PartRows /\ P[l].amount = give[l] /\ P[l].committed = 0 /\ P[l].released = 0
 <2>1. PICK g \in Nat : g = give[l] OBVIOUS
 <2>2. P[l] = [NoPart EXCEPT !.amount = g] BY <1>1, <2>1, Zenon
 <2> QED BY <2>1, <2>2 DEF NoPart, PartRows
<1>3. P \in [LotIds -> PartRows]
 <2>1. P = [l \in LotIds |-> P[l]] BY <1>1, Zenon
 <2> QED BY <1>2, <2>1
<1>4. PICK r : r = [NoHold EXCEPT !.status = "active", !.original = a, !.part = P] OBVIOUS
<1>5. r = NewHold(a, give) BY <1>1, <1>4, Zenon DEF NewHold
<1>6. /\ r \in HoldRows /\ r.status = "active" /\ r.original = a /\ r.committed = 0 /\ r.released = 0 /\ r.part = P
 BY <1>3, <1>4 DEF NoHold, HoldRows
<1>7. HoldRest(r) = a BY <1>6 DEF HoldRest
<1>8. \A l \in LotIds : PartRest(r.part[l]) = give[l] BY <1>2, <1>6 DEF PartRest
<1>9. RestOfParts(r) = a
 <2> DEFINE f == [l \in LotIds |-> PartRest(r.part[l])]
 <2>1. \A l \in LotIds : f[l] = give[l] BY <1>8
 <2> HIDE DEF f
 <2>2. SumFunctionOnSet(f, LotIds) = SumFunctionOnSet(give, LotIds) BY <2>1, FiniteAssets, SumSame
 <2> QED BY <2>2 DEF f, RestOfParts
<1>10. HoldOK(r) BY <1>2, <1>6, <1>7, <1>9 DEF HoldOK
<1> QED BY <1>5, <1>6, <1>7, <1>8, <1>10

LEMMA NoHoldFacts ==
    /\ NoHold \in HoldRows /\ HoldRest(NoHold) = 0 /\ NoHold.committed = 0
    /\ \A l \in LotIds : PartRest(NoHold.part[l]) = 0
BY DEF NoHold, HoldRows, NoPart, PartRows, HoldRest, PartRest

IsFreeze(B, H, a, give, L, av, fr, C, h, r) ==
    /\ a \in Nat /\ a <= B.available /\ \A l \in LotIds : give[l] \in Nat /\ give[l] <= B.lots[l].available
    /\ SumFunctionOnSet(give, LotIds) = a /\ L = Froze(B, give) /\ av = B.available - a /\ fr = B.frozen + a
    /\ C = [B EXCEPT !.available = av, !.frozen = fr, !.lots = L]
    /\ h \in Holds /\ H[h].status = "none" /\ r = NewHold(a, give)

LEMMA FreezeKeeps ==
    ASSUME NEW B, NEW T, NEW H, BooksOK(B, T, H), NEW a, NEW give, NEW L, NEW av, NEW fr, NEW C, NEW h, NEW r,
           IsFreeze(B, H, a, give, L, av, fr, C, h, r)
    PROVE  BooksOK(C, T, [H EXCEPT ![h] = r])
<1> /\ a \in Nat /\ a <= B.available /\ \A l \in LotIds : give[l] \in Nat /\ give[l] <= B.lots[l].available
    /\ SumFunctionOnSet(give, LotIds) = a /\ L = Froze(B, give) /\ av = B.available - a /\ fr = B.frozen + a
    /\ C = [B EXCEPT !.available = av, !.frozen = fr, !.lots = L]
    /\ h \in Holds /\ H[h].status = "none" /\ r = NewHold(a, give)
 BY Zenon DEF IsFreeze
<1>0. B \in AssetBooks /\ T \in [AllSources -> TransferRows] /\ H \in [Holds -> HoldRows] BY DEF BooksOK
<1>1. \A l \in LotIds : B.lots[l] \in LotRows /\ LotOK(B.lots[l]) /\ B.lots[l].frozen = FrozenBy(H, l)
 BY DEF BooksOK, AssetBooks
<1>2. ASSUME NEW l \in LotIds
      PROVE  /\ L[l] \in LotRows /\ LotOK(L[l]) /\ L[l].available = B.lots[l].available - give[l]
             /\ L[l].frozen = B.lots[l].frozen + give[l] /\ L[l].expired = B.lots[l].expired
 <2>1. PICK R \in LotRows, g \in Nat : R = B.lots[l] /\ g = give[l] /\ LotOK(R) /\ g <= R.available BY <1>1
 <2>2. L[l] = LotFrozen(R, g) BY <2>1, Zenon DEF Froze, LotFrozen
 <2> QED BY <2>1, <2>2, LotFreezes
<1>3. L \in [LotIds -> LotRows]
 <2>1. L = [l \in LotIds |-> L[l]] BY Zenon DEF Froze
 <2> QED BY <1>2, <2>1
<1>4. av \in Nat /\ fr \in Nat BY <1>0 DEF AssetBooks
<1>5. C \in AssetBooks /\ C.available = av /\ C.frozen = fr /\ C.control = B.control /\ C.lots = L
 BY <1>0, <1>3, <1>4 DEF AssetBooks
<1> DEFINE da == [l \in LotIds |-> 0 - give[l]]
           zero == [l \in LotIds |-> 0]
<1>6. MovedBy(B, C, da, give, zero)
 <2>1. \A l \in LotIds : B.lots[l].available \in Nat /\ B.lots[l].frozen \in Nat /\ B.lots[l].expired \in Nat
  BY <1>1 DEF LotRows
 <2>2. \A l \in LotIds : da[l] = 0 - give[l] /\ zero[l] = 0 OBVIOUS
 <2> HIDE DEF da, zero
 <2> QED BY <1>2, <1>5, <2>1, <2>2 DEF MovedBy
<1>7. SumFunctionOnSet(da, LotIds) = 0 - a /\ SumFunctionOnSet(zero, LotIds) = 0
 <2>1. \A l \in LotIds : zero[l] = 0 OBVIOUS
 <2>2. SumFunctionOnSet(zero, LotIds) = 0
  <3> HIDE DEF zero
  <3> QED BY <2>1, FiniteAssets, SumZero
 <2>3. SumFunctionOnSet(da, LotIds) = 0 - SumFunctionOnSet(give, LotIds) BY FiniteAssets, SumOfNegatives
 <2> HIDE DEF zero, da
 <2> QED BY <2>2, <2>3
<1> HIDE DEF da, zero
<1>8. AvailableIn(C) = AvailableIn(B) + (0 - a) /\ FrozenIn(C) = FrozenIn(B) + a /\ ExpiredIn(C) = ExpiredIn(B) + 0
 <2>1. /\ AvailableIn(C) = AvailableIn(B) + SumFunctionOnSet(da, LotIds)
       /\ FrozenIn(C) = FrozenIn(B) + SumFunctionOnSet(give, LotIds)
       /\ ExpiredIn(C) = ExpiredIn(B) + SumFunctionOnSet(zero, LotIds)
  BY <1>0, <1>5, <1>6, LotsMove
 <2> QED BY <1>7, <2>1
<1>9. /\ r \in HoldRows /\ HoldOK(r) /\ HoldRest(r) = a /\ r.committed = 0 /\ r.status = "active"
      /\ \A l \in LotIds : PartRest(r.part[l]) = give[l]
 BY NewHoldFacts
<1>10. H[h] = NoHold /\ \A x \in Holds : HoldOK(H[x]) BY DEF BooksOK, HoldOK
<1> DEFINE K == [H EXCEPT ![h] = r]
<1>11. /\ RestIn(K) = RestIn(H) - HoldRest(H[h]) + HoldRest(r)
       /\ CommittedIn(K) = CommittedIn(H) - H[h].committed + r.committed
       /\ \A l \in LotIds : FrozenBy(K, l) = FrozenBy(H, l) - PartRest(H[h].part[l]) + PartRest(r.part[l])
 BY <1>0, <1>9, <1>10, HoldMoves
<1>12. K \in [Holds -> HoldRows] /\ \A x \in Holds : HoldOK(K[x]) BY <1>0, <1>9, <1>10
<1> HIDE DEF K
<1>13. PICK re \in Nat, co \in Nat : re = RestIn(H) /\ co = CommittedIn(H) BY SumsAreNumbers
<1>14. RestIn(K) = RestIn(H) + a /\ CommittedIn(K) = CommittedIn(H) + 0
 <2>1. RestIn(K) = re - 0 + a /\ CommittedIn(K) = co - 0 + 0 BY <1>9, <1>10, <1>11, <1>13, NoHoldFacts
 <2> QED BY <1>13, <2>1
<1>15. \A l \in LotIds : LotOK(C.lots[l]) /\ C.lots[l].frozen = FrozenBy(K, l)
 <2> SUFFICES ASSUME NEW l \in LotIds PROVE LotOK(C.lots[l]) /\ C.lots[l].frozen = FrozenBy(K, l)
  OBVIOUS
 <2>1. PICK n \in Nat, g \in Nat : n = FrozenBy(H, l) /\ g = give[l] BY SumsAreNumbers
 <2>2. FrozenBy(K, l) = n - 0 + g BY <1>9, <1>10, <1>11, <2>1, NoHoldFacts
 <2>3. C.lots[l].frozen = n + g BY <1>1, <1>2, <1>5, <2>1
 <2> QED BY <1>2, <1>5, <2>2, <2>3
<1>16. NetIn(T) = NetIn(T) + 0 /\ \A x \in AllSources : TransferOK(T[x])
 <2>1. NetIn(T) \in Int BY SumsAreNumbers
 <2>2. NetIn(T) = NetIn(T) + 0 BY <2>1
 <2>3. \A x \in AllSources : TransferOK(T[x]) BY DEF BooksOK
 <2> QED BY <2>2, <2>3
<1>17. PICK b \in Int : b = 0 - a /\ b + a + (0 + 0 - 0) = 0 OBVIOUS
<1>18. C.available = B.available + b /\ C.frozen = B.frozen + a /\ C.control = B.control + (0 + 0 - 0)
 BY <1>0, <1>5, <1>17 DEF AssetBooks
<1>19. FollowedBy(B, T, H, C, T, K, b, a, 0, 0, 0)
 BY <1>0, <1>5, <1>8, <1>12, <1>14, <1>15, <1>16, <1>17, <1>18 DEF FollowedBy
<1>20. BooksOK(C, T, K) BY <1>19, BooksFollow
<1> QED BY <1>20 DEF K

----------------------------------------
\* A lot after a hold gave up u of it: committed, come back, or gone with its date.
LotApplied(R, u, good, commit) ==
    [R EXCEPT !.frozen = @ - u,
              !.available = IF good THEN @ + u ELSE @,
              !.consumed = IF commit THEN @ + u ELSE @,
              !.expired = IF commit \/ good THEN @ ELSE @ + u]

LEMMA LotApplies ==
    ASSUME NEW R \in LotRows, LotOK(R), NEW u \in Nat, u <= R.frozen, NEW good \in BOOLEAN, NEW commit \in BOOLEAN,
           commit => ~good, commit \/ good \/ R.past
    PROVE  /\ LotApplied(R, u, good, commit) \in LotRows /\ LotOK(LotApplied(R, u, good, commit))
           /\ LotApplied(R, u, good, commit).frozen = R.frozen - u
           /\ LotApplied(R, u, good, commit).available = R.available + (IF good THEN u ELSE 0)
           /\ LotApplied(R, u, good, commit).expired = R.expired + (IF commit \/ good THEN 0 ELSE u)
<1>0. R.granted \in Nat /\ R.available \in Nat /\ R.frozen \in Nat /\ R.consumed \in Nat /\ R.expired \in Nat
 BY DEF LotRows
<1>1. PICK f \in Nat, x \in Nat, y \in Nat, z \in Nat :
         /\ f = R.frozen - u
         /\ x = (IF good THEN R.available + u ELSE R.available)
         /\ y = (IF commit THEN R.consumed + u ELSE R.consumed)
         /\ z = (IF commit \/ good THEN R.expired ELSE R.expired + u)
 BY <1>0
<1>2. PICK M : M = [R EXCEPT !.frozen = f, !.available = x, !.consumed = y, !.expired = z] OBVIOUS
<1>3. /\ M \in LotRows /\ M.granted = R.granted /\ M.available = x /\ M.consumed = y /\ M.frozen = f
      /\ M.expired = z /\ M.dated = R.dated /\ M.past = R.past
 BY <1>2 DEF LotRows
<1>4. LotOK(M)
 <2>0. R.granted = R.available + R.frozen + R.consumed + R.expired BY DEF LotOK
 <2>1. R.granted = f + x + y + z
  <3>1. CASE commit
   BY <1>0, <1>1, <2>0, <3>1
  <3>2. CASE ~commit /\ good
   <4>1. x = R.available + u /\ y = R.consumed /\ z = R.expired BY <1>1, <3>2
   <4> QED BY <1>0, <1>1, <2>0, <4>1
  <3>3. CASE ~commit /\ ~good
   BY <1>0, <1>1, <2>0, <3>3
  <3> QED BY <3>1, <3>2, <3>3
 <2>2. M.granted = M.available + M.frozen + M.consumed + M.expired BY <1>3, <2>1
 <2>3. z > 0 => R.past BY <1>0, <1>1 DEF LotOK
 <2> QED BY <1>3, <2>2, <2>3 DEF LotOK
<1>5. LotApplied(R, u, good, commit) = M BY <1>1, <1>2, Zenon DEF LotApplied
<1>6. x = R.available + (IF good THEN u ELSE 0) /\ z = R.expired + (IF commit \/ good THEN 0 ELSE u)
 BY <1>0, <1>1
<1> QED BY <1>1, <1>3, <1>4, <1>5, <1>6

\* The lots of B after a hold gave up its share of each.
Applied(B, use, returned, commit) ==
    [l \in LotIds |->
       [B.lots[l] EXCEPT !.frozen = @ - use[l],
                         !.available = IF l \in returned THEN @ + use[l] ELSE @,
                         !.consumed = IF commit THEN @ + use[l] ELSE @,
                         !.expired = IF commit \/ l \in returned THEN @ ELSE @ + use[l]]]

\* The hold after that.
PartApplied(P, u, commit) ==
    [P EXCEPT !.committed = IF commit THEN @ + u ELSE @, !.released = IF commit THEN @ ELSE @ + u]

LEMMA PartApplies ==
    ASSUME NEW P \in PartRows, NEW u \in Nat, P.committed + P.released <= P.amount, u <= PartRest(P),
           NEW commit \in BOOLEAN
    PROVE  /\ PartApplied(P, u, commit) \in PartRows
           /\ PartApplied(P, u, commit).committed + PartApplied(P, u, commit).released <= PartApplied(P, u, commit).amount
           /\ PartRest(PartApplied(P, u, commit)) = PartRest(P) - u
<1>0. P.amount \in Nat /\ P.committed \in Nat /\ P.released \in Nat BY DEF PartRows
<1>1. PICK x \in Nat, y \in Nat : /\ x = (IF commit THEN P.committed + u ELSE P.committed)
                                  /\ y = (IF commit THEN P.released ELSE P.released + u)
 BY <1>0
<1>2. PICK M : M = [P EXCEPT !.committed = x, !.released = y] OBVIOUS
<1>3. M \in PartRows /\ M.amount = P.amount /\ M.committed = x /\ M.released = y BY <1>2 DEF PartRows
<1>4. PartApplied(P, u, commit) = M BY <1>1, <1>2, Zenon DEF PartApplied
<1>5. x + y = P.committed + P.released + u BY <1>0, <1>1
<1>6. M.committed + M.released <= M.amount /\ PartRest(M) = PartRest(P) - u BY <1>0, <1>3, <1>5 DEF PartRest
<1> QED BY <1>3, <1>4, <1>6, Zenon

HoldApplied(R, use, a, commit) ==
    [R EXCEPT !.committed = IF commit THEN @ + a ELSE @,
              !.released = IF commit THEN @ ELSE @ + a,
              !.part = [l \in LotIds |->
                  [R.part[l] EXCEPT !.committed = IF commit THEN @ + use[l] ELSE @,
                                    !.released = IF commit THEN @ ELSE @ + use[l]]]]

GivesUp(R, use, a, commit, dc, st, r) ==
    /\ R \in HoldRows /\ HoldOK(R) /\ a \in Nat /\ a <= HoldRest(R)
    /\ \A l \in LotIds : use[l] \in Nat /\ use[l] <= PartRest(R.part[l])
    /\ SumFunctionOnSet(use, LotIds) = a /\ commit \in BOOLEAN /\ dc = (IF commit THEN a ELSE 0)
    /\ st \in {"active", "partially_committed", "committed", "released", "expired"}
    /\ r = [HoldApplied(R, use, a, commit) EXCEPT !.status = st]

GaveUp(R, use, a, dc, r) ==
    /\ r \in HoldRows /\ HoldOK(r) /\ HoldRest(r) = HoldRest(R) - a /\ r.committed = R.committed + dc
    /\ \A l \in LotIds : PartRest(r.part[l]) = PartRest(R.part[l]) - use[l]

LEMMA HoldApplies ==
    ASSUME NEW R, NEW use, NEW a, NEW commit, NEW dc, NEW st, NEW r, GivesUp(R, use, a, commit, dc, st, r)
    PROVE  GaveUp(R, use, a, dc, r)
<1> R \in HoldRows /\ HoldOK(R) /\ a \in Nat /\ a <= HoldRest(R)
 BY Zenon DEF GivesUp
<1> \A l \in LotIds : use[l] \in Nat /\ use[l] <= PartRest(R.part[l])
 BY Zenon DEF GivesUp
<1> /\ SumFunctionOnSet(use, LotIds) = a /\ commit \in BOOLEAN /\ dc = (IF commit THEN a ELSE 0)
    /\ st \in {"active", "partially_committed", "committed", "released", "expired"}
    /\ r = [HoldApplied(R, use, a, commit) EXCEPT !.status = st]
 BY Zenon DEF GivesUp
<1>0. R.original \in Nat /\ R.committed \in Nat /\ R.released \in Nat /\ R.part \in [LotIds -> PartRows]
 BY DEF HoldRows
<1>1. PICK P : P = [l \in LotIds |-> [R.part[l] EXCEPT !.committed = IF commit THEN @ + use[l] ELSE @,
                                                       !.released = IF commit THEN @ ELSE @ + use[l]]]
 OBVIOUS
<1>2. ASSUME NEW l \in LotIds
      PROVE  P[l] \in PartRows /\ P[l].committed + P[l].released <= P[l].amount /\ PartRest(P[l]) = PartRest(R.part[l]) - use[l]
 <2>1. PICK Q \in PartRows, u \in Nat : Q = R.part[l] /\ u = use[l] BY <1>0
 <2>2. P[l] = PartApplied(Q, u, commit) BY <1>1, <2>1, Zenon DEF PartApplied
 <2>3. Q.committed + Q.released <= Q.amount /\ u <= PartRest(Q) BY <2>1 DEF HoldOK
 <2> QED BY <2>1, <2>2, <2>3, PartApplies
<1>3. P \in [LotIds -> PartRows]
 <2>1. P = [l \in LotIds |-> P[l]] BY <1>1, Zenon
 <2> QED BY <1>2, <2>1
<1>40. (IF commit THEN R.committed + a ELSE R.committed) \in Nat /\ (IF commit THEN R.released ELSE R.released + a) \in Nat
 BY <1>0
<1>4. PICK x \in Nat, y \in Nat : /\ x = (IF commit THEN R.committed + a ELSE R.committed)
                                  /\ y = (IF commit THEN R.released ELSE R.released + a)
 BY <1>40, Zenon
<1>5. r = [[R EXCEPT !.committed = x, !.released = y, !.part = P] EXCEPT !.status = st]
 BY <1>1, <1>4, Zenon DEF HoldApplied
<1>6. r \in HoldRows /\ r.original = R.original /\ r.committed = x /\ r.released = y /\ r.part = P /\ r.status = st
 BY <1>3, <1>5 DEF HoldRows
<1>7. x + y = R.committed + R.released + a /\ x = R.committed + dc BY <1>0, <1>4
<1>8. HoldRest(r) = HoldRest(R) - a /\ r.committed + r.released <= r.original BY <1>0, <1>6, <1>7 DEF HoldRest
<1>9. RestOfParts(r) = RestOfParts(R) - a
 <2> DEFINE f == [l \in LotIds |-> PartRest(R.part[l])]
            g == [l \in LotIds |-> PartRest(r.part[l])]
 <2>0. \A l \in LotIds : PartRest(R.part[l]) \in Int BY <1>0 DEF PartRows, PartRest
 <2>1. \A l \in LotIds : g[l] \in Int /\ use[l] \in Int /\ f[l] \in Int /\ f[l] = g[l] + use[l]
  BY <1>2, <1>6, <2>0
 <2> HIDE DEF f, g
 <2>2. SumFunctionOnSet(f, LotIds) = SumFunctionOnSet(g, LotIds) + SumFunctionOnSet(use, LotIds)
  BY <2>1, FiniteAssets, SumPlus
 <2>3. SumFunctionOnSet(g, LotIds) \in Int BY <2>1, FiniteAssets, SumType
 <2>4. SumFunctionOnSet(g, LotIds) = SumFunctionOnSet(f, LotIds) - a BY <2>2, <2>3
 <2> QED BY <2>4 DEF f, g, RestOfParts
<1>10. HoldRest(r) = RestOfParts(r) BY <1>8, <1>9 DEF HoldOK
<1>11. \A l \in LotIds : r.part[l].committed + r.part[l].released <= r.part[l].amount BY <1>2, <1>6
<1>12. HoldOK(r) BY <1>6, <1>8, <1>10, <1>11 DEF HoldOK
<1> QED BY <1>2, <1>6, <1>7, <1>8, <1>12 DEF GaveUp

\* What comes back, and what expires, of the shares.
LEMMA SharesSplit ==
    ASSUME NEW use, \A l \in LotIds : use[l] \in Nat, NEW returned \in SUBSET LotIds, NEW commit \in BOOLEAN,
           commit => returned = {}, NEW a \in Nat, SumFunctionOnSet(use, LotIds) = a,
           NEW da, da = [l \in LotIds |-> IF l \in returned THEN use[l] ELSE 0],
           NEW de, de = [l \in LotIds |-> IF commit \/ l \in returned THEN 0 ELSE use[l]]
    PROVE  /\ SumFunctionOnSet(da, LotIds) = SumFunctionOnSet(use, returned)
           /\ SumFunctionOnSet(use, returned) \in Nat /\ SumFunctionOnSet(use, returned) <= a
           /\ commit => SumFunctionOnSet(use, returned) = 0
           /\ SumFunctionOnSet(de, LotIds) = IF commit THEN 0 ELSE a - SumFunctionOnSet(use, returned)
<1>1. IsFiniteSet(returned) BY FiniteAssets, FS_Subset
<1>2. SumFunctionOnSet(da, LotIds) = SumFunctionOnSet(use, returned)
 <2>1. (\A l \in returned : da[l] = use[l] /\ da[l] \in Int) /\ \A l \in LotIds \ returned : da[l] = 0
  OBVIOUS
 <2>2. SumFunctionOnSet(da, LotIds) = SumFunctionOnSet(da, returned) BY <2>1, FiniteAssets, SumWhere
 <2>3. SumFunctionOnSet(da, returned) = SumFunctionOnSet(use, returned) BY <1>1, <2>1, SumSame
 <2> QED BY <2>2, <2>3
<1>3. SumFunctionOnSet(use, returned) \in Nat BY <1>1, SumSubset
<1>4. SumFunctionOnSet(use, returned) <= a BY FiniteAssets, SumSubset
<1>5. commit => SumFunctionOnSet(use, returned) = 0 BY SumEmpty
<1>6. SumFunctionOnSet(de, LotIds) = IF commit THEN 0 ELSE a - SumFunctionOnSet(use, returned)
 <2>1. CASE commit
  <3>1. \A l \in LotIds : de[l] = 0 BY <2>1
  <3>2. SumFunctionOnSet(de, LotIds) = 0 BY <3>1, FiniteAssets, SumZero
  <3> QED BY <2>1, <3>2
 <2>2. CASE ~commit
  <3>1. \A l \in LotIds : da[l] \in Int /\ de[l] \in Int /\ use[l] = da[l] + de[l] BY <2>2
  <3>2. SumFunctionOnSet(use, LotIds) = SumFunctionOnSet(da, LotIds) + SumFunctionOnSet(de, LotIds)
   BY <3>1, FiniteAssets, SumPlus
  <3>3. SumFunctionOnSet(de, LotIds) \in Int BY <3>1, FiniteAssets, SumType
  <3>4. PICK m \in Int, n \in Nat : m = SumFunctionOnSet(de, LotIds) /\ n = SumFunctionOnSet(use, returned)
   BY <1>3, <3>3
  <3>5. m = a - n BY <1>2, <3>2, <3>4
  <3> QED BY <2>2, <3>4, <3>5
 <2> QED BY <2>1, <2>2
<1> QED BY <1>2, <1>3, <1>4, <1>5, <1>6

IsApply(B, H, h, a, use, commit, returned, back, L, av, fr, ct, C, st, r) ==
    /\ h \in Holds /\ a \in Nat /\ a <= HoldRest(H[h]) /\ SumFunctionOnSet(use, LotIds) = a
    /\ \A l \in LotIds : use[l] \in Nat /\ use[l] <= PartRest(H[h].part[l])
    /\ commit \in BOOLEAN /\ returned \in SUBSET LotIds /\ (commit => returned = {})
    /\ \A l \in LotIds : commit \/ l \in returned \/ B.lots[l].past
    /\ back = SumFunctionOnSet(use, returned) /\ L = Applied(B, use, returned, commit)
    /\ av = B.available + back /\ fr = B.frozen - a /\ ct = B.control + (a - back)
    /\ C = [B EXCEPT !.available = av, !.frozen = fr, !.control = ct, !.lots = L]
    /\ st \in {"active", "partially_committed", "committed", "released", "expired"}
    /\ r = [HoldApplied(H[h], use, a, commit) EXCEPT !.status = st]

\* A hold gives up an amount, to the platform or back to the lots that are still good.
LEMMA ApplyKeeps ==
    ASSUME NEW B, NEW T, NEW H, BooksOK(B, T, H), NEW h, NEW a, NEW use, NEW commit, NEW returned, NEW back, NEW L, NEW av, NEW fr, NEW ct, NEW C, NEW st, NEW r,
           IsApply(B, H, h, a, use, commit, returned, back, L, av, fr, ct, C, st, r)
    PROVE  BooksOK(C, T, [H EXCEPT ![h] = r])
<1> /\ h \in Holds /\ a \in Nat /\ a <= HoldRest(H[h]) /\ SumFunctionOnSet(use, LotIds) = a
    /\ \A l \in LotIds : use[l] \in Nat /\ use[l] <= PartRest(H[h].part[l])
    /\ commit \in BOOLEAN /\ returned \in SUBSET LotIds /\ (commit => returned = {})
    /\ \A l \in LotIds : commit \/ l \in returned \/ B.lots[l].past
    /\ back = SumFunctionOnSet(use, returned) /\ L = Applied(B, use, returned, commit)
    /\ av = B.available + back /\ fr = B.frozen - a /\ ct = B.control + (a - back)
    /\ C = [B EXCEPT !.available = av, !.frozen = fr, !.control = ct, !.lots = L]
    /\ st \in {"active", "partially_committed", "committed", "released", "expired"}
    /\ r = [HoldApplied(H[h], use, a, commit) EXCEPT !.status = st]
 BY Zenon DEF IsApply
<1>0. B \in AssetBooks /\ T \in [AllSources -> TransferRows] /\ H \in [Holds -> HoldRows] BY DEF BooksOK
<1>1. \A l \in LotIds : B.lots[l] \in LotRows /\ LotOK(B.lots[l]) /\ B.lots[l].frozen = FrozenBy(H, l)
 BY DEF BooksOK, AssetBooks
<1>2. \A x \in Holds : HoldOK(H[x]) BY DEF BooksOK
<1>3. ASSUME NEW l \in LotIds PROVE use[l] <= B.lots[l].frozen
 <2> DEFINE f == [x \in Holds |-> PartRest(H[x].part[l])]
 <2>1. \A x \in Holds : PartRest(H[x].part[l]) \in Nat BY <1>0, <1>2 DEF HoldRows, PartRows, HoldOK, PartRest
 <2>2. (\A x \in Holds : f[x] \in Nat) /\ f[h] = PartRest(H[h].part[l]) BY <2>1
 <2> HIDE DEF f
 <2>3. f[h] <= SumFunctionOnSet(f, Holds) BY <2>2, FiniteAssets, SumAtLeast
 <2>4. SumFunctionOnSet(f, Holds) = B.lots[l].frozen BY <1>1 DEF f, FrozenBy
 <2>5. B.lots[l].frozen \in Nat BY <1>1 DEF LotRows
 <2> QED BY <2>1, <2>2, <2>3, <2>4, <2>5
<1>4. ASSUME NEW l \in LotIds
      PROVE  /\ L[l] \in LotRows /\ LotOK(L[l]) /\ L[l].frozen = B.lots[l].frozen - use[l]
             /\ L[l].available = B.lots[l].available + (IF l \in returned THEN use[l] ELSE 0)
             /\ L[l].expired = B.lots[l].expired + (IF commit \/ l \in returned THEN 0 ELSE use[l])
 <2>1. PICK R \in LotRows, u \in Nat : R = B.lots[l] /\ u = use[l] /\ LotOK(R) /\ u <= R.frozen BY <1>1, <1>3
 <2>2. PICK good \in BOOLEAN : good = (l \in returned)
  <3>1. (l \in returned) \in BOOLEAN OBVIOUS
  <3> QED BY <3>1, Zenon
 <2>3. L[l] = LotApplied(R, u, good, commit) BY <2>1, <2>2, Zenon DEF Applied, LotApplied
 <2>4. (commit => ~good) /\ (commit \/ good \/ R.past) BY <2>1, <2>2
 <2>5. /\ L[l] \in LotRows /\ LotOK(L[l]) /\ L[l].frozen = R.frozen - u
       /\ L[l].available = R.available + (IF good THEN u ELSE 0)
       /\ L[l].expired = R.expired + (IF commit \/ good THEN 0 ELSE u)
  BY <2>1, <2>3, <2>4, LotApplies
 <2> QED BY <2>1, <2>2, <2>5
<1>5. L \in [LotIds -> LotRows]
 <2>1. L = [l \in LotIds |-> L[l]] BY Zenon DEF Applied
 <2> QED BY <1>4, <2>1
<1> DEFINE da == [l \in LotIds |-> IF l \in returned THEN use[l] ELSE 0]
           df == [l \in LotIds |-> 0 - use[l]]
           de == [l \in LotIds |-> IF commit \/ l \in returned THEN 0 ELSE use[l]]
<1>6. /\ SumFunctionOnSet(da, LotIds) = back /\ back \in Nat /\ back <= a /\ (commit => back = 0)
      /\ SumFunctionOnSet(de, LotIds) = IF commit THEN 0 ELSE a - back
 BY SharesSplit
<1>7. SumFunctionOnSet(df, LotIds) = 0 - a
 <2>1. SumFunctionOnSet(df, LotIds) = 0 - SumFunctionOnSet(use, LotIds) BY FiniteAssets, SumOfNegatives
 <2> QED BY <2>1
<1>8. \A l \in LotIds : /\ da[l] = IF l \in returned THEN use[l] ELSE 0
                        /\ df[l] = 0 - use[l]
                        /\ de[l] = IF commit \/ l \in returned THEN 0 ELSE use[l]
 OBVIOUS
<1> HIDE DEF da, df, de
<1>9. a <= B.frozen
 <2> DEFINE f == [x \in Holds |-> HoldRest(H[x])]
 <2>1. \A x \in Holds : HoldRest(H[x]) \in Nat BY <1>0, <1>2 DEF HoldRows, HoldOK, HoldRest
 <2>2. (\A x \in Holds : f[x] \in Nat) /\ f[h] = HoldRest(H[h]) BY <2>1
 <2> HIDE DEF f
 <2>3. f[h] <= SumFunctionOnSet(f, Holds) BY <2>2, FiniteAssets, SumAtLeast
 <2>4. SumFunctionOnSet(f, Holds) = B.frozen BY DEF f, RestIn, BooksOK
 <2>5. B.frozen \in Nat BY <1>0 DEF AssetBooks
 <2> QED BY <2>1, <2>2, <2>3, <2>4, <2>5
<1>10. av \in Nat /\ fr \in Nat /\ ct \in Int BY <1>0, <1>6, <1>9 DEF AssetBooks
<1>11. C \in AssetBooks /\ C.available = av /\ C.frozen = fr /\ C.control = ct /\ C.lots = L
 BY <1>0, <1>5, <1>10 DEF AssetBooks
<1>12. MovedBy(B, C, da, df, de)
 <2>1. \A l \in LotIds : B.lots[l].available \in Nat /\ B.lots[l].frozen \in Nat /\ B.lots[l].expired \in Nat
  BY <1>1 DEF LotRows
 <2> SUFFICES ASSUME NEW l \in LotIds
              PROVE  /\ da[l] \in Int /\ df[l] \in Int /\ de[l] \in Int
                     /\ C.lots[l].available = B.lots[l].available + da[l]
                     /\ C.lots[l].frozen = B.lots[l].frozen + df[l]
                     /\ C.lots[l].expired = B.lots[l].expired + de[l]
  BY DEF MovedBy
 <2>2. da[l] \in Int /\ df[l] \in Int /\ de[l] \in Int BY <1>8
 <2>3. C.lots[l].available = B.lots[l].available + da[l] /\ C.lots[l].expired = B.lots[l].expired + de[l]
  BY <1>4, <1>8, <1>11
 <2>4. C.lots[l].frozen = B.lots[l].frozen + df[l]
  <3>1. C.lots[l].frozen = B.lots[l].frozen - use[l] /\ df[l] = 0 - use[l] BY <1>4, <1>8, <1>11
  <3> QED BY <2>1, <3>1
 <2> QED BY <2>2, <2>3, <2>4
<1>13. /\ AvailableIn(C) = AvailableIn(B) + SumFunctionOnSet(da, LotIds)
       /\ FrozenIn(C) = FrozenIn(B) + SumFunctionOnSet(df, LotIds)
       /\ ExpiredIn(C) = ExpiredIn(B) + SumFunctionOnSet(de, LotIds)
 BY <1>0, <1>11, <1>12, LotsMove
<1>140. PICK dc \in Nat : dc = (IF commit THEN a ELSE 0) OBVIOUS
<1>14. /\ r \in HoldRows /\ HoldOK(r) /\ HoldRest(r) = HoldRest(H[h]) - a /\ r.committed = H[h].committed + dc
       /\ \A l \in LotIds : PartRest(r.part[l]) = PartRest(H[h].part[l]) - use[l]
 <2>1. PICK R \in HoldRows : R = H[h] /\ HoldOK(R) BY <1>0, <1>2
 <2>2. /\ a <= HoldRest(R) /\ r = [HoldApplied(R, use, a, commit) EXCEPT !.status = st]
       /\ \A l \in LotIds : use[l] \in Nat /\ use[l] <= PartRest(R.part[l])
  BY <2>1, Zenon
 <2>3. GivesUp(R, use, a, commit, dc, st, r) BY <1>140, <2>1, <2>2 DEF GivesUp
 <2>4. GaveUp(R, use, a, dc, r) BY <2>3, HoldApplies, Zenon
 <2> QED BY <2>1, <2>4 DEF GaveUp
<1> DEFINE K == [H EXCEPT ![h] = r]
<1>15. /\ RestIn(K) = RestIn(H) - HoldRest(H[h]) + HoldRest(r)
       /\ CommittedIn(K) = CommittedIn(H) - H[h].committed + r.committed
       /\ \A l \in LotIds : FrozenBy(K, l) = FrozenBy(H, l) - PartRest(H[h].part[l]) + PartRest(r.part[l])
 BY <1>0, <1>2, <1>14, HoldMoves
<1>16. K \in [Holds -> HoldRows] /\ \A x \in Holds : HoldOK(K[x]) BY <1>0, <1>2, <1>14
<1> HIDE DEF K
<1>17. PICK re \in Nat, co \in Nat, hr \in Nat, hc \in Nat :
          re = RestIn(H) /\ co = CommittedIn(H) /\ hr = HoldRest(H[h]) /\ hc = H[h].committed
 <2>1. HoldRest(H[h]) \in Nat /\ H[h].committed \in Nat BY <1>0, <1>2 DEF HoldRows, HoldOK, HoldRest
 <2> QED BY <2>1, SumsAreNumbers
<1>18. PICK b \in Int, e \in Nat : b = 0 - a /\ e = (IF commit THEN 0 ELSE a - back) BY <1>6
<1>19. RestIn(K) = RestIn(H) + b /\ CommittedIn(K) = CommittedIn(H) + dc
 <2>1. RestIn(K) = re - hr + (hr - a) /\ CommittedIn(K) = co - hc + (hc + dc) BY <1>14, <1>15, <1>17
 <2> QED BY <1>17, <1>18, <2>1
<1>20. \A l \in LotIds : LotOK(C.lots[l]) /\ C.lots[l].frozen = FrozenBy(K, l)
 <2> SUFFICES ASSUME NEW l \in LotIds PROVE LotOK(C.lots[l]) /\ C.lots[l].frozen = FrozenBy(K, l)
  OBVIOUS
 <2>1. PICK n \in Nat, u \in Nat, p \in Nat : n = FrozenBy(H, l) /\ u = use[l] /\ p = PartRest(H[h].part[l])
  <3>1. PartRest(H[h].part[l]) \in Nat BY <1>0, <1>2 DEF HoldRows, PartRows, HoldOK, PartRest
  <3> QED BY <3>1, SumsAreNumbers
 <2>2. FrozenBy(K, l) = n - p + (p - u) BY <1>14, <1>15, <2>1
 <2>3. C.lots[l].frozen = n - u BY <1>1, <1>4, <1>11, <2>1
 <2> QED BY <1>4, <1>11, <2>1, <2>2, <2>3
<1>21. NetIn(T) = NetIn(T) + 0 /\ \A x \in AllSources : TransferOK(T[x])
 <2>1. NetIn(T) \in Int BY SumsAreNumbers
 <2>2. NetIn(T) = NetIn(T) + 0 BY <2>1
 <2>3. \A x \in AllSources : TransferOK(T[x]) BY DEF BooksOK
 <2> QED BY <2>2, <2>3
<1>22. /\ AvailableIn(C) = AvailableIn(B) + back /\ FrozenIn(C) = FrozenIn(B) + b /\ ExpiredIn(C) = ExpiredIn(B) + e
 BY <1>6, <1>7, <1>13, <1>18
<1>23. dc + e - 0 = a - back /\ back + b + (dc + e - 0) = 0
 <2>1. CASE commit
  BY <1>6, <1>18, <1>140, <2>1
 <2>2. CASE ~commit
  BY <1>6, <1>18, <1>140, <2>2
 <2> QED BY <2>1, <2>2
<1>24. C.available = B.available + back /\ C.frozen = B.frozen + b /\ C.control = B.control + (dc + e - 0)
 <2>1. B.frozen \in Nat /\ B.control \in Int BY <1>0 DEF AssetBooks
 <2> QED BY <1>11, <1>18, <1>23, <2>1
<1>240. back \in Int /\ b \in Int /\ e \in Int /\ dc \in Int /\ 0 \in Int BY <1>6, <1>18
<1>25. FollowedBy(B, T, H, C, T, K, back, b, e, dc, 0)
 BY <1>0, <1>11, <1>16, <1>19, <1>20, <1>21, <1>22, <1>23, <1>24, <1>240 DEF FollowedBy
<1>26. BooksOK(C, T, K) BY <1>25, BooksFollow
<1> QED BY <1>26 DEF K

----------------------------------------
\* Of one lot, e expires.
LotLoses(B, C, k, e) ==
    /\ C \in AssetBooks /\ LotOK(C.lots[k]) /\ e \in Nat
    /\ C.lots[k].available = B.lots[k].available - e /\ C.lots[k].expired = B.lots[k].expired + e
    /\ C.lots[k].frozen = B.lots[k].frozen /\ \A l \in LotIds \ {k} : C.lots[l] = B.lots[l]
    /\ C.available = B.available - e /\ C.frozen = B.frozen /\ C.control = B.control + e

LEMMA LotLosesKeeps ==
    ASSUME NEW B, NEW T, NEW H, BooksOK(B, T, H), NEW k \in LotIds, NEW C, NEW e, LotLoses(B, C, k, e)
    PROVE  BooksOK(C, T, H)
<1>0. /\ B \in AssetBooks /\ T \in [AllSources -> TransferRows] /\ H \in [Holds -> HoldRows]
      /\ C \in AssetBooks /\ e \in Nat
 BY DEF BooksOK, LotLoses
<1>1. PICK b \in Int : b = 0 - e /\ b + 0 + (0 + e - 0) = 0 BY <1>0
<1> DEFINE da == [l \in LotIds |-> IF l = k THEN b ELSE 0]
           de == [l \in LotIds |-> IF l = k THEN e ELSE 0]
           zero == [l \in LotIds |-> 0]
<1>2. \A l \in LotIds : zero[l] = 0 /\ zero[l] \in Int /\ (l # k => da[l] = zero[l] /\ de[l] = zero[l])
 OBVIOUS
<1>3. da[k] = b /\ de[k] = e /\ \A l \in LotIds : da[l] \in Int /\ de[l] \in Int BY <1>0
<1> HIDE DEF da, de, zero
<1>4. MovedBy(B, C, da, zero, de)
 <2>1. \A l \in LotIds : B.lots[l].available \in Nat /\ B.lots[l].frozen \in Nat /\ B.lots[l].expired \in Nat
  BY <1>0 DEF AssetBooks, LotRows
 <2> SUFFICES ASSUME NEW l \in LotIds
              PROVE  /\ C.lots[l].available = B.lots[l].available + da[l]
                     /\ C.lots[l].frozen = B.lots[l].frozen + zero[l]
                     /\ C.lots[l].expired = B.lots[l].expired + de[l]
  BY <1>2, <1>3 DEF MovedBy
 <2>2. CASE l = k
  BY <1>0, <1>1, <1>2, <1>3, <2>1, <2>2 DEF LotLoses
 <2>3. CASE l # k
  <3>1. C.lots[l] = B.lots[l] /\ da[l] = 0 /\ de[l] = 0 /\ zero[l] = 0 BY <1>2, <2>3 DEF LotLoses
  <3> QED BY <2>1, <3>1
 <2> QED BY <2>2, <2>3
<1>5. SumFunctionOnSet(zero, LotIds) = 0 BY <1>2, FiniteAssets, SumZero
<1>6. SumFunctionOnSet(da, LotIds) = SumFunctionOnSet(zero, LotIds) - zero[k] + da[k]
 BY <1>2, <1>3, FiniteAssets, SumChange
<1>7. SumFunctionOnSet(de, LotIds) = SumFunctionOnSet(zero, LotIds) - zero[k] + de[k]
 BY <1>2, <1>3, FiniteAssets, SumChange
<1>8. AvailableIn(C) = AvailableIn(B) + b /\ FrozenIn(C) = FrozenIn(B) + 0 /\ ExpiredIn(C) = ExpiredIn(B) + e
 <2>1. /\ AvailableIn(C) = AvailableIn(B) + SumFunctionOnSet(da, LotIds)
       /\ FrozenIn(C) = FrozenIn(B) + SumFunctionOnSet(zero, LotIds)
       /\ ExpiredIn(C) = ExpiredIn(B) + SumFunctionOnSet(de, LotIds)
  BY <1>0, <1>4, LotsMove
 <2>2. SumFunctionOnSet(da, LotIds) = b /\ SumFunctionOnSet(de, LotIds) = e
  BY <1>0, <1>2, <1>3, <1>5, <1>6, <1>7
 <2> QED BY <1>5, <2>1, <2>2
<1>9. RestIn(H) = RestIn(H) + 0 /\ CommittedIn(H) = CommittedIn(H) + 0 /\ NetIn(T) = NetIn(T) + 0
 BY SumsAreNumbers
<1>10. \A l \in LotIds : LotOK(C.lots[l]) /\ C.lots[l].frozen = FrozenBy(H, l) BY DEF BooksOK, LotLoses
<1>11. (\A x \in AllSources : TransferOK(T[x])) /\ \A h \in Holds : HoldOK(H[h]) BY DEF BooksOK
<1>12. C.available = B.available + b /\ C.frozen = B.frozen + 0 /\ C.control = B.control + (0 + e - 0)
 <2>1. B.available \in Nat /\ B.frozen \in Nat /\ B.control \in Int BY <1>0 DEF AssetBooks
 <2> QED BY <1>0, <1>1, <2>1 DEF LotLoses
<1>13. FollowedBy(B, T, H, C, T, H, b, 0, e, 0, 0)
 BY <1>0, <1>1, <1>8, <1>9, <1>10, <1>11, <1>12 DEF FollowedBy
<1> QED BY <1>13, BooksFollow

\* A lot that has expired, and one whose date has come.
LotExpired(R, e) == [R EXCEPT !.available = 0, !.expired = @ + e]

LEMMA LotExpires ==
    ASSUME NEW R \in LotRows, LotOK(R), NEW e \in Nat, e = R.available, R.past
    PROVE  /\ LotExpired(R, e) \in LotRows /\ LotOK(LotExpired(R, e))
           /\ LotExpired(R, e).available = 0 /\ LotExpired(R, e).expired = R.expired + e
           /\ LotExpired(R, e).frozen = R.frozen
<1>0. R.granted \in Nat /\ R.available \in Nat /\ R.frozen \in Nat /\ R.consumed \in Nat /\ R.expired \in Nat
 BY DEF LotRows
<1>1. PICK z \in Nat : z = R.expired + e BY <1>0
<1>2. PICK M : M = [R EXCEPT !.available = 0, !.expired = z] OBVIOUS
<1>3. /\ M \in LotRows /\ M.granted = R.granted /\ M.available = 0 /\ M.consumed = R.consumed /\ M.frozen = R.frozen
      /\ M.expired = z /\ M.dated = R.dated /\ M.past = R.past
 BY <1>2 DEF LotRows
<1>4. LotOK(M)
 <2>1. M.granted = M.available + M.frozen + M.consumed + M.expired BY <1>0, <1>1, <1>3 DEF LotOK
 <2> QED BY <1>3, <2>1 DEF LotOK
<1>5. LotExpired(R, e) = M BY <1>1, <1>2, Zenon DEF LotExpired
<1> QED BY <1>1, <1>3, <1>4, <1>5, Zenon

LEMMA ExpireKeeps ==
    ASSUME NEW B, NEW T, NEW H, BooksOK(B, T, H), NEW k \in LotIds, B.lots[k].past,
           NEW e, e = B.lots[k].available, NEW M, M = LotExpired(B.lots[k], e),
           NEW av, av = B.available - e, NEW ct, ct = B.control + e,
           NEW C, C = [B EXCEPT !.available = av, !.control = ct, !.lots[k] = M]
    PROVE  BooksOK(C, T, H) /\ \A l \in LotIds \ {k} : C.lots[l] = B.lots[l]
<1>0. B \in AssetBooks /\ \A l \in LotIds : B.lots[l] \in LotRows /\ LotOK(B.lots[l])
 BY DEF BooksOK, AssetBooks
<1>1. PICK R \in LotRows : R = B.lots[k] /\ LotOK(R) /\ R.past /\ e = R.available /\ e \in Nat /\ M = LotExpired(R, e)
 <2>1. B.lots[k].available \in Nat BY <1>0 DEF LotRows
 <2> QED BY <1>0, <2>1
<1>2. M \in LotRows /\ LotOK(M) /\ M.available = 0 /\ M.expired = R.expired + e /\ M.frozen = R.frozen
 BY <1>1, LotExpires
<1>3. e <= B.available
 <2> DEFINE f == [l \in LotIds |-> B.lots[l].available]
 <2>1. (\A l \in LotIds : f[l] \in Nat) /\ f[k] = e BY <1>0 DEF LotRows
 <2> HIDE DEF f
 <2>2. f[k] <= SumFunctionOnSet(f, LotIds) BY <2>1, FiniteAssets, SumAtLeast
 <2> QED BY <2>1, <2>2 DEF f, AvailableIn, BooksOK
<1>4. av \in Nat /\ ct \in Int BY <1>0, <1>1, <1>3 DEF AssetBooks
<1>5. /\ C \in AssetBooks /\ C.available = av /\ C.frozen = B.frozen /\ C.control = ct
      /\ C.lots[k] = M /\ \A l \in LotIds \ {k} : C.lots[l] = B.lots[l]
 BY <1>0, <1>2, <1>4 DEF AssetBooks
<1>6. M.available = R.available - e BY <1>1, <1>2
<1>7. LotLoses(B, C, k, e) BY <1>1, <1>2, <1>5, <1>6 DEF LotLoses
<1> QED BY <1>5, <1>7, LotLosesKeeps

LEMMA DateComesKeeps ==
    ASSUME NEW B, NEW T, NEW H, BooksOK(B, T, H), NEW k \in LotIds, B.lots[k].dated, NEW M,
           M = [B.lots[k] EXCEPT !.past = TRUE] \/ M = [B.lots[k] EXCEPT !.listed = TRUE],
           NEW C, C = [B EXCEPT !.lots[k] = M]
    PROVE  BooksOK(C, T, H)
<1>0. B \in AssetBooks /\ B.lots[k] \in LotRows /\ LotOK(B.lots[k]) BY DEF BooksOK, AssetBooks
<1>1. PICK R \in LotRows : R = B.lots[k] /\ LotOK(R) /\ R.dated BY <1>0
<1>2. M = [R EXCEPT !.past = TRUE] \/ M = [R EXCEPT !.listed = TRUE] BY <1>1
<1>3. /\ M \in LotRows /\ M.granted = R.granted /\ M.available = R.available /\ M.consumed = R.consumed
      /\ M.frozen = R.frozen /\ M.expired = R.expired /\ M.dated = R.dated /\ M.past \in {TRUE, R.past}
 BY <1>2 DEF LotRows
<1>4. LotOK(M) BY <1>1, <1>3 DEF LotOK
<1>5. /\ C \in AssetBooks /\ C.available = B.available /\ C.frozen = B.frozen /\ C.control = B.control
      /\ C.lots[k] = M /\ \A l \in LotIds \ {k} : C.lots[l] = B.lots[l]
 <2>1. PICK lots \in [LotIds -> LotRows] : lots = [B.lots EXCEPT ![k] = M] BY <1>0, <1>3 DEF AssetBooks
 <2>2. lots[k] = M /\ \A l \in LotIds \ {k} : lots[l] = B.lots[l] BY <1>0, <2>1 DEF AssetBooks
 <2>3. C = [B EXCEPT !.lots = lots] BY <2>1, Zenon
 <2> QED BY <1>0, <2>2, <2>3 DEF AssetBooks
<1>6. M.available = R.available - 0 /\ M.expired = R.expired + 0 /\ C.available = B.available - 0 /\ C.control = B.control + 0
 BY <1>0, <1>3, <1>5 DEF AssetBooks, LotRows
<1>7. LotLoses(B, C, k, 0) BY <1>1, <1>3, <1>4, <1>5, <1>6 DEF LotLoses
<1> QED BY <1>7, LotLosesKeeps

----------------------------------------
\* The smaller and the larger of two, and the least of some naturals.
LEMMA LessIsMin == ASSUME NEW m \in Int, NEW n \in Int PROVE Min({m, n}) = Less(m, n)
BY DEF Min, Less

LEMMA MoreIsMax == ASSUME NEW m \in Int, NEW n \in Int PROVE Max({m, n}) = More(m, n)
BY DEF Max, More

LEMMA LeastIsIn == ASSUME NEW S \in SUBSET Nat, S # {} PROVE Min(S) \in S
BY LeastOf DEF Min

\* Lots that give in turn give the amount, if together they have it, and none more than it has.
LEMMA SharesOfLots ==
    ASSUME NEW amount \in Nat, NEW has, \A l \in LotIds : has[l] \in Nat, amount <= SumFunctionOnSet(has, LotIds),
           NEW earlier, IsTurn(earlier, LotIds), NEW give, give = [l \in LotIds |-> Share(amount, has, earlier, l)]
    PROVE  /\ \A l \in LotIds : give[l] \in Nat /\ give[l] <= has[l]
           /\ SumFunctionOnSet(give, LotIds) = amount
<1>1. ASSUME NEW l \in LotIds
      PROVE  /\ give[l] = Less(has[l], More(0, amount - SumFunctionOnSet(has, earlier[l])))
             /\ give[l] \in Nat /\ give[l] <= has[l]
 <2>1. IsFiniteSet(earlier[l]) /\ \A k \in earlier[l] : has[k] \in Nat BY FiniteAssets, FS_Subset DEF IsTurn
 <2>2. PICK n \in Nat : n = SumFunctionOnSet(has, earlier[l]) BY <2>1, SumSubset
 <2>3. PICK h \in Nat, d \in Int : h = has[l] /\ d = amount - n BY <2>2
 <2>4. Max({0, d}) = More(0, d) /\ More(0, d) \in Nat
  <3>1. Max({0, d}) = More(0, d) BY MoreIsMax
  <3> QED BY <3>1 DEF More
 <2>5. Min({h, More(0, d)}) = Less(h, More(0, d)) BY <2>4, LessIsMin
 <2>6. give[l] = Min({h, Max({0, d})}) BY <2>2, <2>3, Zenon DEF Share
 <2>7. give[l] = Less(h, More(0, d)) /\ Less(h, More(0, d)) \in Nat /\ Less(h, More(0, d)) <= h
  BY <2>4, <2>5, <2>6 DEF Less
 <2> QED BY <2>2, <2>3, <2>7
<1>2. SumFunctionOnSet(give, LotIds) = Less(amount, SumFunctionOnSet(has, LotIds))
 BY <1>1, FiniteAssets, SharesAddUp
<1>3. PICK n \in Nat : n = SumFunctionOnSet(has, LotIds) BY FiniteAssets, SumSubset
<1>4. Less(amount, n) = amount BY <1>3 DEF Less
<1> QED BY <1>1, <1>2, <1>3, <1>4

LEMMA LotsAreNumbers == LotIds \subseteq Nat
BY AssetAssumption DEF LotIds

\* Both orders are orders.
LEMMA TurnsOfLots ==
    ASSUME NEW earlier, earlier = [m \in LotIds |-> {k \in LotIds : UsedBefore(k, m)}],
           \A l \in LotIds : books.lots[l].dated \in BOOLEAN
    PROVE  IsTurn(earlier, LotIds)
<1>1. \A k, l \in LotIds : k \in earlier[l] <=> UsedBefore(k, l) OBVIOUS
<1>2. \A l \in LotIds : earlier[l] \subseteq LotIds /\ l \notin earlier[l] BY LotsAreNumbers DEF UsedBefore
<1>3. \A k, l \in LotIds : k = l \/ k \in earlier[l] \/ l \in earlier[k]
 BY <1>1, LotsAreNumbers DEF UsedBefore
<1>4. ASSUME NEW j \in LotIds, NEW k \in LotIds, NEW l \in LotIds, UsedBefore(j, k), UsedBefore(k, l) PROVE UsedBefore(j, l)
 BY <1>4, LotsAreNumbers DEF UsedBefore
<1> QED BY <1>1, <1>2, <1>3, <1>4 DEF IsTurn

LEMMA TurnsOfParts ==
    ASSUME NEW earlier, earlier = [m \in LotIds |-> 1..(m - 1)] PROVE IsTurn(earlier, LotIds)
<1>1. \A k, l \in LotIds : k \in earlier[l] <=> k < l BY AssetAssumption DEF LotIds
<1>2. \A l \in LotIds : earlier[l] \subseteq LotIds /\ l \notin earlier[l] BY AssetAssumption DEF LotIds
<1>3. \A k, l \in LotIds : k = l \/ k < l \/ l < k BY LotsAreNumbers
<1>4. \A j, k, l \in LotIds : j < k /\ k < l => j < l BY LotsAreNumbers
<1> QED BY <1>1, <1>2, <1>3, <1>4 DEF IsTurn

\* What FromLots takes.
LEMMA FromLotsGives ==
    ASSUME BooksOK(books, transfer, hold), NEW a \in Nat, a <= books.available
    PROVE  /\ \A l \in LotIds : FromLots(a)[l] \in Nat /\ FromLots(a)[l] <= books.lots[l].available
           /\ SumFunctionOnSet(FromLots(a), LotIds) = a
<1>1. \A l \in LotIds : books.lots[l].available \in Nat /\ books.lots[l].dated \in BOOLEAN
 BY DEF BooksOK, AssetBooks, LotRows
<1>2. PICK has : has = [k \in LotIds |-> books.lots[k].available] OBVIOUS
<1>3. PICK earlier : earlier = [m \in LotIds |-> {k \in LotIds : UsedBefore(k, m)}] /\ IsTurn(earlier, LotIds)
 BY <1>1, TurnsOfLots
<1>4. PICK give : give = [l \in LotIds |-> Share(a, has, earlier, l)] /\ give = FromLots(a)
 BY <1>2, <1>3, Zenon DEF FromLots
<1>5. \A l \in LotIds : has[l] = books.lots[l].available /\ has[l] \in Nat BY <1>1, <1>2
<1>6. a <= SumFunctionOnSet(has, LotIds) BY <1>2 DEF BooksOK, AvailableIn
<1>7. (\A l \in LotIds : give[l] \in Nat /\ give[l] <= has[l]) /\ SumFunctionOnSet(give, LotIds) = a
 BY <1>3, <1>4, <1>5, <1>6, SharesOfLots
<1> QED BY <1>4, <1>5, <1>7

----------------------------------------
\* What a step has to show.
LEMMA AssetParts ==
    ASSUME AssetInv, asset' = asset, BooksOK(books', transfer', hold'), CompensationOK',
           asset = "growth" =>
              /\ profile' = [growth |-> books'.available, tier |-> IF books'.available >= 2 THEN "silver" ELSE "normal"]
              /\ \A h \in Holds : hold'[h].status = "none"
              /\ \A l \in LotIds : ~books'.lots[l].dated
    PROVE  AssetInv'
<1>1. GrowthOK' BY Zenon DEF GrowthOK, Profile
<1>2. BooksOK(books, transfer, hold)'
 BY Zenon DEF BooksOK, AvailableIn, FrozenIn, ExpiredIn, FrozenBy, RestIn, CommittedIn, NetIn, LotOK, HoldOK, TransferOK,
              RestOfParts, NetOf, HoldRest, PartRest
<1>3. (asset \in {"balance", "growth"})' BY DEF AssetInv
<1> QED BY <1>1, <1>2, <1>3 DEF AssetInv

\* What holds of the compensations when a source is used that was not.
LEMMA CompensationsKeep ==
    ASSUME CompensationOK, compensation' = compensation, payer' = payer,
           \A c \in Compensations : transfer'[c].action = transfer[c].action
                                    \/ (transfer[c].action = "none" /\ transfer'[c].action = "credit")
    PROVE  CompensationOK'
BY DEF CompensationOK

\* A new lot.
LEMMA CreditBooks ==
    ASSUME AssetInv, NEW a \in Nat, NEW dated \in BOOLEAN, asset = "growth" => ~dated, FreeLots # {},
           books' = Credited(a, dated), hold' = hold,
           NEW s \in AllSources, NEW r \in TransferRows, TransferOK(r), NetOf(r) = NetOf(transfer[s]) + a,
           transfer' = [transfer EXCEPT ![s] = r]
    PROVE  /\ BooksOK(books', transfer', hold')
           /\ asset = "growth" => \A l \in LotIds : ~books'.lots[l].dated
<1>1. BooksOK(books, transfer, hold) /\ books \in AssetBooks BY DEF AssetInv, BooksOK
<1>2. PICK k \in LotIds : k = Min(FreeLots) /\ books.lots[k].granted = 0
 <2>1. FreeLots \in SUBSET Nat BY LotsAreNumbers DEF FreeLots
 <2>2. Min(FreeLots) \in FreeLots BY <2>1, LeastIsIn
 <2> QED BY <2>2 DEF FreeLots
<1>3. PICK L : L = [NoLot EXCEPT !.granted = a, !.available = a, !.dated = dated] OBVIOUS
<1>4. PICK av, ct : av = books.available + a /\ ct = books.control - a OBVIOUS
<1>5. PICK C : C = [books EXCEPT !.available = av, !.control = ct, !.lots[k] = L] OBVIOUS
<1>6. books' = C BY <1>2, <1>3, <1>4, <1>5, Zenon DEF Credited
<1>7. BooksOK(C, [transfer EXCEPT ![s] = r], hold) BY <1>1, <1>2, <1>3, <1>4, <1>5, CreditKeeps
<1>8. asset = "growth" => \A l \in LotIds : ~C.lots[l].dated
 <2>1. C.lots[k] = L /\ \A l \in LotIds \ {k} : C.lots[l] = books.lots[l] BY <1>1, <1>5 DEF AssetBooks
 <2>2. L.dated = dated BY <1>3 DEF NoLot
 <2> QED BY <2>1, <2>2 DEF AssetInv, GrowthOK
<1> QED BY <1>6, <1>7, <1>8, Zenon

\* What lots give.
LEMMA DebitBooks ==
    ASSUME AssetInv, NEW a \in Nat, books.available >= a, books' = Debited(a), hold' = hold,
           NEW s \in AllSources, NEW r \in TransferRows, TransferOK(r), NetOf(r) = NetOf(transfer[s]) - a,
           transfer' = [transfer EXCEPT ![s] = r]
    PROVE  /\ BooksOK(books', transfer', hold')
           /\ asset = "growth" => \A l \in LotIds : ~books'.lots[l].dated
<1>1. BooksOK(books, transfer, hold) /\ books \in AssetBooks BY DEF AssetInv, BooksOK
<1>2. a <= books.available BY <1>1 DEF AssetBooks
<1>3. PICK give : /\ give = FromLots(a) /\ \A l \in LotIds : give[l] \in Nat /\ give[l] <= books.lots[l].available
                  /\ SumFunctionOnSet(give, LotIds) = a
 BY <1>1, <1>2, FromLotsGives
<1>4. PICK L, av, ct : L = Given(books, give) /\ av = books.available - a /\ ct = books.control + a OBVIOUS
<1>5. PICK C : C = [books EXCEPT !.available = av, !.control = ct, !.lots = L] OBVIOUS
<1>6. books' = C BY <1>3, <1>4, <1>5, Zenon DEF Debited, Given
<1>7. BooksOK(C, [transfer EXCEPT ![s] = r], hold) /\ \A l \in LotIds : C.lots[l].dated = books.lots[l].dated
 <2>1. IsDebit(books, transfer, a, give, L, av, ct, C, s, r) BY <1>2, <1>3, <1>4, <1>5, Zenon DEF IsDebit
 <2>2. DebitDone(books, C, [transfer EXCEPT ![s] = r], hold) BY <1>1, <2>1, DebitKeeps, Zenon
 <2> QED BY <2>2, Zenon DEF DebitDone
<1>8. asset = "growth" => \A l \in LotIds : ~C.lots[l].dated BY <1>7 DEF AssetInv, GrowthOK
<1> QED BY <1>6, <1>7, <1>8, Zenon

\* A transfer that fails posts nothing.
LEMMA FailKeeps ==
    ASSUME NEW B, NEW T, NEW H, BooksOK(B, T, H), NEW s \in AllSources, NEW r \in TransferRows, TransferOK(r),
           NetOf(r) = NetOf(T[s])
    PROVE  BooksOK(B, [T EXCEPT ![s] = r], H)
<1>0. B \in AssetBooks /\ T \in [AllSources -> TransferRows] /\ H \in [Holds -> HoldRows] BY DEF BooksOK
<1>1. PICK m \in Int, n \in Int : m = NetIn(T) /\ n = NetOf(T[s])
 BY <1>0, SumsAreNumbers DEF TransferRows, NetOf
<1>2. NetIn([T EXCEPT ![s] = r]) = NetIn(T)
 <2>1. NetIn([T EXCEPT ![s] = r]) = m - n + n BY <1>0, <1>1, NetMoves
 <2> QED BY <1>1, <2>1
<1>3. [T EXCEPT ![s] = r] \in [AllSources -> TransferRows] /\ \A x \in AllSources : TransferOK([T EXCEPT ![s] = r][x])
 BY <1>0 DEF BooksOK
<1> QED BY <1>2, <1>3, Zenon DEF BooksOK

----------------------------------------
\* The operations.
GrowthProfile(B) == [growth |-> B.available, tier |-> IF B.available >= 2 THEN "silver" ELSE "normal"]

\* The row of a transfer that is posted, and of one that is reversed in part.
LEMMA PostedRow ==
    ASSUME NEW action \in {"credit", "debit"}, NEW a \in Nat,
           NEW r, r = [NoTransfer EXCEPT !.action = action, !.amount = a]
    PROVE  /\ r \in TransferRows /\ TransferOK(r) /\ r.action = action
           /\ NetOf(r) = IF action = "credit" THEN a ELSE 0 - a
<1>1. r \in TransferRows /\ r.action = action /\ r.amount = a /\ r.reversed = 0
 BY DEF NoTransfer, TransferRows
<1> QED BY <1>1 DEF TransferOK, NetOf

LEMMA ReversedRow ==
    ASSUME NEW t \in TransferRows, TransferOK(t), t.action \in {"credit", "debit"}, NEW a \in Nat,
           t.reversed + a <= t.amount, NEW n, n = t.reversed + a, NEW r, r = [t EXCEPT !.reversed = n]
    PROVE  /\ r \in TransferRows /\ TransferOK(r) /\ r.action = t.action
           /\ NetOf(r) = IF t.action = "credit" THEN NetOf(t) - a ELSE NetOf(t) + a
<1>0. t.amount \in Nat /\ t.reversed \in Nat BY DEF TransferRows
<1>1. n \in Nat BY <1>0
<1>2. r \in TransferRows /\ r.action = t.action /\ r.amount = t.amount /\ r.reversed = n
 BY <1>1 DEF TransferRows
<1>3. TransferOK(r) BY <1>2 DEF TransferOK
<1>4. CASE t.action = "credit"
 <2>1. NetOf(t) = t.amount - t.reversed /\ NetOf(r) = t.amount - n BY <1>2, <1>4 DEF NetOf
 <2>2. NetOf(r) = NetOf(t) - a BY <1>0, <2>1
 <2> QED BY <1>2, <1>3, <1>4, <2>2
<1>5. CASE t.action = "debit"
 <2>1. NetOf(t) = t.reversed - t.amount /\ NetOf(r) = n - t.amount BY <1>2, <1>5 DEF NetOf
 <2>2. NetOf(r) = NetOf(t) + a BY <1>0, <2>1
 <2> QED BY <1>2, <1>3, <1>5, <2>2
<1> QED BY <1>4, <1>5

LEMMA TransferTypes ==
    AssetInv => /\ \A s \in AllSources : transfer[s] \in TransferRows /\ TransferOK(transfer[s])
                /\ transfer \in [AllSources -> TransferRows] /\ books \in AssetBooks /\ hold \in [Holds -> HoldRows]
BY DEF AssetInv, BooksOK

\* postTransferWithDB.
LEMMA PostBooks ==
    ASSUME AssetInv, NEW s \in AllSources, NEW action \in {"credit", "debit"}, NEW a \in Nat, NEW dated \in BOOLEAN,
           asset = "growth" => ~dated, PostTransfer(s, action, a, dated), hold' = hold
    PROVE  /\ BooksOK(books', transfer', hold') /\ (asset = "growth" => \A l \in LotIds : ~books'.lots[l].dated)
           /\ transfer'[s].action = action /\ \A x \in AllSources \ {s} : transfer'[x] = transfer[x]
           /\ transfer[s].action = "none"
<1>0. transfer[s].action = "none" /\ transfer[s] \in TransferRows /\ transfer \in [AllSources -> TransferRows] /\ books \in AssetBooks
 BY TransferTypes DEF PostTransfer
<1>1. NetOf(transfer[s]) = 0 BY <1>0 DEF NetOf
<1>2. PICK r : r = [NoTransfer EXCEPT !.action = action, !.amount = a] OBVIOUS
<1>3. /\ r \in TransferRows /\ TransferOK(r) /\ r.action = action
      /\ NetOf(r) = IF action = "credit" THEN a ELSE 0 - a
 BY <1>2, PostedRow
<1>4. transfer' = [transfer EXCEPT ![s] = r] BY <1>2, Zenon DEF PostTransfer
<1>5. transfer'[s].action = action /\ \A x \in AllSources \ {s} : transfer'[x] = transfer[x]
 BY <1>0, <1>3, <1>4
<1>6. CASE action = "credit"
 <2>1. FreeLots # {} /\ books' = Credited(a, dated) BY <1>6, Zenon DEF PostTransfer
 <2>2. NetOf(r) = NetOf(transfer[s]) + a BY <1>1, <1>3, <1>6
 <2> QED BY <1>0, <1>3, <1>4, <1>5, <2>1, <2>2, CreditBooks
<1>7. CASE action = "debit"
 <2>1. books.available >= a /\ books' = Debited(a) BY <1>7, Zenon DEF PostTransfer
 <2>2. NetOf(r) = NetOf(transfer[s]) - a BY <1>1, <1>3, <1>7
 <2> QED BY <1>0, <1>3, <1>4, <1>5, <2>1, <2>2, DebitBooks
<1> QED BY <1>6, <1>7

LEMMA TransferStep ==
    ASSUME AssetInv, NEW s \in Sources, NEW action \in {"credit", "debit"}, NEW a \in Nat, NEW dated \in BOOLEAN,
           Transfer(s, action, a, dated)
    PROVE  AssetInv'
<1>0. /\ s \in AllSources /\ s \notin Compensations /\ Compensations \subseteq AllSources
      /\ asset' = asset /\ hold' = hold /\ compensation' = compensation /\ payer' = payer
      /\ (asset = "growth" => ~dated)
 BY AssetAssumption DEF Transfer, AllSources
<1>1. CompensationOK /\ (asset = "growth" => \A h \in Holds : hold[h].status = "none")
 BY DEF AssetInv, GrowthOK
<1>2. CASE PostTransfer(s, action, a, dated)
 <2>1. /\ BooksOK(books', transfer', hold') /\ (asset = "growth" => \A l \in LotIds : ~books'.lots[l].dated)
       /\ \A x \in AllSources \ {s} : transfer'[x] = transfer[x]
  BY <1>0, <1>2, PostBooks
 <2>2. CompensationOK' BY <1>0, <1>1, <2>1, CompensationsKeep
 <2>3. asset = "growth" => profile' = GrowthProfile(books')
  BY <1>2, Zenon DEF PostTransfer, Profile, GrowthProfile
 <2> QED BY <1>0, <1>1, <2>1, <2>2, <2>3, AssetParts DEF GrowthProfile
<1>3. CASE /\ transfer[s].action = "none" /\ action = "debit" /\ books.available < a
           /\ transfer' = [transfer EXCEPT ![s].action = "failed"] /\ UNCHANGED <<books, profile>>
 <2>0. transfer[s] \in TransferRows /\ TransferOK(transfer[s]) /\ transfer \in [AllSources -> TransferRows]
  BY <1>0, TransferTypes
 <2>1. PICK r : r = [transfer[s] EXCEPT !.action = "failed"] OBVIOUS
 <2>2. r \in TransferRows /\ r.action = "failed" /\ r.amount = transfer[s].amount /\ r.reversed = transfer[s].reversed
  BY <2>0, <2>1 DEF TransferRows
 <2>3. TransferOK(r) /\ NetOf(r) = NetOf(transfer[s]) BY <1>3, <2>0, <2>2 DEF TransferOK, NetOf
 <2>4. transfer' = [transfer EXCEPT ![s] = r] /\ \A x \in AllSources \ {s} : transfer'[x] = transfer[x]
  <3>1. transfer' = [transfer EXCEPT ![s] = r] BY <1>3, <2>1, Zenon
  <3> QED BY <2>0, <3>1
 <2>5. BooksOK(books, [transfer EXCEPT ![s] = r], hold) BY <1>0, <2>2, <2>3, FailKeeps DEF AssetInv
 <2>6. BooksOK(books', transfer', hold') BY <1>0, <1>3, <2>4, <2>5
 <2>7. CompensationOK' BY <1>0, <1>1, <2>4, CompensationsKeep
 <2>8. asset = "growth" => profile' = GrowthProfile(books') /\ \A l \in LotIds : ~books'.lots[l].dated
  BY <1>3, Zenon DEF AssetInv, GrowthOK, Profile, GrowthProfile
 <2> QED BY <1>0, <1>1, <2>6, <2>7, <2>8, AssetParts DEF GrowthProfile
<1> QED BY <1>2, <1>3 DEF Transfer

LEMMA RoomIsFree == RoomForMore => FreeLots # {}
<1>1. Cardinality(Unpaid) \in Nat BY AssetAssumption, FS_Subset, FS_CardinalityType DEF Unpaid
<1> QED BY <1>1, FS_EmptySet DEF RoomForMore

LEMMA ReverseStep ==
    ASSUME AssetInv, NEW s \in AllSources, NEW a \in Nat, ReverseTransfer(s, a) PROVE AssetInv'
<1>0. /\ asset' = asset /\ hold' = hold /\ compensation' = compensation /\ payer' = payer
      /\ Compensations \subseteq AllSources
 BY DEF ReverseTransfer, AllSources
<1>1. CompensationOK /\ (asset = "growth" => \A h \in Holds : hold[h].status = "none")
 BY DEF AssetInv, GrowthOK
<1>2. /\ transfer[s] \in TransferRows /\ TransferOK(transfer[s]) /\ transfer \in [AllSources -> TransferRows]
      /\ transfer[s].action \in {"credit", "debit"} /\ transfer[s].reversed + a <= transfer[s].amount
 BY TransferTypes DEF ReverseTransfer, MayReverse
<1>3. PICK t \in TransferRows : t = transfer[s] BY <1>2
<1>4. PICK n, r : n = t.reversed + a /\ r = [t EXCEPT !.reversed = n] OBVIOUS
<1>5. /\ r \in TransferRows /\ TransferOK(r) /\ r.action = t.action
      /\ NetOf(r) = IF t.action = "credit" THEN NetOf(t) - a ELSE NetOf(t) + a
 BY <1>2, <1>3, <1>4, ReversedRow
<1>6. transfer' = [transfer EXCEPT ![s] = r] BY <1>3, <1>4, Zenon DEF ReverseTransfer
<1>7. \A x \in AllSources : transfer'[x].action = transfer[x].action BY <1>2, <1>3, <1>5, <1>6
<1>8. BooksOK(books', transfer', hold') /\ (asset = "growth" => \A l \in LotIds : ~books'.lots[l].dated)
 <2>1. CASE t.action = "debit"
  <3>1. RoomForMore /\ books' = Credited(a, FALSE) BY <1>3, <2>1, Zenon DEF ReverseTransfer
  <3>2. NetOf(r) = NetOf(transfer[s]) + a BY <1>3, <1>5, <2>1
  <3> QED BY <1>0, <1>5, <1>6, <3>1, <3>2, RoomIsFree, CreditBooks
 <2>2. CASE t.action = "credit"
  <3>1. books.available >= a /\ books' = Debited(a)
   <4>1. t.action # "debit" BY <2>2
   <4> QED BY <1>3, <4>1, Zenon DEF ReverseTransfer
  <3>2. NetOf(r) = NetOf(transfer[s]) - a BY <1>3, <1>5, <2>2
  <3> QED BY <1>0, <1>5, <1>6, <3>1, <3>2, DebitBooks
 <2> QED BY <1>2, <1>3, <2>1, <2>2
<1>9. CompensationOK' BY <1>0, <1>1, <1>7, CompensationsKeep
<1>10. asset = "growth" => profile' = GrowthProfile(books')
 BY Zenon DEF ReverseTransfer, Profile, GrowthProfile
<1> QED BY <1>0, <1>1, <1>8, <1>9, <1>10, AssetParts DEF GrowthProfile

LEMMA FreezeStep ==
    ASSUME AssetInv, NEW h \in Holds, NEW a \in Nat, Freeze(h, a) PROVE AssetInv'
<1>0. /\ asset' = asset /\ asset = "balance" /\ transfer' = transfer /\ compensation' = compensation /\ payer' = payer
      /\ hold[h].status = "none" /\ books.available >= a
 BY DEF Freeze
<1>1. CompensationOK /\ BooksOK(books, transfer, hold) /\ books \in AssetBooks BY TransferTypes DEF AssetInv
<1>2. a <= books.available BY <1>0, <1>1 DEF AssetBooks
<1>3. PICK give : /\ give = FromLots(a) /\ \A l \in LotIds : give[l] \in Nat /\ give[l] <= books.lots[l].available
                  /\ SumFunctionOnSet(give, LotIds) = a
 BY <1>1, <1>2, FromLotsGives
<1>4. PICK L, av, fr, r : L = Froze(books, give) /\ av = books.available - a /\ fr = books.frozen + a /\ r = NewHold(a, give)
 OBVIOUS
<1>5. PICK C : C = [books EXCEPT !.available = av, !.frozen = fr, !.lots = L] OBVIOUS
<1>6. books' = C BY <1>3, <1>4, <1>5, Zenon DEF Freeze, Froze
<1>7. hold' = [hold EXCEPT ![h] = r] BY <1>3, <1>4, Zenon DEF Freeze, NewHold
<1>8. IsFreeze(books, hold, a, give, L, av, fr, C, h, r) BY <1>0, <1>2, <1>3, <1>4, <1>5, Zenon DEF IsFreeze
<1>9. BooksOK(C, transfer, [hold EXCEPT ![h] = r]) BY <1>1, <1>8, FreezeKeeps, Zenon
<1>10. BooksOK(books', transfer', hold') BY <1>0, <1>6, <1>7, <1>9, Zenon
<1>11. CompensationOK' BY <1>0, <1>1, CompensationsKeep
<1> QED BY <1>0, <1>10, <1>11, AssetParts

\* The hold after it gave up something never reads none.
LEMMA StatusOfHold ==
    ASSUME NEW R, NEW action
    PROVE  HoldStatus(R, action) \in {"active", "partially_committed", "committed", "released", "expired"}
BY DEF HoldStatus

\* What each part of a hold gives up.
PartsGive(R, a, use) ==
    (\A l \in LotIds : use[l] \in Nat /\ use[l] <= PartRest(R.part[l])) /\ SumFunctionOnSet(use, LotIds) = a

\* As ApplyHold has it.
UseOf(R, a) ==
    [l \in LotIds |-> Share(a, [k \in LotIds |-> PartRest(R.part[k])], [m \in LotIds |-> 1..(m - 1)], l)]

LEMMA PartsShare ==
    ASSUME NEW R \in HoldRows, HoldOK(R), NEW a \in Nat, a <= HoldRest(R)
    PROVE  PartsGive(R, a, UseOf(R, a))
<1>5. PICK left : left = [l \in LotIds |-> PartRest(R.part[l])] OBVIOUS
<1>6. PICK earlier : earlier = [m \in LotIds |-> 1..(m - 1)] OBVIOUS
<1>7. PICK use : use = [l \in LotIds |-> Share(a, left, earlier, l)] /\ use = UseOf(R, a)
 BY <1>5, <1>6, Zenon DEF UseOf
<1>1. IsTurn(earlier, LotIds) BY <1>6, TurnsOfParts
<1>2. \A l \in LotIds : left[l] = PartRest(R.part[l]) /\ left[l] \in Nat
 BY <1>5 DEF HoldRows, PartRows, HoldOK, PartRest
<1>3. a <= SumFunctionOnSet(left, LotIds) BY <1>5 DEF HoldOK, RestOfParts
<1>4. (\A l \in LotIds : use[l] \in Nat /\ use[l] <= left[l]) /\ SumFunctionOnSet(use, LotIds) = a
 BY <1>1, <1>2, <1>3, <1>7, SharesOfLots
<1> QED BY <1>2, <1>4, <1>7 DEF PartsGive

\* applyHold.
LEMMA ApplyStep ==
    ASSUME AssetInv, NEW h \in Holds, NEW action, NEW a \in Nat, ApplyHold(h, action, a) PROVE AssetInv'
<1>0. /\ asset' = asset /\ transfer' = transfer /\ compensation' = compensation /\ payer' = payer
      /\ hold[h].status \in {"active", "partially_committed"} /\ a <= HoldRest(hold[h])
 BY DEF ApplyHold
<1>1. CompensationOK /\ BooksOK(books, transfer, hold) /\ hold[h] \in HoldRows /\ HoldOK(hold[h])
 BY TransferTypes DEF AssetInv, BooksOK
<1>2. asset # "growth" BY <1>0 DEF AssetInv, GrowthOK
<1>5. PICK use : use = UseOf(hold[h], a) /\ PartsGive(hold[h], a, use) BY <1>0, <1>1, PartsShare
<1>9. PICK commit \in BOOLEAN : commit = (action = "commit")
 <2>1. (action = "commit") \in BOOLEAN OBVIOUS
 <2> QED BY <2>1, Zenon
<1>10. PICK returned \in SUBSET LotIds : returned = {l \in LotIds : ~commit /\ ComesBack(l)} OBVIOUS
<1>11. (commit => returned = {}) /\ \A l \in LotIds : commit \/ l \in returned \/ books.lots[l].past
 BY <1>10 DEF ComesBack
<1>12. PICK back, L : back = SumFunctionOnSet(use, returned) /\ L = Applied(books, use, returned, commit)
 OBVIOUS
<1>13. PICK av, fr, ct : av = books.available + back /\ fr = books.frozen - a /\ ct = books.control + (a - back)
 OBVIOUS
<1>14. PICK C : C = [books EXCEPT !.available = av, !.frozen = fr, !.control = ct, !.lots = L] OBVIOUS
<1>15. books' = C BY <1>5, <1>9, <1>10, <1>12, <1>13, <1>14, Zenon DEF ApplyHold, Applied, UseOf
<1>16. PICK st \in {"active", "partially_committed", "committed", "released", "expired"} :
          st = HoldStatus(HoldApplied(hold[h], use, a, commit), action)
 BY StatusOfHold
<1>17. PICK r : r = [HoldApplied(hold[h], use, a, commit) EXCEPT !.status = st] OBVIOUS
<1>18. hold' = [hold EXCEPT ![h] = r] BY <1>5, <1>9, <1>16, <1>17, Zenon DEF ApplyHold, HoldApplied, UseOf
<1>20. IsApply(books, hold, h, a, use, commit, returned, back, L, av, fr, ct, C, st, r)
 BY <1>0, <1>5, <1>11, <1>12, <1>13, <1>14, <1>16, <1>17, Zenon DEF IsApply, PartsGive
<1>21. BooksOK(C, transfer, [hold EXCEPT ![h] = r]) BY <1>1, <1>20, ApplyKeeps, Zenon
<1>22. BooksOK(books', transfer', hold') BY <1>0, <1>15, <1>18, <1>21, Zenon
<1>23. CompensationOK' BY <1>0, <1>1, CompensationsKeep
<1> QED BY <1>0, <1>2, <1>22, <1>23, AssetParts

LEMMA ExpireHoldStep ==
    ASSUME AssetInv, NEW h \in Holds, ExpireHold(h) PROVE AssetInv'
<1>1. PICK a \in Nat : a = HoldRest(hold[h])
 BY TransferTypes DEF AssetInv, BooksOK, HoldOK, HoldRows, HoldRest
<1>2. ApplyHold(h, "expire", a) BY <1>1, Zenon DEF ExpireHold
<1> QED BY <1>2, ApplyStep

LEMMA DateComesStep ==
    ASSUME AssetInv, NEW l \in LotIds, LotDateComes(l) \/ ListDueLot(l) PROVE AssetInv'
<1>0. asset' = asset /\ transfer' = transfer /\ hold' = hold /\ compensation' = compensation /\ payer' = payer
 BY DEF LotDateComes, ListDueLot
<1>1. CompensationOK /\ BooksOK(books, transfer, hold) /\ LotOK(books.lots[l]) BY DEF AssetInv, BooksOK
<1>2. books.lots[l].dated BY <1>1 DEF LotOK, LotDateComes, ListDueLot
<1>3. asset # "growth" BY <1>2 DEF AssetInv, GrowthOK
<1>4. PICK M : /\ M = [books.lots[l] EXCEPT !.past = TRUE] \/ M = [books.lots[l] EXCEPT !.listed = TRUE]
               /\ books' = [books EXCEPT !.lots[l] = M]
 BY Zenon DEF LotDateComes, ListDueLot
<1>5. PICK C : C = [books EXCEPT !.lots[l] = M] OBVIOUS
<1>6. BooksOK(C, transfer, hold) BY <1>1, <1>2, <1>4, <1>5, DateComesKeeps
<1>7. BooksOK(books', transfer', hold') BY <1>0, <1>4, <1>5, <1>6, Zenon
<1>8. CompensationOK' BY <1>0, <1>1, CompensationsKeep
<1> QED BY <1>0, <1>3, <1>7, <1>8, AssetParts

LEMMA ExpireLotStep ==
    ASSUME AssetInv, NEW l \in LotIds, ExpireLot(l) PROVE AssetInv'
<1>0. /\ asset' = asset /\ transfer' = transfer /\ hold' = hold /\ compensation' = compensation /\ payer' = payer
      /\ books.lots[l].past
 BY DEF ExpireLot
<1>1. CompensationOK /\ BooksOK(books, transfer, hold) BY DEF AssetInv
<1>2. asset # "growth" BY <1>0 DEF AssetInv, GrowthOK, BooksOK, LotOK
<1>3. PICK e, M : e = books.lots[l].available /\ M = LotExpired(books.lots[l], e) OBVIOUS
<1>4. PICK av, ct : av = books.available - e /\ ct = books.control + e OBVIOUS
<1>5. PICK C : C = [books EXCEPT !.available = av, !.control = ct, !.lots[l] = M] OBVIOUS
<1>6. books' = C BY <1>3, <1>4, <1>5, Zenon DEF ExpireLot, Expiring, LotExpired
<1>7. BooksOK(C, transfer, hold) BY <1>0, <1>1, <1>3, <1>4, <1>5, ExpireKeeps
<1>8. BooksOK(books', transfer', hold') BY <1>0, <1>6, <1>7, Zenon
<1>9. CompensationOK' BY <1>0, <1>1, CompensationsKeep
<1> QED BY <1>0, <1>2, <1>8, <1>9, AssetParts

----------------------------------------
\* The compensation worker.
LEMMA BooksRest ==
    ASSUME AssetInv, UNCHANGED <<asset, books, transfer, hold, profile>>, CompensationOK' PROVE AssetInv'
<1>1. BooksOK(books', transfer', hold') BY DEF AssetInv
<1>2. asset = "growth" =>
         /\ profile' = GrowthProfile(books') /\ \A h \in Holds : hold'[h].status = "none"
         /\ \A l \in LotIds : ~books'.lots[l].dated
 BY Zenon DEF AssetInv, GrowthOK, Profile, GrowthProfile
<1> QED BY <1>1, <1>2, AssetParts DEF GrowthProfile

LEMMA ClaimCompensationStep ==
    ASSUME AssetInv, NEW w \in Payers, NEW c \in Compensations, ClaimCompensation(w, c) PROVE AssetInv'
<1>1. CompensationOK' BY DEF AssetInv, CompensationOK, ClaimCompensation, CompensationRows
<1> QED BY <1>1, BooksRest DEF ClaimCompensation

LEMMA IssueCompensationStep ==
    ASSUME AssetInv, NEW w \in Payers, NEW a \in Nat, IssueCompensation(w, a) PROVE AssetInv'
<1>0. asset' = asset /\ hold' = hold /\ compensation' = compensation /\ payer[w].step = "claimed"
 BY DEF IssueCompensation
<1>1. CompensationOK /\ (asset = "growth" => \A h \in Holds : hold[h].status = "none")
 BY DEF AssetInv, GrowthOK
<1>2. PICK c \in Compensations : c = payer[w].row BY <1>0, <1>1 DEF CompensationOK
<1>20. c \in AllSources /\ Compensations \subseteq AllSources BY DEF AllSources
<1>3. CASE /\ CreditCompensation(c, a) /\ payer' = [payer EXCEPT ![w].step = "credited"]
 <2>1. CASE PostTransfer(c, "credit", a, FALSE)
  <3>1. /\ BooksOK(books', transfer', hold') /\ (asset = "growth" => \A l \in LotIds : ~books'.lots[l].dated)
        /\ transfer'[c].action = "credit" /\ \A x \in AllSources \ {c} : transfer'[x] = transfer[x]
        /\ transfer[c].action = "none"
   BY <1>0, <1>20, <2>1, PostBooks
  <3>2. CompensationOK' BY <1>0, <1>1, <1>2, <1>20, <1>3, <3>1 DEF CompensationOK
  <3>3. asset = "growth" => profile' = GrowthProfile(books')
   BY <2>1, Zenon DEF PostTransfer, Profile, GrowthProfile
  <3> QED BY <1>0, <1>1, <3>1, <3>2, <3>3, AssetParts DEF GrowthProfile
 <2>2. CASE transfer[c].action # "none" /\ UNCHANGED <<books, transfer, profile>>
  <3>1. CompensationOK' BY <1>0, <1>1, <1>2, <1>3, <2>2 DEF CompensationOK
  <3> QED BY <1>0, <2>2, <3>1, BooksRest
 <2> QED BY <1>3, <2>1, <2>2 DEF CreditCompensation
<1>4. CASE payer' = [payer EXCEPT ![w].step = "refused"] /\ UNCHANGED <<books, transfer, profile>>
 <2>1. CompensationOK' BY <1>0, <1>1, <1>2, <1>4 DEF CompensationOK
 <2> QED BY <1>0, <1>4, <2>1, BooksRest
<1> QED BY <1>2, <1>3, <1>4 DEF IssueCompensation

LEMMA RejectCompensationStep ==
    ASSUME AssetInv, NEW w \in Payers, RejectCompensation(w) PROVE AssetInv'
<1>1. CompensationOK /\ payer[w].step = "claimed" BY DEF AssetInv, RejectCompensation
<1>2. PICK c \in Compensations : c = payer[w].row BY <1>1 DEF CompensationOK
<1>3. CompensationOK' BY <1>1, <1>2 DEF CompensationOK, CompensationRows, RejectCompensation, NotPaying
<1> QED BY <1>3, BooksRest DEF RejectCompensation

LEMMA RecordCompensationStep ==
    ASSUME AssetInv, NEW w \in Payers, RecordCompensation(w) PROVE AssetInv'
<1>1. CompensationOK /\ payer[w].step \in {"credited", "refused"} BY DEF AssetInv, RecordCompensation
<1>2. PICK c \in Compensations : c = payer[w].row BY <1>1 DEF CompensationOK
<1>3. PICK r : r = IF payer[w].step = "refused" THEN [compensation[c] EXCEPT !.status = "approved", !.live = FALSE]
                   ELSE IF compensation[c].status = "issuing"
                   THEN [compensation[c] EXCEPT !.status = "issued", !.live = FALSE] ELSE compensation[c]
 OBVIOUS
<1>4. r \in CompensationRows /\ (r.status = "issued" => transfer[c].action = "credit")
 <2>1. PICK q \in CompensationRows : q = compensation[c] BY <1>1 DEF CompensationOK
 <2>2. /\ [q EXCEPT !.status = "approved", !.live = FALSE] \in CompensationRows
       /\ [q EXCEPT !.status = "issued", !.live = FALSE] \in CompensationRows
       /\ [q EXCEPT !.status = "approved", !.live = FALSE].status = "approved"
  BY DEF CompensationRows
 <2>3. /\ payer[w].step = "credited" => transfer[c].action = "credit"
       /\ q.status = "issued" => transfer[c].action = "credit"
  BY <1>1, <1>2, <2>1 DEF CompensationOK
 <2> QED BY <1>1, <1>3, <2>1, <2>2, <2>3
<1>5. compensation' = [compensation EXCEPT ![c] = r] /\ payer' = [payer EXCEPT ![w] = NotPaying] /\ transfer' = transfer
 BY <1>2, <1>3, Zenon DEF RecordCompensation
<1>6. CompensationOK' BY <1>1, <1>4, <1>5 DEF CompensationOK, NotPaying
<1> QED BY <1>6, BooksRest DEF RecordCompensation

LEMMA PayerDiesStep ==
    ASSUME AssetInv, NEW w \in Payers, PayerDies(w) PROVE AssetInv'
<1>1. CompensationOK' BY DEF AssetInv, CompensationOK, PayerDies, NotPaying
<1> QED BY <1>1, BooksRest DEF PayerDies

LEMMA CompensationLeaseStep ==
    ASSUME AssetInv, NEW c \in Compensations, CompensationLeaseEnds(c) PROVE AssetInv'
<1>1. CompensationOK' BY DEF AssetInv, CompensationOK, CompensationLeaseEnds, CompensationRows
<1> QED BY <1>1, BooksRest DEF CompensationLeaseEnds

LEMMA AssetInitially == AssetInit => AssetInv
<1> SUFFICES ASSUME AssetInit PROVE AssetInv
 OBVIOUS
<1>1. /\ books = [available |-> 0, frozen |-> 0, control |-> 0, lots |-> [l \in LotIds |-> NoLot]]
      /\ transfer = [s \in AllSources |-> NoTransfer] /\ hold = [h \in Holds |-> NoHold]
 BY DEF AssetInit
<1>2. /\ books \in AssetBooks /\ books.available = 0 /\ books.frozen = 0 /\ books.control = 0
      /\ \A l \in LotIds : LotOK(books.lots[l]) /\ ~books.lots[l].dated /\ books.lots[l].available = 0
                           /\ books.lots[l].frozen = 0 /\ books.lots[l].expired = 0
 BY <1>1 DEF AssetBooks, LotRows, NoLot, LotOK
<1>3. transfer \in [AllSources -> TransferRows] /\ \A s \in AllSources : TransferOK(transfer[s]) /\ NetOf(transfer[s]) = 0
 BY <1>1 DEF TransferRows, NoTransfer, TransferOK, NetOf
<1>4. /\ hold \in [Holds -> HoldRows] /\ \A h \in Holds : hold[h] = NoHold
 BY <1>1, NoHoldFacts
<1>5. AvailableIn(books) = 0 /\ FrozenIn(books) = 0 /\ ExpiredIn(books) = 0
 <2>1. \A l \in LotIds : /\ [k \in LotIds |-> books.lots[k].available][l] = 0
                         /\ [k \in LotIds |-> books.lots[k].frozen][l] = 0
                         /\ [k \in LotIds |-> books.lots[k].expired][l] = 0
  BY <1>2
 <2> QED BY <2>1, FiniteAssets, SumZero DEF AvailableIn, FrozenIn, ExpiredIn
<1>6. NetIn(transfer) = 0
 <2>1. \A s \in AllSources : [x \in AllSources |-> NetOf(transfer[x])][s] = 0 BY <1>3
 <2> QED BY <2>1, FiniteAssets, SumZero DEF NetIn
<1>7. RestIn(hold) = 0 /\ CommittedIn(hold) = 0 /\ \A l \in LotIds : FrozenBy(hold, l) = 0
 <2>1. \A h \in Holds : /\ [x \in Holds |-> HoldRest(hold[x])][h] = 0 /\ [x \in Holds |-> hold[x].committed][h] = 0
  BY <1>4, NoHoldFacts
 <2>2. \A l \in LotIds : \A h \in Holds : [x \in Holds |-> PartRest(hold[x].part[l])][h] = 0
  BY <1>4, NoHoldFacts
 <2> QED BY <2>1, <2>2, FiniteAssets, SumZero DEF RestIn, CommittedIn, FrozenBy
<1>8. \A h \in Holds : HoldOK(hold[h])
 <2>1. RestOfParts(NoHold) = 0
  <3>1. \A l \in LotIds : [k \in LotIds |-> PartRest(NoHold.part[k])][l] = 0 BY NoHoldFacts
  <3> QED BY <3>1, FiniteAssets, SumZero DEF RestOfParts
 <2>2. HoldOK(NoHold) BY <2>1, NoHoldFacts DEF HoldOK, NoHold, NoPart
 <2> QED BY <1>4, <2>2
<1>9. BooksOK(books, transfer, hold) BY <1>2, <1>3, <1>4, <1>5, <1>6, <1>7, <1>8 DEF BooksOK
<1>10. CompensationOK BY DEF AssetInit, CompensationOK, CompensationRows, NotPaying, NoTransfer, AllSources
<1>11. GrowthOK
 <2>1. profile = [growth |-> 0, tier |-> "normal"] BY DEF AssetInit
 <2>2. asset = "growth" => profile = Profile(books) BY <1>2, <2>1 DEF Profile
 <2>3. \A h \in Holds : hold[h].status = "none" BY <1>4 DEF NoHold
 <2> QED BY <1>2, <2>2, <2>3 DEF GrowthOK
<1>12. asset \in {"balance", "growth"} BY DEF AssetInit
<1> QED BY <1>9, <1>10, <1>11, <1>12 DEF AssetInv

LEMMA AssetKeeps == AssetInv /\ AssetNext => AssetInv'
<1> SUFFICES ASSUME AssetInv, AssetNext PROVE AssetInv'
 OBVIOUS
<1>0. Amounts \subseteq Nat BY AssetAssumption
<1>1. ASSUME NEW s \in Sources, NEW action \in {"credit", "debit"}, NEW a \in Amounts, NEW dated \in BOOLEAN,
             Transfer(s, action, a, dated)
      PROVE  AssetInv'
 BY <1>0, <1>1, TransferStep
<1>2. ASSUME NEW s \in AllSources, NEW a \in Amounts, ReverseTransfer(s, a) PROVE AssetInv'
 BY <1>0, <1>2, ReverseStep
<1>3. ASSUME NEW h \in Holds, NEW a \in Amounts, Freeze(h, a) \/ CommitHold(h, a) \/ ReleaseHold(h, a) PROVE AssetInv'
 BY <1>0, <1>3, FreezeStep, ApplyStep DEF CommitHold, ReleaseHold
<1>4. ASSUME NEW h \in Holds, ExpireHold(h) PROVE AssetInv' BY <1>4, ExpireHoldStep
<1>5. ASSUME NEW l \in LotIds, LotDateComes(l) \/ ListDueLot(l) \/ ExpireLot(l) PROVE AssetInv'
 BY <1>5, DateComesStep, ExpireLotStep
<1>6. ASSUME NEW w \in Payers, PayerStep(w) PROVE AssetInv'
 BY <1>0, <1>6, ClaimCompensationStep, IssueCompensationStep, RejectCompensationStep, RecordCompensationStep DEF PayerStep
<1>7. ASSUME NEW w \in Payers, PayerDies(w) PROVE AssetInv' BY <1>7, PayerDiesStep
<1>8. ASSUME NEW c \in Compensations, CompensationLeaseEnds(c) PROVE AssetInv' BY <1>8, CompensationLeaseStep
<1> QED BY <1>1, <1>2, <1>3, <1>4, <1>5, <1>6, <1>7, <1>8 DEF AssetNext

LEMMA AssetRests == AssetInv /\ UNCHANGED assetVars => AssetInv'
<1> SUFFICES ASSUME AssetInv, UNCHANGED assetVars PROVE AssetInv'
 OBVIOUS
<1>1. UNCHANGED <<asset, books, transfer, hold, profile, compensation, payer>> BY DEF assetVars
<1>2. CompensationOK' BY <1>1, CompensationsKeep DEF AssetInv
<1> QED BY <1>1, <1>2, BooksRest

----------------------------------------
(* The workers side by side. *)

JobsInv == CInv /\ PrintInv /\ NotifyInv /\ ReminderInv /\ IntegrityInv /\ BillsInv /\ AssetInv

LEMMA JobsInitially == JobsInit => JobsInv
BY CInitially, PrintInitially, NotifyInitially, ReminderInitially, IntegrityInitially, BillsInitially, AssetInitially
   DEF JobsInit, JobsInv

LEMMA JobsKeep == JobsInv /\ [JobsNext]_jobVars => JobsInv'
<1> SUFFICES ASSUME JobsInv, [JobsNext]_jobVars PROVE JobsInv'
 OBVIOUS
<1>1. CInv /\ PrintInv /\ NotifyInv /\ ReminderInv /\ IntegrityInv /\ BillsInv /\ AssetInv BY DEF JobsInv
<1>2. CInv'
 <2>1. ConsumerNext \/ UNCHANGED cvars
  BY DEF JobsNext, jobVars, FulfilmentPart, MessagesPart, PrintingPart, NoticesPart, IntegrityPart,
         RemindersPart, AssetsPart, BillsPart
 <2> QED BY <1>1, <2>1, ConsumerKeeps
<1>3. PrintInv'
 <2>1. PrintNext \/ UNCHANGED pvars
  BY DEF JobsNext, jobVars, FulfilmentPart, MessagesPart, PrintingPart, NoticesPart, IntegrityPart,
         RemindersPart, AssetsPart, BillsPart
 <2> QED BY <1>1, <2>1, PrintKeeps, PrintRests
<1>4. NotifyInv'
 <2>1. NotifyNext \/ UNCHANGED nvars
  BY DEF JobsNext, jobVars, FulfilmentPart, MessagesPart, PrintingPart, NoticesPart, IntegrityPart,
         RemindersPart, AssetsPart, BillsPart
 <2> QED BY <1>1, <2>1, NotifyKeeps, NotifyRests
<1>5. ReminderInv'
 <2>1. ReminderNext \/ UNCHANGED remVars
  BY DEF JobsNext, jobVars, FulfilmentPart, MessagesPart, PrintingPart, NoticesPart, IntegrityPart,
         RemindersPart, AssetsPart, BillsPart
 <2> QED BY <1>1, <2>1, ReminderKeeps, ReminderRests
<1>6. IntegrityInv'
 <2>1. IntegrityNext \/ UNCHANGED integrityVars
  BY DEF JobsNext, jobVars, FulfilmentPart, MessagesPart, PrintingPart, NoticesPart, IntegrityPart,
         RemindersPart, AssetsPart, BillsPart
 <2> QED BY <1>1, <2>1, IntegrityKeeps, IntegrityRests
<1>7. BillsInv'
 <2>1. BillsNext \/ UNCHANGED billVars
  BY DEF JobsNext, jobVars, FulfilmentPart, MessagesPart, PrintingPart, NoticesPart, IntegrityPart,
         RemindersPart, AssetsPart, BillsPart
 <2> QED BY <1>1, <2>1, BillsKeep, BillsRest
<1>8. AssetInv'
 <2>1. AssetNext \/ UNCHANGED assetVars
  BY DEF JobsNext, jobVars, FulfilmentPart, MessagesPart, PrintingPart, NoticesPart, IntegrityPart,
         RemindersPart, AssetsPart, BillsPart
 <2> QED BY <1>1, <2>1, AssetKeeps, AssetRests
<1> QED BY <1>2, <1>3, <1>4, <1>5, <1>6, <1>7, <1>8 DEF JobsInv

\* WorkIsReal of MCJobs, for every number of print tasks, notices, facts, workers, faults
\* and retries: what reads done was done, a receipt is printed again only after an
\* interrupted attempt, and a customer is reminded once (the claim, send and finish steps of
\* the print, notification and reminder workers).
THEOREM WorkIsRealAlways == JobsSpec => []WorkIsReal
<1>1. JobsInv => WorkIsReal BY PrintInvImplies, NotifyInvImplies, ReminderInvImplies DEF JobsInv, WorkIsReal
<1> QED BY <1>1, JobsInitially, JobsKeep, PTL DEF JobsSpec

\* CycleFindsAll of TicketIntegrity, for every number of replicas, phases, rows and days and
\* every size of a batch: a completed cycle has checked each of its rows once and reported
\* what was wrong all the time (claimCheckpoint, scanBatchFacts, persistClaimedBatch).
THEOREM CycleFindsAllAlways == JobsSpec => []CycleFindsAll
<1>1. JobsInv => CycleFindsAll BY IntegrityInvImplies DEF JobsInv
<1> QED BY <1>1, JobsInitially, JobsKeep, PTL DEF JobsSpec

\* BooksAgree of MCJobs, for every number of sources, compensations, holds, lots, workers,
\* clerks and days and all amounts: the customer's balances are what the transactions, the
\* lots and the holds say (postTransferWithDB, ReverseTransfer, Freeze, applyHold, expireLot,
\* issueCompensation), and a finished comparison of a day's bill reports a difference just
\* when there is one (AcquireRun, CompleteRun, CompareDate).
THEOREM BooksAgreeAlways == JobsSpec => []BooksAgree
<1>1. JobsInv => BooksAgree BY AssetInvImplies, BillsInvImplies DEF JobsInv, BooksAgree
<1> QED BY <1>1, JobsInitially, JobsKeep, PTL DEF JobsSpec
=============================================================================
