---------------------------- MODULE Idempotency ----------------------------
(***************************************************************************)
(* The shared Idempotency-Key store (internal/pkg/idempotency) together    *)
(* with the two ways handlers use it:                                      *)
(*                                                                         *)
(*  - transactional endpoints run Start, the business write and Succeed    *)
(*    (or Fail) in one database transaction;                               *)
(*  - external endpoints (the keys in External: payment creation, payment  *)
(*    confirmation, bill jobs) commit the claim, call a provider outside   *)
(*    any transaction, and finish with SucceedOwned or FailOwned, which    *)
(*    carry the claim's fencing id.                                        *)
(*                                                                         *)
(* An attempt is one HTTP request: it draws a fresh Snowflake id, so the   *)
(* attempt itself stands for its claim id, and the response it computes is *)
(* identified with it.  The 30 s lease is "live" until time passes it.     *)
(***************************************************************************)
EXTENDS FiniteSets

CONSTANTS Attempts,   \* HTTP requests (each with its own claim id)
          Keys,       \* (actor, path, Idempotency-Key) triples
          Hashes,     \* request hashes
          KeyOf,      \* the key an attempt carries
          HashOf,     \* the hash of the payload an attempt carries
          External,   \* keys of endpoints that call a provider between transactions
          None

ASSUME ConstantsAssumption ==
    /\ KeyOf \in [Attempts -> Keys]
    /\ HashOf \in [Attempts -> Hashes]
    /\ External \subseteq Keys
    /\ None \notin Attempts
    /\ None \notin Hashes

VARIABLES row,      \* idempotency_keys, one row per key
          pc,       \* where each attempt's handler stands
          served,   \* the response an attempt was answered with
          lapsed,   \* history: attempts whose lease ran out while they held it
          effects   \* effects[k]: attempts whose business effect took place

vars == <<row, pc, served, lapsed, effects>>

Statuses == {"none", "processing", "succeeded", "failed"}
Leases   == {"null", "live", "lapsed"}
Working  == {"claimed", "called"}
Ended    == {"answered", "reused", "claimLost", "failed", "rejected", "dead"}
PCs      == {"new", "checked", "committed", "inProgress"} \cup Working \cup Ended

Record == [status : Statuses, id : Attempts \cup {None}, hash : Hashes \cup {None},
           lease : Leases, body : Attempts \cup {None}]

NoRow == [status |-> "none", id |-> None, hash |-> None, lease |-> "null", body |-> None]

Init ==
    /\ row = [k \in Keys |-> NoRow]
    /\ pc = [a \in Attempts |-> "new"]
    /\ served = [a \in Attempts |-> None]
    /\ lapsed = {}
    /\ effects = [k \in Keys |-> {}]

Goto(a, label) == pc' = [pc EXCEPT ![a] = label]

\* The row as attempt a, its owner, writes it.  The *Owned updates leave id and
\* request_hash alone: their WHERE clause has found the owner's.
Save(a, status, lease, body) ==
    row' = [row EXCEPT ![KeyOf[a]] = [status |-> status, id |-> a, hash |-> HashOf[a],
                                      lease |-> lease, body |-> body]]

\* Mutants of Claimable: the succeeded status, the live lease or the lapsed lease
\* is forgotten in the UPDATE's WHERE clause.
Claimable_Succeeded(a) ==
    row[KeyOf[a]].status = "none" \/ (row[KeyOf[a]].hash = HashOf[a] /\ row[KeyOf[a]].lease # "live")
Claimable_LiveLease(a) ==
    row[KeyOf[a]].status = "none" \/ (row[KeyOf[a]].hash = HashOf[a] /\ row[KeyOf[a]].status # "succeeded")
Claimable_NullOnly(a) ==
    row[KeyOf[a]].status = "none" \/ (row[KeyOf[a]].hash = HashOf[a] /\ row[KeyOf[a]].status = "failed")

(***************************************************************************)
(* StartAt.  The insert succeeds when the key has no row; the guarded      *)
(* UPDATE adopts the attempt's id when the payload is the same, the row    *)
(* has not succeeded and no lease is live.                                 *)
(***************************************************************************)
Claimable(a) ==
    LET rec == row[KeyOf[a]] IN
    \/ rec.status = "none"
    \/ rec.hash = HashOf[a] /\ rec.status # "succeeded" /\ rec.lease # "live"

\* Mutant: the payload is not compared before a stored response is replayed.
ExistingClaimResult_AnyHash(a) ==
    /\ row[KeyOf[a]].status = "succeeded"
    /\ Goto(a, "answered")
    /\ served' = [served EXCEPT ![a] = row[KeyOf[a]].body]

\* The answer to an attempt that did not get the claim: existingClaimResult,
\* and CachedResponse when the key has already succeeded.
ExistingClaimResult(a) ==
    LET rec == row[KeyOf[a]] IN
    \/ /\ rec.hash # HashOf[a]
       /\ Goto(a, "reused")
       /\ UNCHANGED served
    \/ /\ rec.hash = HashOf[a] /\ rec.status = "succeeded"
       /\ Goto(a, "answered")
       /\ served' = [served EXCEPT ![a] = rec.body]
    \/ /\ rec.hash = HashOf[a] /\ rec.status # "succeeded"
       /\ Goto(a, "inProgress")
       /\ UNCHANGED served

\* ReplayCompleted: the optional read-only look before any expensive work.
ReplayCompleted(a) ==
    LET rec == row[KeyOf[a]] IN
    /\ pc[a] = "new"
    /\ \/ /\ rec.status # "none"
          /\ rec.hash # HashOf[a] \/ rec.status = "succeeded" \/ rec.lease = "live"
          /\ ExistingClaimResult(a)
       \/ /\ \/ rec.status = "none"
             \/ rec.hash = HashOf[a] /\ rec.status # "succeeded" /\ rec.lease # "live"
          /\ Goto(a, "checked")
          /\ UNCHANGED served
    /\ UNCHANGED <<row, lapsed, effects>>

\* StartAt in a transaction of its own, before a provider call.
StartAt(a) ==
    /\ pc[a] \in {"new", "checked"}
    /\ KeyOf[a] \in External
    /\ \/ /\ Claimable(a)
          /\ Save(a, "processing", "live", row[KeyOf[a]].body)
          /\ Goto(a, "claimed")
          /\ UNCHANGED served
       \/ /\ ~Claimable(a)
          /\ ExistingClaimResult(a)
          /\ UNCHANGED row
    /\ UNCHANGED <<lapsed, effects>>

\* The provider call made between the two transactions; it may or may not have
\* taken effect by the time the handler hears of it.
CallProvider(a) ==
    /\ pc[a] = "claimed"
    /\ Goto(a, "called")
    /\ effects' \in {effects, [effects EXCEPT ![KeyOf[a]] = @ \cup {a}]}
    /\ UNCHANGED <<row, served, lapsed>>

\* Mutant: Succeed's unfenced WHERE clause used across transactions.
Owns_Unfenced(a) == row[KeyOf[a]].status # "none"

\* The fencing predicate of both *Owned updates.
Owns(a) == row[KeyOf[a]].id = a /\ row[KeyOf[a]].status = "processing"

SucceedOwned(a) ==
    /\ pc[a] = "called"
    /\ \/ /\ Owns(a)
          /\ Save(a, "succeeded", "null", a)
          /\ Goto(a, "committed")
       \/ /\ ~Owns(a)
          /\ Goto(a, "claimLost")
          /\ UNCHANGED row
    /\ UNCHANGED <<served, lapsed, effects>>

FailOwned(a) ==
    /\ pc[a] = "called"
    /\ \/ /\ Owns(a)
          /\ Save(a, "failed", "null", row[KeyOf[a]].body)
          /\ Goto(a, "failed")
       \/ /\ ~Owns(a)
          /\ Goto(a, "claimLost")
          /\ UNCHANGED row
    /\ UNCHANGED <<served, lapsed, effects>>

\* The handler answers with the response it has just committed.
Respond(a) ==
    /\ pc[a] = "committed"
    /\ Goto(a, "answered")
    /\ served' = [served EXCEPT ![a] = a]
    /\ UNCHANGED <<row, lapsed, effects>>

(***************************************************************************)
(* Transactional endpoints: Start, the write and Succeed commit together.  *)
(* The unique-key write lock taken by the insert is held to the end of the *)
(* transaction, so the whole transaction is one step.                      *)
(***************************************************************************)
TxBegin(a) ==
    /\ pc[a] \in {"new", "checked"}
    /\ KeyOf[a] \notin External

Succeed(a) ==
    /\ TxBegin(a)
    /\ Claimable(a)
    /\ Save(a, "succeeded", "null", a)
    /\ effects' = [effects EXCEPT ![KeyOf[a]] = @ \cup {a}]
    /\ Goto(a, "committed")
    /\ UNCHANGED <<served, lapsed>>

\* Fail: the transaction commits the refusal, without the business write.
Fail(a) ==
    /\ TxBegin(a)
    /\ Claimable(a)
    /\ Save(a, "failed", "null", row[KeyOf[a]].body)
    /\ Goto(a, "failed")
    /\ UNCHANGED <<served, lapsed, effects>>

\* The business rule refuses, or the process dies: the transaction rolls back.
TxRollback(a) ==
    /\ TxBegin(a)
    /\ Claimable(a)
    /\ Goto(a, "rejected")
    /\ UNCHANGED <<row, served, lapsed, effects>>

TxExisting(a) ==
    /\ TxBegin(a)
    /\ ~Claimable(a)
    /\ ExistingClaimResult(a)
    /\ UNCHANGED <<row, lapsed, effects>>

(***************************************************************************)
(* The environment.                                                        *)
(***************************************************************************)
\* The process dies: between transactions, or before its response leaves.
Crash(a) ==
    /\ pc[a] \in Working \cup {"committed"}
    /\ Goto(a, "dead")
    /\ UNCHANGED <<row, served, lapsed, effects>>

\* now reaches locked_until.
LeaseExpires(k) ==
    /\ row[k].lease = "live"
    /\ row' = [row EXCEPT ![k].lease = "lapsed"]
    /\ lapsed' = lapsed \cup {row[k].id}
    /\ UNCHANGED <<pc, served, effects>>

\* A client told IDEMPOTENCY_REQUEST_IN_PROGRESS sends its request again.
Retry(a) ==
    /\ pc[a] = "inProgress"
    /\ Goto(a, "new")
    /\ UNCHANGED <<row, served, lapsed, effects>>

Handle(a) ==
    \/ StartAt(a) \/ CallProvider(a) \/ SucceedOwned(a) \/ FailOwned(a)
    \/ Succeed(a) \/ Fail(a) \/ TxRollback(a) \/ TxExisting(a) \/ Respond(a)

Next ==
    \/ \E a \in Attempts : Handle(a) \/ ReplayCompleted(a) \/ Crash(a) \/ Retry(a)
    \/ \E k \in Keys : LeaseExpires(k)

Spec == Init /\ [][Next]_vars

(***************************************************************************)
(* Fairness: a running handler goes on unless its process dies (Crash is   *)
(* never forced), time passes, and the client keeps retrying.              *)
(***************************************************************************)
FairSpec ==
    /\ Spec
    /\ \A a \in Attempts : WF_vars(Handle(a)) /\ WF_vars(Retry(a))
    /\ \A k \in Keys : WF_vars(LeaseExpires(k))

----------------------------------------
\* The types of the rows and of the handlers' state.
TypeOK ==
    /\ row \in [Keys -> Record]
    /\ pc \in [Attempts -> PCs]
    /\ served \in [Attempts -> Attempts \cup {None}]
    /\ lapsed \subseteq Attempts
    /\ effects \in [Keys -> SUBSET Attempts]

\* Every attempt answered for a key got the same response, and that response was
\* made for the payload the attempt itself sent (StartAt, ReplayCompleted,
\* CachedResponse and SucceedOwned together, across crashes and re-claims).
AnswersAgree ==
    \A a, b \in Attempts :
        /\ served[a] # None => HashOf[served[a]] = HashOf[a]
        /\ KeyOf[a] = KeyOf[b] /\ served[a] # None /\ served[b] # None
              => served[a] = served[b]

\* Between the claim and its end no second handler works under the same key
\* unless the first one's 30 s lease ran out: a live claim excludes the others.
LiveClaimExcludes ==
    \A a, b \in Attempts :
        /\ a # b /\ KeyOf[a] = KeyOf[b]
        /\ pc[a] \in Working /\ pc[b] \in Working
        => a \in lapsed \/ b \in lapsed

\* A transactional endpoint's write takes effect exactly when the key succeeds,
\* and at most once however many attempts carry the key.
TxEffectOnce ==
    \A k \in Keys \ External :
        effects[k] = IF row[k].status = "succeeded" THEN {row[k].body} ELSE {}

\* A succeeded row is never changed again: a handler that lost its claim can
\* neither replace the response nor turn it into a failure (SucceedOwned and
\* FailOwned require id = claim AND status = 'processing').
SucceededIsFinal ==
    [][\A k \in Keys : row[k].status = "succeeded" => row'[k] = row[k]]_vars

\* A client that keeps retrying is eventually given a final outcome, even when
\* the handler that held the claim died in the middle (the lease is reclaimed).
EveryAttemptEnds ==
    \A a \in Attempts : pc[a] = "new" ~> pc[a] \in Ended

(***************************************************************************)
(* The store implements the write-once answer of AnswerOnce.               *)
(***************************************************************************)
Response == [k \in Keys |-> IF row[k].status = "succeeded" THEN row[k].body ELSE None]

Abstract == INSTANCE AnswerOnce WITH response <- Response

\* Every step of the rows and handlers is a Commit, a Serve or a stutter of the
\* abstract write-once answer.
ImplementsAnswerOnce == Abstract!Spec
=============================================================================
