------------------------------ MODULE Identity ------------------------------
(***************************************************************************)
(* Real-name verification of one customer (internal/modules/compliance)    *)
(* and the age check of an order.  A session at the provider is one        *)
(* request row; the provider decides, may later revoke, and reports each   *)
(* change in an event it delivers late, repeatedly and in any order.  The  *)
(* handler of an event asks the provider for its present result and only   *)
(* then, in a transaction of its own, records the event and writes the     *)
(* request and the customer's current row.  An administrator may decide by *)
(* hand at any time.  Signatures, levels and policies are left out.        *)
(***************************************************************************)
EXTENDS Naturals, Sequences, FiniteSets

CONSTANTS
    Callers,        \* deliveries of provider events served at a time
    SessionCount,   \* verification sessions of the customer
    VerdictBound,   \* opinions of the provider
    ReviewBound,    \* manual reviews
    LastDay         \* days that pass

ASSUME IdentityAssumption ==
    /\ Callers # {}
    /\ {SessionCount, VerdictBound, ReviewBound, LastDay} \subseteq Nat

VARIABLES
    sessions,   \* verification requests by id: status, adult_result, expires_at
    realname,   \* the customer's current row, NoRealname while there is none
    opinions,   \* what the provider holds for each session
    reports,    \* provider events: id -> session
    callbacks,  \* event ids recorded in the callbacks table
    calls,      \* the event each caller serves, with the result it queried
    date,
    reviewed,
    barred      \* history: sessions refused or revoked since last approved

identityVars ==
    <<sessions, realname, opinions, reports, callbacks, calls, date, reviewed, barred>>

NoEnd == LastDay + 1
Unknown == [status |-> "pending", adult |-> "unknown", until |-> NoEnd]
NoRealname == [session |-> 0, status |-> "unverified", adult |-> "unknown", until |-> NoEnd]
NoQuery == [event |-> 0, result |-> Unknown]

IdentityInit ==
    /\ sessions = <<>> /\ opinions = <<>> /\ reports = <<>>
    /\ realname = NoRealname
    /\ callbacks = {}
    /\ calls = [c \in Callers |-> NoQuery]
    /\ date = 0 /\ reviewed = 0
    /\ barred = {}

\* The row of the request exists before the customer learns the address of
\* the session, so no event of it can come earlier.
CreateSession ==
    /\ Len(sessions) < SessionCount
    /\ sessions' = Append(sessions, Unknown)
    /\ opinions' = Append(opinions, Unknown)
    /\ UNCHANGED <<realname, reports, callbacks, calls, date, reviewed, barred>>

\* The provider verifies or rejects, and may revoke what it verified.
ProviderDecides ==
    /\ Len(reports) < VerdictBound
    /\ \E s \in DOMAIN opinions :
        /\ \/ /\ opinions[s].status = "pending"
              /\ \E adult \in {"adult", "minor"}, until \in {1, NoEnd} :
                    opinions' = [opinions EXCEPT ![s] =
                        [status |-> "verified", adult |-> adult, until |-> until]]
           \/ /\ opinions[s].status = "pending"
              /\ opinions' = [opinions EXCEPT ![s].status = "rejected"]
           \/ /\ opinions[s].status = "verified"
              /\ opinions' = [opinions EXCEPT ![s].status = "revoked"]
        /\ reports' = Append(reports, s)
    /\ UNCHANGED <<sessions, realname, callbacks, calls, date, reviewed, barred>>

\* An event is delivered, perhaps not for the first time; the handler queries.
Query(c) ==
    /\ calls[c] = NoQuery
    /\ \E e \in DOMAIN reports :
        calls' = [calls EXCEPT ![c] = [event |-> e, result |-> opinions[reports[e]]]]
    /\ UNCHANGED <<sessions, realname, opinions, reports, callbacks, date, reviewed, barred>>

\* The handler dies before its transaction; the provider will deliver again.
CallLost(c) ==
    /\ calls[c] # NoQuery
    /\ calls' = [calls EXCEPT ![c] = NoQuery]
    /\ UNCHANGED <<sessions, realname, opinions, reports, callbacks, date, reviewed, barred>>

terminal(status) == status \in {"verified", "rejected", "revoked", "expired"}

Regresses(row, result) ==
    /\ terminal(row.status)
    /\ row.status # result.status
    /\ result.status # "revoked"

upsertCurrent(s, result) ==
    [session |-> s, status |-> result.status, adult |-> result.adult, until |-> result.until]

Callback(c) ==
    LET e == calls[c].event
        s == reports[e]
        result == calls[c].result
    IN /\ calls[c] # NoQuery
       /\ calls' = [calls EXCEPT ![c] = NoQuery]
       /\ callbacks' = callbacks \cup {e}
       /\ IF e \in callbacks \/ Regresses(sessions[s], result)
          THEN UNCHANGED <<sessions, realname, barred>>
          ELSE /\ sessions' = [sessions EXCEPT ![s] = result]
               /\ realname' = upsertCurrent(s, result)
               /\ barred' = IF result.status = "verified" THEN barred ELSE barred \cup {s}
       /\ UNCHANGED <<opinions, reports, date, reviewed>>

MayApprove(row) == row.adult = "adult"

ReviewIdentity(s) ==
    /\ reviewed < ReviewBound
    /\ \E approved \in BOOLEAN, until \in {1, NoEnd} :
        LET row == sessions[s]
            result == [row EXCEPT !.status = IF approved THEN "verified" ELSE "rejected",
                                  !.until = until]
        IN /\ (approved => MayApprove(row) /\ until > date)
           /\ sessions' = [sessions EXCEPT ![s] = result]
           /\ realname' = upsertCurrent(s, result)
           /\ barred' = IF approved THEN barred \ {s} ELSE barred \cup {s}
    /\ reviewed' = reviewed + 1
    /\ UNCHANGED <<opinions, reports, callbacks, calls, date>>

DayPasses ==
    /\ date < LastDay
    /\ date' = date + 1
    /\ UNCHANGED <<sessions, realname, opinions, reports, callbacks, calls, reviewed, barred>>

IdentityNext ==
    \/ CreateSession \/ ProviderDecides \/ DayPasses
    \/ \E c \in Callers : Query(c) \/ CallLost(c) \/ Callback(c)
    \/ \E s \in DOMAIN sessions : ReviewIdentity(s)

----------------------------------------
\* CheckOrder lets the customer buy what is age-restricted.
CheckOrder ==
    realname.status = "verified" /\ realname.adult = "adult" /\ realname.until > date

\* The status the customer is shown.
GetMe ==
    IF realname.session # 0
    THEN IF realname.status = "verified" /\ realname.until <= date
         THEN "expired" ELSE realname.status
    ELSE IF sessions = <<>> THEN "unverified" ELSE sessions[Len(sessions)].status

\* Whoever may buy was found adult by the provider in the very session his
\* current row stands for, and nobody has since refused or revoked that
\* session: neither an event delivered again or late, nor a result queried
\* before a revocation and written after it, brings a refused session back;
\* only a manual approval does.  The current row always agrees with the
\* request it names, and the customer is shown "verified" as an adult
\* exactly when CheckOrder would let him buy.
BuyersAreAdults ==
    /\ (CheckOrder => /\ realname.session \notin barred
                      /\ opinions[realname.session].adult = "adult")
    /\ (realname.session # 0 =>
            realname = upsertCurrent(realname.session, sessions[realname.session]))
    /\ ((GetMe = "verified" /\ realname.adult = "adult") <=> CheckOrder)
=============================================================================
