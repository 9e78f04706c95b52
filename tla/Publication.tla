---------------------------- MODULE Publication ----------------------------
(***************************************************************************)
(* What administrators write, approve and put in force: ticket packages    *)
(* (wineticket/catalog), dispatch policies (dispatch/policy.go), delivery  *)
(* promise policies and service cities (customerlocation/admin_service.go),*)
(* member rule sets (member) and home slots (home). A behaviour is about   *)
(* one kind, the papers of one code or scope. Each administrator acts on   *)
(* the row that the last answer showed him, which may be stale.            *)
(*                                                                         *)
(* Each transaction locks the row, or the rows of the scope, it changes.   *)
(***************************************************************************)
EXTENDS Integers, FiniteSets, FiniteSetsExt

CONSTANTS Admins,
          PaperBound, \* bound: rows of the kind
          WorkBound,  \* bound: changes of rows
          HourBound   \* bound: the clock, for rule sets

ASSUME PubAssumption == PaperBound \in Nat /\ HourBound \in Nat

VARIABLES topic,    \* the kind of paper
          paper,    \* the rows
          desk,     \* the row each administrator looks at, as he read it
          approved, \* history: the content last approved by somebody who saw it
          hour,
          linked,   \* what the content refers to exists, is open and on sale
          bound,    \* the promise policy version of the shops; -1 when no shop has the code
          force,    \* history: the rule set that last came into force
          shown,    \* the package a customer looks at, as he read it
          deals,    \* history: the packages bought, as seen and as charged
          works

pubVars == <<topic, paper, desk, approved, hour, linked, bound, force, shown, deals, works>>

Topics   == {"package", "policy", "promise", "city", "rule", "slot"}
Contents == {"a", "b", "malformed"} \* a malformed one has a field missing or out of its range
Papers   == 1..PaperBound
Hours    == 1..HourBound
NoPaper  == [status |-> "none", content |-> "", version |-> 0, at |-> 0]
NoSight  == [id |-> 0, row |-> NoPaper]

PubInit ==
    /\ topic \in Topics
    /\ paper = [d \in Papers |-> NoPaper]
    /\ desk = [a \in Admins |-> NoSight]
    /\ approved = [d \in Papers |-> ""]
    /\ hour = 1 /\ linked = TRUE
    /\ bound \in (IF topic = "promise" THEN {-1, 0} ELSE {-1})
    /\ force = 0 /\ shown = NoSight /\ deals = {} /\ works = 0

----------------------------------------
Counted == works < WorkBound /\ works' = works + 1
Published == {d \in Papers : paper[d].status = "published"}

\* The answer of a write shows its author the row as it now is.
Shows(a, d) == desk' = [desk EXCEPT ![a] = [id |-> d, row |-> paper'[d]]]

\* The row an administrator means is the one he looks at.
InHand(a, t) == topic = t /\ desk[a].id # 0 /\ Counted
Mine(a) == desk[a].id
PaperRow(a)  == paper[Mine(a)]

\* The lists: the administrator reads a row.
ReadPaper(a, d) ==
    /\ paper[d].status # "none" /\ desk[a] # [id |-> d, row |-> paper[d]]
    /\ desk' = [desk EXCEPT ![a] = [id |-> d, row |-> paper[d]]]
    /\ UNCHANGED <<topic, paper, approved, hour, linked, bound, force, shown, deals, works>>

\* NextPackageVersionLocked, the highest version of the code plus one: a new row comes last.
InsertPaper(a, c, at) ==
    LET d == Cardinality({p \in Papers : paper[p].status # "none"}) + 1 IN
    /\ Counted /\ d \in Papers
    /\ paper' = [paper EXCEPT ![d] = [status |-> "draft", content |-> c, version |-> 1, at |-> at]]
    /\ Shows(a, d)
    /\ UNCHANGED <<topic, approved, hour, linked, bound, force, shown, deals>>

\* A change of the row, with the version that was read where the code asks for it.
Write(a, row) ==
    /\ paper' = [paper EXCEPT ![Mine(a)] = row]
    /\ Shows(a, Mine(a))
    /\ UNCHANGED <<topic, hour, linked, force, shown, deals>>

AsSeen(a) == PaperRow(a).version = desk[a].row.version

\* The author approves what he saw, or what he wrote himself.
Approves(d, c) == approved' = [approved EXCEPT ![d] = c]

----------------------------------------
\* Ticket packages. normalizePackageWrite refuses what is malformed; validatePackageRow looks at
\* the row again when it is published and when it is sold.
NormalizePackageWrite(c) == c # "malformed"
ValidatePackageRow(row)  == row.content # "malformed"

\* validateSettlementForPublish: merchant, shop and product belong together and are on sale.
ValidateSettlement == linked

CreateAdminPackage(a, c) == topic = "package" /\ NormalizePackageWrite(c) /\ InsertPaper(a, c, 0)

Editable(a) == PaperRow(a).status = "draft"

UpdateAdminPackage(a, c) ==
    /\ InHand(a, "package") /\ NormalizePackageWrite(c) /\ AsSeen(a) /\ Editable(a)
    /\ Write(a, [PaperRow(a) EXCEPT !.content = c, !.version = @ + 1])
    /\ UNCHANGED <<approved, bound>>

\* transitionAdminPackage(publish): the settlement shop and product are checked again, and no
\* other version of the code may be published.
PublishAdminPackage(a) ==
    /\ InHand(a, "package") /\ AsSeen(a)
    /\ PaperRow(a).status = "draft" /\ ValidatePackageRow(PaperRow(a)) /\ ValidateSettlement
    /\ Published \ {Mine(a)} = {}
    /\ Write(a, [PaperRow(a) EXCEPT !.status = "published", !.version = @ + 1])
    /\ Approves(Mine(a), desk[a].row.content) /\ UNCHANGED bound

UnpublishAdminPackage(a) ==
    /\ InHand(a, "package") /\ AsSeen(a) /\ PaperRow(a).status = "published"
    /\ Write(a, [PaperRow(a) EXCEPT !.status = "unpublished", !.version = @ + 1])
    /\ UNCHANGED <<approved, bound>>

\* PublicPackageByNo shows a published package whose shop and product are on sale.
PublicPackageByNo(d) ==
    /\ topic = "package" /\ paper[d].status = "published" /\ linked
    /\ shown' = [id |-> d, row |-> paper[d]]
    /\ UNCHANGED <<topic, paper, desk, approved, hour, linked, bound, force, deals, works>>

PurchasablePackage(row) == row.status = "published" /\ ValidatePackageRow(row)

\* CreatePurchase: the request names the package only; the price is that of the row.
BuyPackage ==
    /\ shown.id # 0 /\ PurchasablePackage(paper[shown.id]) /\ ValidateSettlement
    /\ deals' = deals \cup {[id |-> shown.id, seen |-> shown.row.content, charged |-> paper[shown.id].content]}
    /\ shown' = NoSight
    /\ UNCHANGED <<topic, paper, desk, approved, hour, linked, bound, force, works>>

----------------------------------------
\* Dispatch policies: the content is fixed when the draft is created.
ValidatePolicySnapshot(c) == c # "malformed"

CreatePolicy(a, c) == topic = "policy" /\ ValidatePolicySnapshot(c) /\ InsertPaper(a, c, 0)

\* Validating a validated one again changes nothing.
ValidatePolicy(a) ==
    /\ InHand(a, "policy") /\ AsSeen(a) /\ PaperRow(a).status = "draft" /\ ValidatePolicySnapshot(PaperRow(a).content)
    /\ Write(a, [PaperRow(a) EXCEPT !.status = "validated", !.version = @ + 1])
    /\ UNCHANGED <<approved, bound>>

\* changePolicyStatus: publishing retires the one published for the scope, with a new row_version.
PublishPolicy(a) ==
    /\ InHand(a, "policy") /\ AsSeen(a) /\ PaperRow(a).status = "validated"
    /\ paper' = [d \in Papers |->
          IF d = Mine(a) THEN [paper[d] EXCEPT !.status = "published", !.version = @ + 1]
          ELSE IF d \in Published THEN [paper[d] EXCEPT !.status = "retired", !.version = @ + 1]
          ELSE paper[d]]
    /\ Shows(a, Mine(a)) /\ Approves(Mine(a), desk[a].row.content)
    /\ UNCHANGED <<topic, hour, linked, bound, force, shown, deals>>

RetirePolicy(a) ==
    /\ InHand(a, "policy") /\ AsSeen(a) /\ PaperRow(a).status \in {"published", "validated"}
    /\ Write(a, [PaperRow(a) EXCEPT !.status = "retired", !.version = @ + 1])
    /\ UNCHANGED <<approved, bound>>

----------------------------------------
\* Delivery promise policies: the version is part of the row's identity and no write changes it.
ValidatePolicyWrite(c) == c # "malformed"

CreateAdminPolicy(a, c) == topic = "promise" /\ ValidatePolicyWrite(c) /\ InsertPaper(a, c, 0)

UpdateAdminPolicy(a, c) ==
    /\ InHand(a, "promise") /\ ValidatePolicyWrite(c) /\ AsSeen(a) /\ PaperRow(a).status = "draft"
    /\ Write(a, [PaperRow(a) EXCEPT !.content = c])
    /\ UNCHANGED <<approved, bound>>

\* mutant: the shops stay with the policy that is retired.
ReboundNot(d) == bound

\* RebindShopPolicy
Rebound(d) == IF bound = -1 THEN -1 ELSE d

\* SetAdminPolicyStatus(published): retires the published version and moves the shops to this one.
PublishPromise(a) ==
    /\ InHand(a, "promise") /\ AsSeen(a) /\ PaperRow(a).status = "draft"
    /\ paper' = [d \in Papers |->
          IF d = Mine(a) THEN [paper[d] EXCEPT !.status = "published"]
          ELSE IF d \in Published THEN [paper[d] EXCEPT !.status = "retired"] ELSE paper[d]]
    /\ bound' = Rebound(Mine(a))
    /\ Shows(a, Mine(a)) /\ Approves(Mine(a), desk[a].row.content)
    /\ UNCHANGED <<topic, hour, linked, force, shown, deals>>

\* SetAdminPolicyStatus(retired)
RetirePromise(a) ==
    /\ InHand(a, "promise") /\ AsSeen(a) /\ PaperRow(a).status = "published"
    /\ bound # Mine(a) \* PolicyShopReferences
    /\ Write(a, [PaperRow(a) EXCEPT !.status = "retired"])
    /\ UNCHANGED <<approved, bound>>

----------------------------------------
\* Service cities: edited while they are not published.
ValidateCityWrite(c) == c # "malformed"

CreateAdminCity(a, c) == topic = "city" /\ ValidateCityWrite(c) /\ InsertPaper(a, c, 0)

UpdateAdminCity(a, c) ==
    /\ InHand(a, "city") /\ ValidateCityWrite(c) /\ AsSeen(a) /\ PaperRow(a).status # "published"
    /\ Write(a, [PaperRow(a) EXCEPT !.content = c, !.version = @ + 1])
    /\ UNCHANGED <<approved, bound>>

\* From any status to published or disabled; publishing needs an active shop (CityPublishable).
SetAdminCityStatus(a, to) ==
    /\ InHand(a, "city") /\ AsSeen(a) /\ (to = "published" => linked)
    /\ Write(a, [PaperRow(a) EXCEPT !.status = to, !.version = @ + 1])
    /\ IF to = "published" THEN Approves(Mine(a), desk[a].row.content) ELSE UNCHANGED approved
    /\ UNCHANGED bound

----------------------------------------
\* Member rule sets: the content is fixed when the draft is created.
CreateRuleSet(a, c, at) == topic = "rule" /\ c # "malformed" /\ InsertPaper(a, c, at)

\* The rule sets an activation retires: those in effect now.
Outdated == {d \in Papers : paper[d].status = "active" /\ paper[d].at <= hour}

\* ActivateRuleSet: no version is asked for. One that takes effect later leaves the others.
ActivateRuleSet(a) ==
    /\ InHand(a, "rule") /\ PaperRow(a).status = "draft"
    /\ LET now == PaperRow(a).at <= hour IN
       /\ paper' = [d \in Papers |->
             IF d = Mine(a) THEN [paper[d] EXCEPT !.status = "active"]
             ELSE IF now /\ d \in Outdated THEN [paper[d] EXCEPT !.status = "retired"] ELSE paper[d]]
       /\ force' = IF now THEN Mine(a) ELSE force
    /\ Shows(a, Mine(a)) /\ Approves(Mine(a), desk[a].row.content)
    /\ UNCHANGED <<topic, hour, linked, bound, shown, deals>>

\* effectiveRules: the active one with the latest effective_at, then the highest id.
EffectiveRules ==
    LET past == {d \in Papers : paper[d].status = "active" /\ paper[d].at <= hour}
        late == {d \in past : \A e \in past : paper[e].at <= paper[d].at}
    IN  IF past = {} THEN 0 ELSE Max(late)

\* The clock: rule sets that were activated ahead take effect.
HourPasses ==
    /\ topic = "rule" /\ hour < HourBound /\ hour' = hour + 1
    /\ LET due == {d \in Papers : paper[d].status = "active" /\ paper[d].at = hour + 1} IN
       force' = IF due = {} THEN force ELSE Max(due)
    /\ UNCHANGED <<topic, paper, desk, approved, linked, bound, shown, deals, works>>

----------------------------------------
\* Home slots: a published one may be edited too, by somebody who saw it as it was.
ValidateWrite(c) == c # "malformed"

CreateHomeSlot(a, c) == topic = "slot" /\ ValidateWrite(c) /\ InsertPaper(a, c, 0)

UpdateHomeSlot(a, c) ==
    /\ InHand(a, "slot") /\ ValidateWrite(c) /\ AsSeen(a)
    /\ Write(a, [PaperRow(a) EXCEPT !.content = c, !.version = @ + 1])
    /\ Approves(Mine(a), c) /\ UNCHANGED bound

Transitions == {<<"draft", "published">>, <<"published", "disabled">>, <<"published", "draft">>, <<"disabled", "draft">>}

\* SetStatus; a status may also be set again.
SetSlotStatus(a, to) ==
    /\ InHand(a, "slot") /\ AsSeen(a)
    /\ <<PaperRow(a).status, to>> \in Transitions \/ PaperRow(a).status = to
    /\ (to = "published" => linked) \* validatePublish
    /\ Write(a, [PaperRow(a) EXCEPT !.status = to, !.version = @ + 1])
    /\ IF to = "published" THEN Approves(Mine(a), desk[a].row.content) ELSE UNCHANGED approved
    /\ UNCHANGED bound

\* The shop closes, the product is taken off sale, and back.
LinkChanges ==
    /\ Counted /\ topic \in {"package", "city", "slot"} /\ linked' = ~linked
    /\ UNCHANGED <<topic, paper, desk, approved, hour, bound, force, shown, deals>>

----------------------------------------
PubNext ==
    \/ \E a \in Admins : \E d \in Papers : ReadPaper(a, d)
    \/ \E a \in Admins : \E c \in Contents :
         \/ CreateAdminPackage(a, c) \/ UpdateAdminPackage(a, c)
         \/ CreatePolicy(a, c)
         \/ CreateAdminPolicy(a, c) \/ UpdateAdminPolicy(a, c)
         \/ CreateAdminCity(a, c) \/ UpdateAdminCity(a, c)
         \/ CreateHomeSlot(a, c) \/ UpdateHomeSlot(a, c)
         \/ \E at \in Hours : CreateRuleSet(a, c, at)
    \/ \E a \in Admins :
         \/ PublishAdminPackage(a) \/ UnpublishAdminPackage(a)
         \/ ValidatePolicy(a) \/ PublishPolicy(a) \/ RetirePolicy(a)
         \/ PublishPromise(a) \/ RetirePromise(a)
         \/ \E to \in {"published", "disabled"} : SetAdminCityStatus(a, to)
         \/ ActivateRuleSet(a)
         \/ \E to \in {"draft", "published", "disabled"} : SetSlotStatus(a, to)
    \/ \E d \in Papers : PublicPackageByNo(d)
    \/ BuyPackage \/ HourPasses \/ LinkChanges

----------------------------------------
\* What is in force is what somebody approved with its content before his eyes, although
\* administrators work on stale rows: a published row holds the content its approver saw, and a well-formed one; one
\* package of a code, one policy of a scope and one promise of a code are published at most;
\* the shops are bound to the promise that is published; the rule set in force is the one that
\* last came into force, by activation or by its hour; and a customer is charged what the
\* package showed when he read it. (The first does not hold of promise policies: the version that
\* SetAdminPolicyStatus compares is never changed by an edit.)
PublishedIsApproved ==
    /\ \A d \in Papers : (paper[d].status \in {"published", "active"} /\ topic # "promise"
                            => paper[d].content = approved[d])
    /\ \A d \in Papers : paper[d].content # "malformed"
    /\ (topic \in {"package", "policy", "promise"} => Cardinality(Published) <= 1)
    /\ (bound > 0 \/ (bound = 0 /\ Published # {}) => bound \in Published)
    /\ (topic = "rule" => EffectiveRules = force)
    /\ \A s \in deals : s.seen = s.charged
=============================================================================
