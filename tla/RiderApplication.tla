-------------------------- MODULE RiderApplication --------------------------
(***************************************************************************)
(* A rider's application (modules/riderapplication): submitted with a      *)
(* one-time SMS code, reviewed by administrators, changed and submitted    *)
(* again by the applicant, and turned into a rider when it is approved,    *)
(* while an administrator may open a rider for the same phone or switch    *)
(* the account on and off (modules/provisioning). One phone. Every         *)
(* operation is one transaction on the locked rows; what is at stake is    *)
(* what people read before they decide. A request for a shop that is not   *)
(* active (validateActiveShops) changes nothing.                           *)
(***************************************************************************)
EXTENDS Naturals, FiniteSets

CONSTANTS People,     \* screens: of administrators and of the applicant
          Scopes,     \* service scopes, each a set of shops
          CodeBound,  \* bound: SMS codes sent
          SubmitBound, \* bound: submissions
          EditBound   \* bound: versions of the application

ASSUME ApplyAssumption == "none" \notin Scopes /\ {CodeBound, SubmitBound, EditBound} \subseteq Nat

VARIABLES code,        \* sms:login:rider:<phone> in Redis
          codes,
          holder,      \* the account with the phone: who opened it, status, version
          application, \* rider_applications
          opened,      \* riders: the scope of the rider, if there is one
          verdicts,    \* rider_application_reviews: submission, decision, the scope its reviewer saw
          screen,      \* what each person has read: version and scope
          pass         \* credential version of the applicant's application token, 0: none

applyVars == <<code, codes, holder, application, opened, verdicts, screen, pass>>

Blank == [version |-> 0, scope |-> "none"]

ApplyInit ==
    /\ code = FALSE /\ codes = 0
    /\ holder = [by |-> "nobody", status |-> "disabled", version |-> 1]
    /\ application = [status |-> "none", version |-> 0, count |-> 0, scope |-> "none"]
    /\ opened = "none" /\ verdicts = {} /\ pass = 0
    /\ screen = [p \in People |-> Blank]

\* SendRiderSMSCode: the code in Redis is replaced.
SendCode ==
    /\ codes < CodeBound /\ codes' = codes + 1 /\ code' = TRUE
    /\ UNCHANGED <<holder, application, opened, verdicts, screen, pass>>

\* ensureIdentityAvailable, and behind it the unique key on the phone of an account.
IdentityAvailable == holder.by = "nobody"

\* Submit: the code is used up in Redis even when the transaction then refuses.
Submit(scope) ==
    /\ code /\ code' = FALSE
    /\ IF IdentityAvailable
       THEN /\ holder' = [by |-> "application", status |-> "disabled", version |-> 1]
            /\ application' = [status |-> "submitted", version |-> 1, count |-> 1, scope |-> scope]
       ELSE UNCHANGED <<holder, application>>
    /\ UNCHANGED <<codes, opened, verdicts, screen, pass>>

\* provisioning.CreateRider.
CreateRider(scope) ==
    /\ IdentityAvailable
    /\ holder' = [by |-> "provisioning", status |-> "disabled", version |-> 1]
    /\ opened' = scope
    /\ UNCHANGED <<code, codes, application, verdicts, screen, pass>>

UnderWay == application.status \in {"submitted", "rejected"}

\* Login of an applicant.
ApplicantLogin ==
    /\ code /\ code' = FALSE
    /\ pass' = IF holder.status = "disabled" /\ UnderWay THEN holder.version ELSE pass
    /\ UNCHANGED <<codes, holder, application, opened, verdicts, screen>>

\* VerifyApplicationToken.
PassAccepted == pass # 0 /\ holder.status = "disabled" /\ holder.version = pass /\ UnderWay

\* Detail and GetOwn.
Look(p) ==
    /\ application.status # "none"
    /\ screen' = [screen EXCEPT ![p] = [version |-> application.version, scope |-> application.scope]]
    /\ UNCHANGED <<code, codes, holder, application, opened, verdicts, pass>>

\* expected_version.
AsRead(p) == screen[p].version = application.version

UpdateOwn(p, scope) ==
    /\ PassAccepted /\ application.status = "rejected" /\ AsRead(p) /\ application.version < EditBound
    /\ application' = [application EXCEPT !.scope = scope, !.version = @ + 1]
    /\ UNCHANGED <<code, codes, holder, opened, verdicts, screen, pass>>

Resubmit(p) ==
    /\ PassAccepted /\ application.status = "rejected" /\ AsRead(p)
    /\ application.count < SubmitBound /\ application.version < EditBound
    /\ application' = [application EXCEPT !.status = "submitted", !.count = @ + 1, !.version = @ + 1]
    /\ UNCHANGED <<code, codes, holder, opened, verdicts, screen, pass>>

MayReview(p) == application.status = "submitted" /\ AsRead(p) /\ holder.status = "disabled"

\* Review: an approval opens the rider, with its shops and its runtime state, and the account.
Review(p, decision) ==
    /\ MayReview(p)
    /\ verdicts' = verdicts \cup {[of |-> application.count, decision |-> decision, seen |-> screen[p].scope]}
    /\ application' = [application EXCEPT !.status = decision, !.version = @ + 1]
    /\ IF decision = "approved"
       THEN /\ opened' = application.scope
            /\ holder' = [holder EXCEPT !.status = "active", !.version = @ + 1]
       ELSE UNCHANGED <<opened, holder>>
    /\ UNCHANGED <<code, codes, screen, pass>>

\* provisioning.AccountStatus, at any time.
SwitchAccount(status) ==
    /\ holder.by # "nobody" /\ holder.status # status /\ holder.version < EditBound
    /\ holder' = [holder EXCEPT !.status = status, !.version = @ + 1]
    /\ UNCHANGED <<code, codes, application, opened, verdicts, screen, pass>>

ApplyNext ==
    \/ SendCode \/ ApplicantLogin
    \/ \E s \in Scopes : Submit(s) \/ CreateRider(s)
    \/ \E p \in People :
          \/ Look(p) \/ Resubmit(p)
          \/ \E s \in Scopes : UpdateOwn(p, s)
          \/ \E d \in {"approved", "rejected"} : Review(p, d)
    \/ \E status \in {"active", "disabled"} : SwitchAccount(status)

\* Whatever was read before, edited and decided in between: a rider comes from an approved
\* application exactly when its phone came from one, with the service scope the approving
\* administrator saw; every submission gets at most one verdict and every earlier one was
\* rejected; and an application token that is still accepted belongs to somebody who is
\* not a rider (Review, UpdateOwn, Resubmit, VerifyApplicationToken).
ApplicationsDecided ==
    /\ (holder.by = "application" => (opened # "none" <=> application.status = "approved"))
    /\ (holder.by = "provisioning" => application.status = "none")
    /\ \A v, w \in verdicts : v.of = w.of => v = w
    /\ \A v \in verdicts : v.decision = "approved" => v.of = application.count /\ opened = v.seen
    /\ Cardinality(verdicts) = application.count - (IF application.status = "submitted" THEN 1 ELSE 0)
    /\ (PassAccepted => opened = "none")
=============================================================================
