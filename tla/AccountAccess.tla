--------------------------- MODULE AccountAccess ---------------------------
(***************************************************************************)
(* Who may act for a merchant's user or a rider (modules/auth,             *)
(* modules/provisioning): logins and refreshes that read the account, then *)
(* the profile, then store a session; access tokens that carry the scope   *)
(* they were issued with; logouts; and the administrators who change       *)
(* status, role, shops and password meanwhile. One account. Below, the     *)
(* sign-in of customers, which shares no state with it.                    *)
(***************************************************************************)
EXTENDS Naturals, FiniteSets

CONSTANTS SessionBound, \* bound: sessions, each with its two tokens
          Entrants,    \* login and refresh requests under way
          Roles, Shops,
          SecondBound, \* bound: seconds that pass
          ChangeBound  \* bound: changes by administrators

ASSUME AccessAssumption == SessionBound \in Nat

VARIABLES acct,    \* accounts: status, credential_version, token_invalid_before
          staff,   \* merchant_users or riders: status, role, shops
          session, \* each session: its key in Redis and what its tokens carry
          entry,   \* each request: how far it is and what it has read
          second,  \* the clock; tokens carry whole seconds
          changes

accessVars == <<acct, staff, session, entry, second, changes>>

SessionIds == 1..SessionBound
NoSession == [key |-> "none", barred |-> FALSE, version |-> 0, scope |-> <<>>, issued |-> 0, parent |-> 0]
\* A session that has been deleted: of its tokens nothing matters any more.
Ended(S, how) == IF S.key = "there" THEN [NoSession EXCEPT !.key = how, !.parent = S.parent] ELSE S
NotAsking == [step |-> "idle", via |-> 0, version |-> 0, scope |-> <<>>]

\* What each way to open an account writes: a merchant's first user, a further one, a
\* rider who waits for a review.
ProvisionMerchant  == [kind |-> "merchant", status |-> "active", review |-> "approved"]
CreateMerchantUser == [kind |-> "merchant", status |-> "active", review |-> "approved"]
CreateRiderAccount == [kind |-> "rider", status |-> "disabled", review |-> "pending"]

AccessInit ==
    /\ \E new \in {ProvisionMerchant, CreateMerchantUser, CreateRiderAccount} :
          /\ acct = [kind |-> new.kind, status |-> new.status, version |-> 1, before |-> 0]
          /\ staff = [status |-> new.status, review |-> new.review, scope |-> CHOOSE r \in Roles \X Shops : TRUE]
    /\ session = [s \in SessionIds |-> NoSession]
    /\ entry = [e \in Entrants |-> NotAsking]
    /\ second = 0 /\ changes = 0

----------------------------------------
\* PasswordLogin and RiderSMSLogin: an active account, with its version.
ReadAccount(e) ==
    /\ entry[e].step = "idle" /\ acct.status = "active"
    /\ entry' = [entry EXCEPT ![e] = [NotAsking EXCEPT !.step = "known", !.version = acct.version]]
    /\ UNCHANGED <<acct, staff, session, second, changes>>

\* ensureSession of Refresh.
OpenSession(e, s) ==
    /\ entry[e].step = "idle" /\ session[s].key = "there"
    /\ entry' = [entry EXCEPT ![e] = [NotAsking EXCEPT !.step = "open", !.via = s]]
    /\ UNCHANGED <<acct, staff, session, second, changes>>

\* validateAccountTokenSnapshot.
SnapshotHolds(s) == session[s].version = acct.version /\ session[s].issued >= acct.before

\* Refresh reads the account and compares what its token carries.
ReadForRefresh(e) ==
    /\ entry[e].step = "open"
    /\ entry' = [entry EXCEPT ![e] =
          IF acct.status = "active" /\ SnapshotHolds(entry[e].via)
          THEN [@ EXCEPT !.step = "known", !.version = acct.version] ELSE NotAsking]
    /\ UNCHANGED <<acct, staff, session, second, changes>>

\* identityForAccount: the profile is read after the account.
ReadProfile(e) ==
    /\ entry[e].step = "known"
    /\ entry' = [entry EXCEPT ![e] =
          IF staff.status = "active" THEN [@ EXCEPT !.step = "ready", !.scope = staff.scope] ELSE NotAsking]
    /\ UNCHANGED <<acct, staff, session, second, changes>>

\* mutant: the version is the one the account has when the token is signed.
SignedVersionLate(e) == acct.version

\* The version the tokens carry: the one that was read with the account.
SignedVersion(e) == entry[e].version

\* rotateSessionScript: a refresh needs its old session still to be there.
MayStore(e) == entry[e].via = 0 \/ session[entry[e].via].key = "there"

\* storeSessions for a login; for a refresh rotateSessionScript, which takes the old
\* session away as it writes the new one.
IssueTokens(e, s) ==
    LET E == entry[e] IN
    /\ E.step = "ready" /\ s = Cardinality({t \in SessionIds : session[t].key # "none"}) + 1
    /\ entry' = [entry EXCEPT ![e] = NotAsking]
    /\ session' = IF ~MayStore(e) THEN session ELSE
          [t \in SessionIds |->
              CASE t = s -> [NoSession EXCEPT !.key = "there", !.version = SignedVersion(e), !.scope = E.scope,
                                              !.issued = second, !.parent = E.via]
                [] t # s /\ t = E.via -> Ended(session[t], "rotated")
                [] OTHER -> session[t]]
    /\ UNCHANGED <<acct, staff, second, changes>>

\* Logout: the access token is barred and then the session deleted, which may fail or
\* come later: a logout may be repeated (VerifyAccessForLogout only parses the token).
Logout(s, deleted) ==
    /\ session[s].key = "there" /\ (~deleted => ~session[s].barred)
    /\ session' = [session EXCEPT ![s] = IF deleted THEN Ended(@, "deleted") ELSE [@ EXCEPT !.barred = TRUE]]
    /\ UNCHANGED <<acct, staff, entry, second, changes>>

----------------------------------------
Change == changes < ChangeBound /\ changes' = changes + 1 /\ UNCHANGED <<session, entry, second>>

\* invalidateAccountTokens.
Invalidated == [acct EXCEPT !.version = @ + 1, !.before = second]

AccountStatus(status) ==
    /\ Change
    /\ acct' = [Invalidated EXCEPT !.status = status]
    /\ UNCHANGED staff

ResetPassword ==
    /\ Change /\ acct.kind # "rider"
    /\ acct' = Invalidated
    /\ UNCHANGED staff

UpdateMerchantUserRole(role) ==
    /\ Change /\ acct.kind = "merchant" /\ staff.scope[1] # role
    /\ staff' = [staff EXCEPT !.scope = <<role, @[2]>>]
    /\ acct' = Invalidated

\* All shops are written anew, and tokens invalidated, even when none changes.
AuthorizeShops(shops) ==
    /\ Change /\ acct.kind = "merchant"
    /\ staff' = [staff EXCEPT !.scope = <<@[1], shops>>]
    /\ acct' = Invalidated

\* updateRider: rider and account change status together; the version stays.
UpdateRider(status, review) ==
    /\ staff' = [staff EXCEPT !.status = status, !.review = review]
    /\ acct' = [acct EXCEPT !.status = status, !.before = IF status = "active" /\ second > 0 THEN second - 1 ELSE second]

ReviewRider(verdict) ==
    /\ Change /\ acct.kind = "rider" /\ staff.review = "pending"
    /\ UpdateRider(IF verdict = "approved" THEN "active" ELSE "disabled", verdict)

RiderStatus(status) ==
    /\ Change /\ acct.kind = "rider" /\ (status = "active" => staff.review = "approved")
    /\ UpdateRider(status, staff.review)

SecondPasses == second < SecondBound /\ second' = second + 1 /\ UNCHANGED <<acct, staff, session, entry, changes>>

AccessNext ==
    \/ \E e \in Entrants :
          \/ ReadAccount(e) \/ ReadForRefresh(e) \/ ReadProfile(e)
          \/ \E s \in SessionIds : OpenSession(e, s) \/ IssueTokens(e, s)
    \/ \E s \in SessionIds : \E deleted \in BOOLEAN : Logout(s, deleted)
    \/ \E status \in {"active", "disabled"} : AccountStatus(status) \/ RiderStatus(status)
    \/ ResetPassword
    \/ \E r \in Roles : UpdateMerchantUserRole(r)
    \/ \E s \in Shops : AuthorizeShops(s)
    \/ \E v \in {"approved", "rejected"} : ReviewRider(v)
    \/ SecondPasses

----------------------------------------
\* VerifyAccess.
Accepted(s) ==
    /\ session[s].key = "there" /\ ~session[s].barred
    /\ acct.status = "active" /\ SnapshotHolds(s)

\* Whatever administrators change while logins, refreshes and logouts are under way, an
\* access token that is accepted belongs to an active user and carries the role and the
\* shops the user has now (VerifyAccess takes both from the token); and a refresh token
\* makes one session, and none once its own was logged out, however the two race
\* (rotateSession).
AccessIsCurrent ==
    /\ \A s \in SessionIds : Accepted(s) => staff.status = "active" /\ session[s].scope = staff.scope
    /\ \A s, t \in SessionIds : session[s].parent # 0 /\ session[s].parent = session[t].parent => s = t
    /\ \A s \in SessionIds : session[s].parent # 0 => session[session[s].parent].key = "rotated"

----------------------------------------
(***************************************************************************)
(* How customers come to be (modules/auth): a WeChat login finds or makes  *)
(* the customer of an open id, a customer binds a phone, and a one-time    *)
(* SMS code for the phone logs its customer in. Requests race: two first   *)
(* logins of one person, two customers who bind one phone, two sends of a  *)
(* code and two uses of it, and uses with the end of its five minutes.     *)
(***************************************************************************)

CONSTANTS OpenIds, Phones, Devices,
          CodeTTL,   \* smsCodeTTL
          TextBound, \* bound: SMS codes sent
          BindBound, \* bound: phones bound
          MinuteBound \* bound: of the clock

ASSUME SignInAssumption ==
    /\ IsFiniteSet(OpenIds) /\ "none" \notin Phones
    /\ TextBound \in Nat /\ BindBound \in Nat /\ CodeTTL \in Nat

VARIABLES owner,    \* customer_identities: the customer of an open id, 0 for none
          customers, \* customers made; each with its account and cart
          phone,    \* phone of each customer, in accounts and in customers
          visit,    \* each device's request
          text,     \* per phone: the code in Redis, 0 for none
          lapses,   \* per phone: when Redis drops that code
          sending,  \* per phone: codes handed to the SMS provider, no answer yet
          arrived,  \* per phone: the codes that were delivered
          latest,   \* per phone: the last code made
          spent,    \* per code: logins it made
          madeAt, usedAt, \* per code: when it was made, and last logged in
          minute,   \* the clock
          texts, binds

signVars == <<owner, customers, phone, visit, text, sending, arrived, latest, spent, texts, binds,
              minute, madeAt, usedAt, lapses>>
codeTimes == <<minute, madeAt, usedAt, lapses>>

CustomerIds == 1..Cardinality(OpenIds)
AtDoor == [step |-> "idle", subject |-> "none", customer |-> 0]
\* The customers who have a phone.
WithPhone(f) == {c \in 1..customers : phone[c] = f}

SignInInit ==
    /\ owner = [o \in OpenIds |-> 0] /\ customers = 0
    /\ phone = [c \in CustomerIds |-> "none"]
    /\ visit = [d \in Devices |-> AtDoor]
    /\ text = [f \in Phones |-> 0] /\ sending = [f \in Phones |-> {}] /\ arrived = [f \in Phones |-> {}]
    /\ latest = [f \in Phones |-> 0]
    /\ spent = [n \in 1..TextBound |-> 0] /\ texts = 0 /\ binds = 0
    /\ minute = 0 /\ lapses = [f \in Phones |-> 0]
    /\ madeAt = [n \in 1..TextBound |-> 0] /\ usedAt = [n \in 1..TextBound |-> 0]

\* WeChatLogin: FindOrCreateCustomerByIdentity looks the open id up in its transaction ...
WeChatLogin(d, o) ==
    /\ visit[d].step = "idle"
    /\ visit' = [visit EXCEPT ![d] = IF owner[o] # 0 THEN AtDoor ELSE [AtDoor EXCEPT !.step = "making", !.subject = o]]
    /\ UNCHANGED <<owner, customers, phone, text, sending, arrived, latest, spent, texts, binds, codeTimes>>

\* mutant: the customer stays when the open id turns out to be taken.
RolledBackNot(o) == customers + 1

\* After the unique key on the open id has refused: nothing of the transaction remains.
RolledBack(o) == customers

\* ... and makes account, customer, identity and cart, or is refused by the unique key and
\* looks again.
MakeCustomer(d) ==
    LET o == visit[d].subject IN
    /\ visit[d].step = "making"
    /\ customers' = IF owner[o] = 0 THEN customers + 1 ELSE RolledBack(o)
    /\ owner' = IF owner[o] = 0 THEN [owner EXCEPT ![o] = customers + 1] ELSE owner
    /\ visit' = [visit EXCEPT ![d] = AtDoor]
    /\ UNCHANGED <<phone, text, sending, arrived, latest, spent, texts, binds, codeTimes>>

\* BindWeChatPhone: with the customer locked, no other account may have the phone ...
BindCheck(d, c, f) ==
    /\ visit[d].step = "idle" /\ binds < BindBound
    /\ \A e \in Devices : ~(visit[e].step = "binding" /\ visit[e].customer = c)
    /\ WithPhone(f) \ {c} = {}
    /\ visit' = [visit EXCEPT ![d] = [step |-> "binding", subject |-> f, customer |-> c]]
    /\ binds' = binds + 1
    /\ UNCHANGED <<owner, customers, phone, text, sending, arrived, latest, spent, texts, codeTimes>>

\* uk_account_type_phone.
PhoneFree(f, c) == WithPhone(f) \ {c} = {}

\* ... and is written to the account and the customer, if the unique key allows it.
BindWrite(d) ==
    LET c == visit[d].customer IN
    /\ visit[d].step = "binding"
    /\ phone' = IF PhoneFree(visit[d].subject, c) THEN [phone EXCEPT ![c] = visit[d].subject] ELSE phone
    /\ visit' = [visit EXCEPT ![d] = AtDoor]
    /\ UNCHANGED <<owner, customers, text, sending, arrived, latest, spent, texts, binds, codeTimes>>

----------------------------------------
\* sendSMSCode: the code is in Redis before it is sent, in the place of an earlier one and
\* with a lifetime of its own. The cooldown of a phone may be over before the provider has
\* answered.
StoreCode(f) ==
    /\ texts < TextBound /\ texts' = texts + 1
    /\ text' = [text EXCEPT ![f] = texts + 1]
    /\ sending' = [sending EXCEPT ![f] = @ \cup {texts + 1}]
    /\ latest' = [latest EXCEPT ![f] = texts + 1]
    /\ madeAt' = [madeAt EXCEPT ![texts + 1] = minute] /\ lapses' = [lapses EXCEPT ![f] = minute + CodeTTL]
    /\ UNCHANGED <<owner, customers, phone, visit, arrived, spent, binds, minute, usedAt>>

\* deleteSMSCodeScript: only the code whose sending failed.
Deleted(f, n) == IF text[f] = n THEN 0 ELSE text[f]

CodeSent(f, n, delivered) ==
    /\ n \in sending[f]
    /\ sending' = [sending EXCEPT ![f] = @ \ {n}]
    /\ IF delivered THEN arrived' = [arrived EXCEPT ![f] = @ \cup {n}] /\ UNCHANGED text
                    ELSE text' = [text EXCEPT ![f] = Deleted(f, n)] /\ UNCHANGED arrived
    /\ UNCHANGED <<owner, customers, phone, visit, latest, spent, texts, binds, codeTimes>>

MinutePasses ==
    /\ minute < MinuteBound /\ minute' = minute + 1
    /\ UNCHANGED <<owner, customers, phone, visit, text, sending, arrived, latest, spent, texts, binds>>
    /\ UNCHANGED <<madeAt, usedAt, lapses>>

\* CustomerSMSLogin: consumeSMSCodeScript takes the code as it compares it, if Redis still
\* has it ...
UseCode(d, f, n) ==
    /\ visit[d].step = "idle" /\ n \in arrived[f] /\ text[f] = n /\ minute < lapses[f]
    /\ text' = [text EXCEPT ![f] = 0]
    /\ spent' = [spent EXCEPT ![n] = @ + 1] /\ usedAt' = [usedAt EXCEPT ![n] = minute]
    /\ visit' = [visit EXCEPT ![d] = [AtDoor EXCEPT !.step = "proved", !.subject = f]]
    /\ UNCHANGED <<owner, customers, phone, sending, arrived, latest, texts, binds, minute, madeAt, lapses>>

\* ... and the phone's customer is looked up then; without one, the login is refused.
FindCustomerForSMSLogin(d) ==
    /\ visit[d].step = "proved"
    /\ visit' = [visit EXCEPT ![d] = AtDoor]
    /\ UNCHANGED <<owner, customers, phone, text, sending, arrived, latest, spent, texts, binds, codeTimes>>

SignInNext ==
    \/ \E d \in Devices :
          \/ \E o \in OpenIds : WeChatLogin(d, o)
          \/ MakeCustomer(d) \/ BindWrite(d) \/ FindCustomerForSMSLogin(d)
          \/ \E f \in Phones : \/ \E c \in 1..customers : BindCheck(d, c, f)
                               \/ \E n \in 1..texts : UseCode(d, f, n)
    \/ MinutePasses
    \/ \E f \in Phones : \/ StoreCode(f)
                         \/ \E n \in 1..texts, delivered \in BOOLEAN : CodeSent(f, n, delivered)

\* However first logins, bindings, sends and uses of a code race: every customer belongs to
\* one open id and every open id to at most one customer; a phone to at most one customer;
\* a code logs in at most once and never after its lifetime; and the last code sent to a
\* phone, once delivered, works for all its lifetime until it is used, though an earlier
\* send fails late or an earlier code would have lapsed (FindOrCreateCustomerByIdentity,
\* BindCustomerPhone, sendSMSCode, verifySMSCode).
SignInsMatch ==
    /\ \A c \in 1..customers : Cardinality({o \in OpenIds : owner[o] = c}) = 1
    /\ \A f \in Phones : Cardinality(WithPhone(f)) <= 1
    /\ \A n \in 1..TextBound : spent[n] <= 1 /\ (spent[n] = 1 => usedAt[n] < madeAt[n] + CodeTTL)
    /\ \A f \in Phones :
          latest[f] \in arrived[f] /\ spent[latest[f]] = 0 /\ minute < madeAt[latest[f]] + CodeTTL
          => text[f] = latest[f] /\ minute < lapses[f]
=============================================================================
