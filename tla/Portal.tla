------------------------------- MODULE Portal -------------------------------
(***************************************************************************)
(* The tenant portal (receipts/src/portal.ts): registration, sign-in       *)
(* through a provider, keys, checkout, Stripe's webhook and the founder's  *)
(* note.  Every step of a request is one statement the database runs; any  *)
(* of them may be refused, and what the steps before it did stays.         *)
(*                                                                         *)
(* An account is known by its email address, which is unique and never     *)
(* changes.  The tenants table and its cache are those of Tenancy, here as *)
(* the portal's process sees them: a plan, with "none" for a row that is   *)
(* not there.  Of a Stripe subscription the model keeps whose it is and    *)
(* its status; events arrive in any order and any number of times.         *)
(***************************************************************************)
EXTENDS Naturals, Sequences, SequencesExt, FiniteSets

CONSTANTS
    Emails, Own,     \* addresses, and those on the operator's own mail domains
    Tenants,
    Identities,      \* a provider and its subject
    Addresses,       \* the verified emails of an identity
    Subs,            \* Stripe's subscriptions
    Requests,        \* how many requests are served at once
    MaxRequests      \* bound: how many are served in all

ASSUME PortalAssumption ==
    /\ Own \subseteq Emails /\ Addresses \in [Identities -> SUBSET Emails]
    /\ MaxRequests \in Nat /\ "no subscription" \notin Subs

VARIABLES
    accounts,    \* the users table
    members,     \* the members table: the tenants of an account, oldest first
    plan,        \* the tenants table
    cache,       \* what tenant() would answer without asking, or "unknown"
    keys,        \* the live rows of the tokens table: the tenant, and the account that minted the key
    policies,    \* the policies table: the tenant of a version, and the account that published it
    identities,  \* the identities table: the account linked to an identity
    billing,     \* the billing table: the subscription of a tenant
    offered,     \* Stripe: tenants with a checkout session that is not paid yet
    subs,        \* Stripe: the tenant and the status of a subscription
    events,      \* Stripe: what it has told, or has yet to tell
    mailed,      \* the accounts whose founder's note the provider accepted
    op,          \* where each request stands
    left         \* requests still to come

tables == <<accounts, members, keys, policies, identities, mailed>>
stripe == <<offered, subs, events>>
vars == <<tables, plan, cache, billing, stripe, op, left>>

Nobody == "nobody"
NoSub  == "no subscription"
Plans  == {"free", "team", "enterprise"}

\* `password`: it was registered with one; an account made by a sign-in has one nobody knows.
NoAccount == [exists |-> FALSE, password |-> FALSE, named |-> FALSE, followed |-> FALSE]
Named     == [exists |-> TRUE, password |-> TRUE, named |-> TRUE, followed |-> FALSE]

Idle == [at |-> "idle", kind |-> "none", waiting |-> FALSE, got |-> "none",
         email |-> Nobody, tenant |-> Nobody, ident |-> Nobody, event |-> Nobody, rows |-> {}]

\* A subscription's status is one of these to the portal: paid for, or not.
Active == {"active", "trialing", "past_due"}
PlanOf(status) == IF status \in Active THEN "team" ELSE "free"

Completed(t, s)     == [type |-> "completed", tenant |-> t, sub |-> s]
Changed(s, status)  == [type |-> "changed", sub |-> s, status |-> status]

\* The service on its first day, or with one tenant, free or paying, registered before.
Init ==
    \E e \in Emails, t \in Tenants, s \in Subs, start \in {"empty", "free", "team"} :
        LET Some(domain, x, v, other) ==
                [y \in domain |-> IF y = x /\ start # "empty" THEN v ELSE other]
        IN  /\ accounts = Some(Emails, e, Named, NoAccount)
            /\ members = Some(Emails, e, <<t>>, <<>>)
            /\ plan = Some(Tenants, t, start, "none")
            /\ keys = IF start = "empty" THEN {} ELSE {<<t, e>>}
            /\ policies = <<>>
            /\ billing = [u \in Tenants |-> IF u = t /\ start = "team" THEN s ELSE NoSub]
            /\ subs = [u \in Subs |-> IF u = s /\ start = "team" THEN [tenant |-> t, status |-> "active"]
                                      ELSE [tenant |-> Nobody, status |-> "none"]]
            /\ events = IF start = "team" THEN {Completed(t, s)} ELSE {}
            /\ cache = [u \in Tenants |-> "unknown"]
            /\ identities = [i \in Identities |-> Nobody]
            /\ offered = {} /\ mailed = {}
            /\ op = [r \in Requests |-> Idle] /\ left = MaxRequests

-----------------------------------------------------------------------------
(* The steps of a request.                                                 *)

To(o, at)  == [o EXCEPT !.at = at, !.waiting = FALSE, !.got = "none"]
Is(r, o)   == op' = [op EXCEPT ![r] = o]
Go(r, at)  == Is(r, To(op[r], at))
End(r)     == Is(r, Idle)
At(r, at)  == op[r].at = at

\* tenant() of another process, or of this one ten seconds later, asks again.
Expire(t) ==
    /\ cache[t] # "unknown" /\ cache' = [cache EXCEPT ![t] = "unknown"]
    /\ UNCHANGED <<tables, plan, billing, stripe, op, left>>

\* parseOnboarding: the tenant id must be free, by what this process knows.
AfterParse(o, p) ==
    IF p = "none" THEN To(o, IF o.kind = "onboard" THEN "owner" ELSE "create") ELSE Idle

\* The tenant of the session's account is there: on to what was asked.
AfterPrefix(o, p) ==
    IF p = "none" \/ (o.kind = "checkout" /\ p # "free") THEN Idle
    ELSE To(o, CASE o.kind = "checkout" -> "offer"
                 [] o.kind \in {"revoke", "unpublish"} -> o.kind
                 [] OTHER -> "keyLookup")

\* What follows a lookup that answered with plan p, or with no row.
AfterLookup(o, p) ==
    CASE o.at = "parse"  -> AfterParse(o, p)
      [] o.at = "prefix" -> AfterPrefix(o, p)
      [] o.at = "keyLookup" -> IF p = "none" THEN Idle
                               ELSE To(o, IF o.kind = "publish" THEN "duplicate" ELSE "mint")
      [] o.at = "completed" -> IF p = "none" THEN Idle ELSE To(o, "setBilling")
      [] o.at = "current"   -> IF p \in {"enterprise", PlanOf(o.event.status)} THEN Idle ELSE To(o, "setPlan")

Lookups == {"parse", "prefix", "keyLookup", "completed", "current"}

\* tenant(): from the cache at once, or by a query whose answer is cached when it comes.
Cached(r) ==
    LET o == op[r] IN
    /\ o.at \in Lookups /\ ~o.waiting /\ cache[o.tenant] # "unknown"
    /\ Is(r, AfterLookup(o, cache[o.tenant]))
    /\ UNCHANGED <<tables, plan, cache, billing, stripe, left>>

Ask(r) ==
    LET o == op[r] IN
    /\ o.at \in Lookups /\ ~o.waiting /\ cache[o.tenant] = "unknown"
    /\ Is(r, [o EXCEPT !.waiting = TRUE, !.got = plan[o.tenant]])
    /\ UNCHANGED <<tables, plan, cache, billing, stripe, left>>

Told(r) ==
    LET o == op[r] IN
    /\ o.at \in Lookups /\ o.waiting
    /\ cache' = [cache EXCEPT ![o.tenant] = o.got]
    /\ Is(r, AfterLookup(o, o.got))
    /\ UNCHANGED <<tables, plan, billing, stripe, left>>

\* A new request, its body found well formed and its address not over the limit.
Begin(r, o) ==
    /\ At(r, "idle") /\ left > 0 /\ left' = left - 1
    /\ Is(r, o)
    /\ UNCHANGED <<tables, plan, cache, billing, stripe>>

-----------------------------------------------------------------------------
(* Registration and sign-in.                                               *)

\* The account alone; or everything in one call, the tenant id checked first.
Register(r, e)        == Begin(r, [Idle EXCEPT !.kind = "register", !.at = "create", !.email = e])
RegisterAll(r, e, t)  == Begin(r, [Idle EXCEPT !.kind = "registerAll", !.at = "parse", !.email = e, !.tenant = t])
\* The second step, of an account that is signed in.
Onboard(r, e, t) ==
    accounts[e].exists /\ Begin(r, [Idle EXCEPT !.kind = "onboard", !.at = "parse", !.email = e, !.tenant = t])

\* The provider says who it is, with one of the verified addresses.
SignIn(r, i) == \E e \in Addresses[i] :
    Begin(r, [Idle EXCEPT !.kind = "signIn", !.at = "identity", !.email = e, !.ident = i])

\* createUser: the email's uniqueness decides; an account that is there already is refused.
Create(r) ==
    LET o == op[r] IN
    /\ o.at = "create"
    /\ IF accounts[o.email].exists THEN End(r) /\ UNCHANGED accounts
       ELSE /\ accounts' = [accounts EXCEPT ![o.email].exists = TRUE,
                                           ![o.email].password = o.kind # "signIn"]
            /\ CASE o.kind = "register"    -> End(r)
                 [] o.kind = "registerAll" -> Go(r, "owner")
                 [] o.kind = "signIn"      -> Go(r, "link")
    /\ UNCHANGED <<members, plan, cache, keys, policies, identities, billing, stripe, mailed, left>>

\* A session is signed for an account: the request says whose.
Session(r, e) == Is(r, [Idle EXCEPT !.kind = "signedIn", !.email = e])

\* Someone types the password they registered with; an account has one or there is none to know.
Login(r, e) == Begin(r, [Idle EXCEPT !.kind = "login", !.at = "authenticate", !.email = e])

CheckPassword(e) == accounts[e].exists /\ accounts[e].password

Authenticate(r) ==
    /\ At(r, "authenticate")
    /\ IF CheckPassword(op[r].email) THEN Session(r, op[r].email) ELSE End(r)
    /\ UNCHANGED <<tables, plan, cache, billing, stripe, left>>

\* findOrCreateOAuthUser: the linked account, else the one with the verified email.
LinkedToSubject(i) == IF \E j \in Identities : j[2] = i[2] /\ identities[j] # Nobody
                      THEN identities[CHOOSE j \in Identities : j[2] = i[2] /\ identities[j] # Nobody]
                      ELSE Nobody
Linked(i) == identities[i]

FindLinked(r) ==
    /\ At(r, "identity")
    /\ IF Linked(op[r].ident) # Nobody THEN Session(r, Linked(op[r].ident)) ELSE Go(r, "byEmail")
    /\ UNCHANGED <<tables, plan, cache, billing, stripe, left>>

FindByEmail(r) ==
    /\ At(r, "byEmail")
    /\ Go(r, IF accounts[op[r].email].exists THEN "link" ELSE "create")
    /\ UNCHANGED <<tables, plan, cache, billing, stripe, left>>

Link(r) ==
    /\ At(r, "link")
    /\ identities' = [identities EXCEPT ![op[r].ident] = op[r].email]
    /\ Session(r, op[r].email)
    /\ UNCHANGED <<accounts, members, plan, cache, keys, policies, billing, stripe, mailed, left>>

\* tenantOf: the account's oldest membership.
TenantOf(e) == IF members[e] = <<>> THEN Nobody ELSE Head(members[e])

\* onboard(): an account that has a tenant is refused, then the profile, the tenant, the
\* membership and the first key are written one after the other.
Owner(r) ==
    /\ At(r, "owner")
    /\ IF TenantOf(op[r].email) = Nobody THEN Go(r, "profile") ELSE End(r)
    /\ UNCHANGED <<tables, plan, cache, billing, stripe, left>>

UpdateProfile(r) ==
    /\ At(r, "profile") /\ Go(r, "addTenant")
    /\ accounts' = [accounts EXCEPT ![op[r].email].named = TRUE]
    /\ UNCHANGED <<members, plan, cache, keys, policies, identities, billing, stripe, mailed, left>>

\* The membership written last: what a failure between the two would leave is a key of nobody's.
KeyBeforeMember(r) ==
    LET t == op[r].tenant IN
    /\ At(r, "addTenant") /\ Go(r, "addMember")
    /\ plan' = [plan EXCEPT ![t] = IF @ = "none" THEN "free" ELSE @]
    /\ cache' = [cache EXCEPT ![t] = "unknown"]
    /\ keys' = keys \cup {<<t, op[r].email>>}
    /\ UNCHANGED <<accounts, members, policies, identities, mailed, billing, stripe, left>>

\* addTenant, which renames a row that is there, and forgets what this process had cached.
AddTenant(r) ==
    LET t == op[r].tenant IN
    /\ At(r, "addTenant") /\ Go(r, "addMember")
    /\ plan' = [plan EXCEPT ![t] = IF @ = "none" THEN "free" ELSE @]
    /\ cache' = [cache EXCEPT ![t] = "unknown"]
    /\ UNCHANGED <<tables, billing, stripe, left>>

AddMember(r) ==
    LET e == op[r].email  t == op[r].tenant IN
    /\ At(r, "addMember") /\ Go(r, "keyLookup")
    /\ members' = [members EXCEPT ![e] = IF Contains(@, t) THEN @ ELSE Append(@, t)]
    /\ UNCHANGED <<accounts, plan, cache, keys, policies, identities, billing, stripe, mailed, left>>

\* addToken, of onboarding or of a key minted later.
Mint(r) ==
    /\ At(r, "mint") /\ End(r)
    /\ keys' = keys \cup {<<op[r].tenant, op[r].email>>}
    /\ UNCHANGED <<accounts, members, policies, plan, cache, identities, billing, stripe, mailed, left>>

-----------------------------------------------------------------------------
(* What a signed-in account asks for its tenant.                           *)

Wanted(r, e, kind) ==
    accounts[e].exists /\ Begin(r, [Idle EXCEPT !.kind = kind, !.at = "session", !.email = e])
NewKey(r, e)        == Wanted(r, e, "key")
RevokeKey(r, e)     == Wanted(r, e, "revoke")
PublishPolicy(r, e) == Wanted(r, e, "publish")
RemovePolicy(r, e)  == Wanted(r, e, "unpublish")
Checkout(r, e)      == Wanted(r, e, "checkout")

OfSession(r) ==
    LET t == TenantOf(op[r].email) IN
    /\ At(r, "session")
    /\ IF t = Nobody THEN End(r) ELSE Is(r, [To(op[r], "prefix") EXCEPT !.tenant = t])
    /\ UNCHANGED <<tables, plan, cache, billing, stripe, left>>

\* revokeToken: of this tenant's keys, whoever minted them.
Revoke(r) ==
    /\ At(r, "revoke") /\ End(r)
    /\ \E K \in SUBSET {k \in keys : k[1] = op[r].tenant} : keys' = keys \ K
    /\ UNCHANGED <<accounts, members, policies, plan, cache, identities, billing, stripe, mailed, left>>

\* addPolicy: the same text is looked for, and then inserted.  All versions here have one text.
Duplicate(r) ==
    /\ At(r, "duplicate")
    /\ IF \E i \in DOMAIN policies : policies[i][1] = op[r].tenant THEN End(r) ELSE Go(r, "insert")
    /\ UNCHANGED <<tables, plan, cache, billing, stripe, left>>

Insert(r) ==
    /\ At(r, "insert") /\ End(r)
    /\ policies' = Append(policies, <<op[r].tenant, op[r].email>>)
    /\ UNCHANGED <<accounts, members, keys, plan, cache, identities, billing, stripe, mailed, left>>

\* removePolicy: a version of this tenant's, if it is still there.
Unpublish(r) ==
    /\ At(r, "unpublish") /\ End(r)
    /\ \/ UNCHANGED policies
       \/ \E i \in DOMAIN policies : policies[i][1] = op[r].tenant /\ policies' = RemoveAt(policies, i)
    /\ UNCHANGED <<accounts, members, keys, plan, cache, identities, billing, stripe, mailed, left>>

Offer(r) ==
    /\ At(r, "offer") /\ End(r)
    /\ offered' = offered \cup {op[r].tenant}
    /\ UNCHANGED <<tables, plan, cache, billing, subs, events, left>>

-----------------------------------------------------------------------------
(* Stripe and its webhook.                                                 *)

\* A session is paid: a subscription of the tenant the session names.
Pay(t, s) ==
    /\ t \in offered /\ subs[s].status = "none"
    /\ offered' = offered \ {t}
    /\ subs' = [subs EXCEPT ![s] = [tenant |-> t, status |-> "active"]]
    /\ events' = events \cup {Completed(t, s)}
    /\ UNCHANGED <<tables, plan, cache, billing, op, left>>

ChangeSub(s, status) ==
    /\ subs[s].status \notin {"none", "canceled", status}
    /\ subs' = [subs EXCEPT ![s].status = status]
    /\ events' = events \cup {Changed(s, status)}
    /\ UNCHANGED <<tables, plan, cache, billing, offered, op, left>>

\* verifyStripeSignature: what Stripe told, and signed with this endpoint's secret not long ago.
Authentic(e) == e \in events

Webhook(r, e) ==
    Authentic(e) /\ Begin(r, IF e.type = "completed"
             THEN [Idle EXCEPT !.kind = "webhook", !.at = "completed", !.event = e, !.tenant = e.tenant]
             ELSE [Idle EXCEPT !.kind = "webhook", !.at = "bySub", !.event = e])

\* tenantBySubscription.
BySub(r) ==
    LET of == {t \in Tenants : billing[t] = op[r].event.sub} IN
    /\ At(r, "bySub")
    /\ IF of = {} THEN End(r) ELSE \E t \in of : Is(r, [To(op[r], "setBilling") EXCEPT !.tenant = t])
    /\ UNCHANGED <<tables, plan, cache, billing, stripe, left>>

\* setBilling: a checkout notes its subscription, a change leaves the one that is there.
BilledToNobody(o) == billing
BilledTo(o) == [billing EXCEPT ![o.tenant] = IF o.event.type = "completed" THEN o.event.sub ELSE @]

SetBilling(r) ==
    LET o == op[r] IN
    /\ o.at = "setBilling"
    /\ billing' = BilledTo(o)
    /\ Go(r, IF o.event.type = "completed" THEN "setPlan" ELSE "current")
    /\ UNCHANGED <<tables, plan, cache, stripe, left>>

SetPlan(r) ==
    LET o == op[r]  t == op[r].tenant IN
    /\ o.at = "setPlan" /\ End(r)
    /\ IF plan[t] = "none" THEN UNCHANGED <<plan, cache>>
       ELSE /\ plan' = [plan EXCEPT ![t] = IF o.event.type = "completed" THEN "team" ELSE PlanOf(o.event.status)]
            /\ cache' = [cache EXCEPT ![t] = "unknown"]
    /\ UNCHANGED <<tables, billing, stripe, left>>

-----------------------------------------------------------------------------
(* sendFollowUps, and what may happen beside the portal.                   *)

FollowUps(r) == Begin(r, [Idle EXCEPT !.kind = "followUps", !.at = "list"])

\* pendingFollowUps: a row for each membership of an account with a name and no note, of those
\* that registered long enough ago.
List(r) ==
    /\ At(r, "list")
    /\ \E due \in SUBSET {e \in Emails : accounts[e].named /\ ~accounts[e].followed} :
           LET rows == {row \in due \X Tenants : Contains(members[row[1]], row[2])} IN
           IF rows = {} THEN End(r) ELSE Is(r, [op[r] EXCEPT !.at = "note", !.rows = rows])
    /\ UNCHANGED <<tables, plan, cache, billing, stripe, left>>

Without(o, row) == IF o.rows = {row} THEN Idle
                   ELSE [o EXCEPT !.at = "note", !.email = Nobody, !.rows = @ \ {row}]

\* deliverMail: the provider accepts the message or does not, and the caller is told which.
DeliverMail(e, accepted) == mailed' = IF accepted THEN mailed \cup {e} ELSE mailed

\* One row: an address of the operator's own is marked without a note, one whose note was
\* accepted is marked, and an account it was refused for is left for the next run.
Note(r, row) ==
    LET o == op[r]
        marking == [o EXCEPT !.at = "mark", !.email = row[1], !.tenant = row[2]]
    IN  /\ o.at = "note" /\ row \in o.rows
        /\ IF row[1] \in Own THEN Is(r, marking) /\ UNCHANGED mailed
           ELSE \E accepted \in BOOLEAN :
                   /\ DeliverMail(row[1], accepted)
                   /\ Is(r, IF accepted THEN marking ELSE Without(o, row))
        /\ UNCHANGED <<accounts, members, keys, policies, identities, plan, cache, billing, stripe, left>>

Mark(r) ==
    LET o == op[r] IN
    /\ o.at = "mark"
    /\ accounts' = [accounts EXCEPT ![o.email].followed = TRUE]
    /\ Is(r, Without([o EXCEPT !.tenant = Nobody], <<o.email, o.tenant>>))
    /\ UNCHANGED <<members, plan, cache, keys, policies, identities, billing, stripe, mailed, left>>

\* The database refuses a statement, Stripe or the provider does not answer, or the process stops.
Fail(r) ==
    /\ ~At(r, "idle") /\ End(r)
    /\ UNCHANGED <<tables, plan, cache, billing, stripe, left>>

\* The operator adds the tenant or moves its plan from another process: this one is not told.
Administer(t, p) ==
    /\ left > 0 /\ left' = left - 1
    /\ p # plan[t] /\ plan[t] = "none" => p = "free"
    /\ plan' = [plan EXCEPT ![t] = p]
    /\ UNCHANGED <<tables, cache, billing, stripe, op>>

-----------------------------------------------------------------------------

Arrive(r) ==
    \/ \E e \in Emails : \/ Register(r, e) \/ Login(r, e) \/ NewKey(r, e) \/ RevokeKey(r, e)
                         \/ PublishPolicy(r, e) \/ RemovePolicy(r, e) \/ Checkout(r, e)
    \/ \E e \in Emails, t \in Tenants : RegisterAll(r, e, t) \/ Onboard(r, e, t)
    \/ \E i \in Identities : SignIn(r, i)
    \/ \E e \in events : Webhook(r, e)
    \/ FollowUps(r)

Step(r) ==
    \/ Cached(r) \/ Ask(r) \/ Told(r) \/ Fail(r)
    \/ Create(r) \/ Authenticate(r) \/ FindLinked(r) \/ FindByEmail(r) \/ Link(r)
    \/ Owner(r) \/ UpdateProfile(r) \/ AddTenant(r) \/ AddMember(r) \/ Mint(r)
    \/ Revoke(r) \/ Duplicate(r) \/ Insert(r) \/ Unpublish(r)
    \/ OfSession(r) \/ Offer(r) \/ BySub(r) \/ SetBilling(r) \/ SetPlan(r)
    \/ List(r) \/ Mark(r) \/ \E row \in Emails \X Tenants : Note(r, row)

Next ==
    \/ \E r \in Requests : Arrive(r) \/ Step(r)
    \/ \E t \in Tenants : Expire(t) \/ \E p \in Plans : Administer(t, p)
    \/ \E s \in Subs : \/ \E t \in Tenants : Pay(t, s)
                       \/ \E status \in {"active", "unpaid", "canceled"} : ChangeSub(s, status)

Spec == Init /\ [][Next]_vars

-----------------------------------------------------------------------------
(* Properties.                                                             *)

\* Types.
TypeOK ==
    /\ accounts \in [Emails -> [exists : BOOLEAN, password : BOOLEAN, named : BOOLEAN, followed : BOOLEAN]]
    /\ \A e \in Emails : accounts[e].named => accounts[e].exists
    /\ \A e \in Emails : members[e] # <<>> => accounts[e].named
    /\ plan \in [Tenants -> Plans \cup {"none"}]
    /\ cache \in [Tenants -> Plans \cup {"none", "unknown"}]
    /\ keys \subseteq Tenants \X Emails
    /\ identities \in [Identities -> Emails \cup {Nobody}]
    /\ billing \in [Tenants -> Subs \cup {NoSub}]

\* Whatever fails, and whoever else is registering, a key is only ever there for an account that
\* is a member of the key's tenant, and can therefore list and revoke it (onboard, POST /api/keys).
KeysToMembers ==
    \A k \in keys : Contains(members[k[2]], k[1]) /\ plan[k[1]] # "none"

\* What a tenant's page calls a digest was published by an account of that tenant (addPolicy).
PublishedByMembers ==
    \A i \in DOMAIN policies : Contains(members[policies[i][2]], policies[i][1])

\* The webhook moves a tenant to the team plan only for a subscription that a checkout of that
\* tenant made, and only once the billing row names one, so that its end will find the tenant.
TeamWasPaid == [][
    \A r \in Requests, t \in Tenants :
        At(r, "setPlan") /\ op'[r] # op[r] /\ plan[t] # "team" /\ plan'[t] = "team" =>
            billing[t] \in Subs /\ subs[billing[t]].tenant = t /\ subs[op[r].event.sub].tenant = t]_vars

\* A provider's sign-in opens only an account whose address that identity has verified, and a
\* password only one that was registered with it and not one made by a sign-in, however
\* sign-ins, links and registrations interleave (findOrCreateOAuthUser, portal.ts:161).
SignedInAs == [][
    \A r \in Requests : op'[r].kind = "signedIn" /\ op[r].kind # "signedIn" =>
        op'[r].email \in IF op[r].kind = "signIn" THEN Addresses[op[r].ident]
                         ELSE {e \in Emails : accounts[e].password}]_vars

\* An account is marked as followed up only after its note was accepted: one whose note was
\* refused, or whose run stopped, is still pending (sendFollowUps, portal.ts:340).
MarkedWasMailed ==
    \A e \in Emails : accounts[e].followed => e \in mailed \cup Own

\* Accounts, keys, tenants and notes agree, wherever a request or the job stopped.
AccountsAgree == TypeOK /\ KeysToMembers /\ PublishedByMembers /\ MarkedWasMailed

=============================================================================
