------------------------------- MODULE Tenancy -------------------------------
(***************************************************************************)
(* Tenants, their tokens, plans and quotas in Postgres, as the instances   *)
(* of the log server enforce them (receipts/src/log-store.ts,              *)
(* PostgresTenancy and RateLimiter; log-sink.ts, postgresResolver and      *)
(* logHandler; log-admin.ts, adminRoutes; the command line's log-admin is  *)
(* one more process with caches of its own).                               *)
(*                                                                         *)
(* Every process keeps three caches: what a tenant's row said, that a      *)
(* token is live, and how many appends the month has.  A lookup that       *)
(* misses asks the database and fills the cache when the answer arrives,   *)
(* so a change can fall between the two.  One unit of `now` is ten         *)
(* seconds; within a unit any number of steps happen.  Negative answers    *)
(* about tokens are not cached, negative answers about tenants are.        *)
(***************************************************************************)
EXTENDS Naturals, FiniteSets

CONSTANTS
    Tenants, Tokens,
    Instances,    \* processes on one database
    Servers,      \* those of them that requests are sent to
    Requests,     \* how many requests are in flight at once
    Admins,       \* the administrative operations that happen
    TenantTTL, TokenTTL, QuotaTTL,  \* the lives of the three caches
    Allowance,    \* PLAN_QUOTAS.free; the other plan has no allowance
    Burst, Rate,  \* the rate limiter's, per unit of time
    MaxQuery,     \* the longest a query takes to be answered
    MaxTime, MaxLeaves  \* bounds

ASSUME TenancyAssumption ==
    /\ Servers \subseteq Instances
    /\ TenantTTL \in Nat \ {0} /\ TokenTTL \in Nat \ {0} /\ QuotaTTL \in Nat \ {0}
    /\ Allowance \in Nat /\ Burst \in Nat /\ Rate \in Nat
    /\ MaxQuery \in Nat /\ MaxTime \in Nat /\ MaxLeaves \in Nat

VARIABLES
    now,
    row,          \* the tenants table: plan, and whether the row exists or is disabled
    tokens,       \* the tokens table: the tenant of each token, and whether it is revoked
    leaves,       \* appends of the month, by tenant
    audit,        \* the operations the audit trail names
    tenantCache, tokenCache, quotaCache,
    buckets,      \* the rate limiter's, by instance and token
    req, adm,     \* where each request and operation stands
    since         \* history: when a tenant was last changed or a token revoked, and
                  \* when a tenant on the free plan reached its allowance

dbVars    == <<row, tokens, leaves, audit>>
cacheVars == <<tenantCache, tokenCache, quotaCache>>
vars == <<now, dbVars, cacheVars, buckets, req, adm, since>>

Never == MaxTime + 1
None  == [none |-> TRUE]
Absent == [exists |-> FALSE, disabled |-> FALSE, plan |-> "free"]

Idle == [at |-> "done", waiting |-> FALSE, asked |-> 0,
         instance |-> CHOOSE i \in Instances : TRUE, tenant |-> CHOOSE t \in Tenants : TRUE,
         token |-> CHOOSE k \in Tokens : TRUE, got |-> Absent, live |-> FALSE, used |-> 0,
         answer |-> "refused"]
Unstarted == [at |-> "new", kind |-> "disable", instance |-> CHOOSE i \in Instances : TRUE,
              tenant |-> CHOOSE t \in Tenants : TRUE, token |-> CHOOSE k \in Tokens : TRUE,
              got |-> Absent, asked |-> 0, hit |-> FALSE]

\* A server that starts on a database where tenants may be there already, each with a token.
Init ==
    /\ now = 0
    /\ row \in [Tenants -> {Absent} \cup
              [exists : {TRUE}, disabled : {FALSE}, plan : {"free", "enterprise"}]]
    /\ tokens \in [Tokens -> {None} \cup
                     [tenant : {t \in Tenants : row[t].exists}, revoked : {FALSE}]]
    /\ leaves = [t \in Tenants |-> 0] /\ audit = {}
    /\ tenantCache = [i \in Instances |-> [t \in Tenants |-> None]]
    /\ tokenCache = [i \in Instances |-> [t \in Tenants |-> [k \in Tokens |-> None]]]
    /\ quotaCache = [i \in Instances |-> [t \in Tenants |-> None]]
    /\ buckets = [i \in Instances |-> [k \in Tokens |-> [tokens |-> Burst, at |-> 0]]]
    /\ req = [r \in Requests |-> Idle] /\ adm = [a \in Admins |-> Unstarted]
    /\ since = [tenant  |-> [t \in Tenants |-> Never],
                revoked |-> [k \in Tokens |-> Never],
                over    |-> [t \in Tenants |-> IF row[t].plan = "free" /\ Allowance = 0 THEN 0
                                                ELSE Never]]

------------------------------------------------------------------------------
(* The caches.                                                             *)

Fresh(entry, ttl, n) == entry # None /\ n - entry.at < ttl

\* tenant(): what an answer is kept as, the row or that there is none.
Remember(i, t, r) == tenantCache' = [tenantCache EXCEPT ![i][t] = [at |-> now, row |-> r]]
Forget(i, t)      == tenantCache' = [tenantCache EXCEPT ![i][t] = None]

\* postgresResolver: a log is served while its tenant is there and not disabled.
Served(r) == r.exists /\ ~r.disabled

LiveTokenRevoked(t, k) == tokens[k] # None /\ tokens[k].tenant = t
LiveToken(t, k) == /\ tokens[k] # None
                   /\ tokens[k].tenant = t /\ ~tokens[k].revoked

\* RateLimiter.take: the bucket as refilled by time n.
Refilled(b, n) == LET full == b.tokens + (n - b.at) * Rate
                  IN  IF full > Burst THEN Burst ELSE full

------------------------------------------------------------------------------
(* A request, as logHandler serves it.                                     *)

\* A request that is answered, and one that goes on to its next lookup with nothing asked yet.
Answer(q, a) == [Idle EXCEPT !.answer = a, !.tenant = q.tenant]
OnTo(q, at) == [q EXCEPT !.at = at, !.waiting = FALSE, !.asked = 0, !.got = Absent,
                         !.live = FALSE, !.used = 0]
Now(r, q) == req' = [req EXCEPT ![r] = q]
OneOf(r, qs) == \E q \in qs : Now(r, q)

\* What the handler may do with the row: first the resolver's, then quota()'s own lookup.  A head,
\* a root or a proof is answered there; leaves, usage and appends are authorized first.  Which of
\* them was asked for is left open until the handler looks.
AfterTenant(q, got) ==
    IF q.at = "resolve"
    THEN IF Served(got) THEN {Answer(q, "served"), OnTo(q, "authorize")}
         ELSE {Answer(q, "unknown log")}
    ELSE IF got.exists THEN {[OnTo(q, "count") EXCEPT !.got = got]}
         ELSE {Answer(q, "refused")}

\* tenant(): from the cache, or a query whose answer is still to come.
LookUp(r, q) ==
    LET c == tenantCache[q.instance][q.tenant] IN
    OneOf(r, IF Fresh(c, TenantTTL, now) THEN AfterTenant(q, c.row)
             ELSE {[q EXCEPT !.waiting = TRUE, !.asked = now, !.got = row[q.tenant]]})

Begin(r, i, t, k) ==
    /\ req[r].at = "done"
    /\ LookUp(r, [Idle EXCEPT !.at = "resolve", !.instance = i, !.tenant = t, !.token = k])
    /\ UNCHANGED <<now, dbVars, cacheVars, buckets, adm, since>>

QuotaLookUp(r) ==
    /\ req[r].at = "quota" /\ ~req[r].waiting
    /\ LookUp(r, req[r])
    /\ UNCHANGED <<now, dbVars, cacheVars, buckets, adm, since>>

TenantTold(r) ==
    /\ req[r].at \in {"resolve", "quota"} /\ req[r].waiting
    /\ Remember(req[r].instance, req[r].tenant, req[r].got)
    /\ OneOf(r, AfterTenant(req[r], req[r].got))
    /\ UNCHANGED <<now, dbVars, tokenCache, quotaCache, buckets, adm, since>>

\* Past authorize(): the export's reads are answered, an append meets the plan's quota.
Authorized(r) ==
    OneOf(r, {Answer(req[r], "served"), OnTo(req[r], "quota")})

TokenHit(r) ==
    /\ req[r].at = "authorize" /\ ~req[r].waiting
    /\ Fresh(tokenCache[req[r].instance][req[r].tenant][req[r].token], TokenTTL, now)
    /\ Authorized(r)
    /\ UNCHANGED <<now, dbVars, cacheVars, buckets, adm, since>>

TokenAsk(r) ==
    /\ req[r].at = "authorize" /\ ~req[r].waiting
    /\ ~Fresh(tokenCache[req[r].instance][req[r].tenant][req[r].token], TokenTTL, now)
    /\ req' = [req EXCEPT ![r].waiting = TRUE, ![r].asked = now,
                          ![r].live = LiveToken(req[r].tenant, req[r].token)]
    /\ UNCHANGED <<now, dbVars, cacheVars, buckets, adm, since>>

TokenTold(r) ==
    /\ req[r].at = "authorize" /\ req[r].waiting
    /\ \/ /\ ~req[r].live
          /\ Now(r, Answer(req[r], "refused")) /\ UNCHANGED tokenCache
       \/ /\ req[r].live
          /\ tokenCache' = [tokenCache EXCEPT
                 ![req[r].instance][req[r].tenant][req[r].token] = [at |-> now]]
          /\ Authorized(r)
    /\ UNCHANGED <<now, dbVars, tenantCache, quotaCache, buckets, adm, since>>

OverQuotaByOne(q, used) == q.got.plan = "free" /\ used > Allowance
OverQuota(q, used) == q.got.plan = "free" /\ used >= Allowance

\* What is left of a bucket, at this moment.
LeaveSinceBefore(i, k, left) == buckets' = [buckets EXCEPT ![i][k].tokens = left]
Leave(i, k, left) == buckets' = [buckets EXCEPT ![i][k] = [tokens |-> left, at |-> now]]

\* The plan's allowance, then the rate limiter, decide whether the append goes to the log.
Decide(r, used) ==
    LET i == req[r].instance  k == req[r].token
        left == Refilled(buckets[i][k], now)
    IN  IF OverQuota(req[r], used)
        THEN Now(r, Answer(req[r], "refused")) /\ UNCHANGED buckets
        ELSE IF left < 1
        THEN Leave(i, k, left) /\ Now(r, Answer(req[r], "refused"))
        ELSE Leave(i, k, left - 1) /\ Now(r, OnTo(req[r], "append"))

CountHit(r) ==
    /\ req[r].at = "count" /\ ~req[r].waiting
    /\ LET c == quotaCache[req[r].instance][req[r].tenant] IN
       Fresh(c, QuotaTTL, now) /\ Decide(r, c.used)
    /\ UNCHANGED <<now, dbVars, cacheVars, adm, since>>

CountAsk(r) ==
    /\ req[r].at = "count" /\ ~req[r].waiting
    /\ ~Fresh(quotaCache[req[r].instance][req[r].tenant], QuotaTTL, now)
    /\ req' = [req EXCEPT ![r].waiting = TRUE, ![r].asked = now, ![r].used = leaves[req[r].tenant]]
    /\ UNCHANGED <<now, dbVars, cacheVars, buckets, adm, since>>

CountTold(r) ==
    /\ req[r].at = "count" /\ req[r].waiting
    /\ quotaCache' = [quotaCache EXCEPT ![req[r].instance][req[r].tenant] =
                        [at |-> now, used |-> req[r].used]]
    /\ Decide(r, req[r].used)
    /\ UNCHANGED <<now, dbVars, tenantCache, tokenCache, adm, since>>

Over(t, rows, n) == [since.over EXCEPT ![t] =
    IF rows[t].plan = "free" /\ n[t] >= Allowance THEN IF @ = Never THEN now ELSE @ ELSE Never]

\* appendSigned: one leaf more in the tenant's log (HostedLog says how).
Append(r) ==
    /\ req[r].at = "append" /\ leaves[req[r].tenant] < MaxLeaves
    /\ leaves' = [leaves EXCEPT ![req[r].tenant] = @ + 1]
    /\ since' = [since EXCEPT !.over = Over(req[r].tenant, row, leaves')]
    /\ req' = [req EXCEPT ![r].at = "note", ![r].waiting = TRUE, ![r].asked = now]
    /\ UNCHANGED <<now, row, tokens, audit, cacheVars, buckets, adm>>

\* noteAppend, once the append has returned.
Note(r) ==
    /\ req[r].at = "note"
    /\ LET i == req[r].instance  t == req[r].tenant IN
       quotaCache' = IF quotaCache[i][t] = None THEN quotaCache
                     ELSE [quotaCache EXCEPT ![i][t].used = @ + 1]
    /\ Now(r, Answer(req[r], "served"))
    /\ UNCHANGED <<now, dbVars, tenantCache, tokenCache, buckets, adm, since>>

\* A query is refused or its answer is lost: 503 from the resolver, 500 further on.
Unavailable(r) ==
    /\ req[r].waiting \/ req[r].at = "append"
    /\ Now(r, Answer(req[r], "refused"))
    /\ UNCHANGED <<now, dbVars, cacheVars, buckets, adm, since>>

------------------------------------------------------------------------------
(* An administrative operation: the admin page's, the portal's or the      *)
(* command line's, each in some process.                                   *)

Ordered(kind, i, t, k) == [Unstarted EXCEPT !.kind = kind, !.instance = i, !.tenant = t, !.token = k]
Ended(a, at) == [Unstarted EXCEPT !.at = at, !.kind = adm[a].kind]

\* addToken looks the tenant up first, through the cache.
Checked(a, o, exists) ==
    adm' = [adm EXCEPT ![a] = IF exists THEN [o EXCEPT !.at = "mint"] ELSE [Unstarted EXCEPT !.at = "failed"]]

CheckAsk(a, i, t, k) ==
    /\ adm[a].at = "new"
    /\ LET c == tenantCache[i][t]  o == Ordered("addToken", i, t, k) IN
       IF Fresh(c, TenantTTL, now) THEN Checked(a, o, c.row.exists)
       ELSE adm' = [adm EXCEPT ![a] = [o EXCEPT !.at = "check", !.asked = now, !.got = row[t]]]
    /\ UNCHANGED <<now, dbVars, cacheVars, buckets, req, since>>

CheckTold(a) ==
    /\ adm[a].at = "check"
    /\ Remember(adm[a].instance, adm[a].tenant, adm[a].got)
    /\ Checked(a, [adm[a] EXCEPT !.got = Absent], adm[a].got.exists)
    /\ UNCHANGED <<now, dbVars, tokenCache, quotaCache, buckets, req, since>>

\* The statement itself, as the database evaluates it.
SetRow(t, r) ==
    /\ row' = [row EXCEPT ![t] = r]
    /\ since' = [since EXCEPT !.over = Over(t, row', leaves),
                              !.tenant[t] = IF Served(r) = Served(row[t]) THEN @ ELSE now]
    /\ UNCHANGED tokens

\* What the operation is at its statement; setPlan of no row is refused by what it returns.
Stated(a, kind, i, t, k) ==
    adm' = [adm EXCEPT ![a] =
        IF kind = "setPlan" /\ ~row[t].exists THEN [Unstarted EXCEPT !.at = "failed"]
        ELSE [Ordered(kind, i, t, k) EXCEPT !.at = "applied", !.asked = now, !.hit = LiveToken(t, k)]]

OtherPlan(p) == IF p = "free" THEN "enterprise" ELSE "free"

Change(a, kind, i, t, k) ==
    /\ adm[a].at = "new"
    /\ \/ kind = "addTenant" /\ SetRow(t, [row[t] EXCEPT !.exists = TRUE])
       \/ /\ kind = "disable"
          /\ SetRow(t, IF row[t].exists THEN [row[t] EXCEPT !.disabled = TRUE] ELSE row[t])
       \/ /\ kind = "setPlan"
          /\ SetRow(t, IF row[t].exists THEN [row[t] EXCEPT !.plan = OtherPlan(@)] ELSE row[t])
       \/ /\ kind = "revoke"
          /\ tokens' = IF LiveToken(t, k) THEN [tokens EXCEPT ![k].revoked = TRUE] ELSE tokens
          /\ since' = IF LiveToken(t, k) THEN [since EXCEPT !.revoked[k] = now] ELSE since
          /\ UNCHANGED row
    /\ Stated(a, kind, i, t, k)
    /\ UNCHANGED <<now, leaves, audit, cacheVars, buckets, req>>

Mint(a) ==
    LET t == adm[a].tenant  k == adm[a].token IN
    /\ adm[a].at = "mint"
    /\ tokens[k] = None   \* randomBytes(32): a token never seen before
    /\ tokens' = [tokens EXCEPT ![k] = [tenant |-> t, revoked |-> FALSE]]
    /\ Stated(a, "addToken", adm[a].instance, t, k)
    /\ UNCHANGED <<now, row, leaves, audit, cacheVars, buckets, req, since>>

\* Its answer: this process forgets what it had cached, and writes the audit row.
Settle(a) ==
    LET i == adm[a].instance  t == adm[a].tenant  k == adm[a].token IN
    /\ adm[a].at = "applied"
    /\ adm' = [adm EXCEPT ![a].at = "record", ![a].asked = now]
    /\ IF adm[a].kind \in {"addTenant", "disable", "setPlan"}
       THEN Forget(i, t) /\ UNCHANGED tokenCache
       ELSE /\ UNCHANGED tenantCache
            /\ tokenCache' = IF adm[a].kind = "revoke" /\ adm[a].hit
                             THEN [tokenCache EXCEPT ![i][t][k] = None] ELSE tokenCache
    /\ UNCHANGED <<now, dbVars, quotaCache, buckets, req, since>>

Record(a) ==
    /\ adm[a].at = "record"
    /\ audit' = audit \cup {a}
    /\ adm' = [adm EXCEPT ![a] = Ended(a, "answered")]
    /\ UNCHANGED <<now, row, tokens, leaves, cacheVars, buckets, req, since>>

\* A query of the operation is refused or its answer lost: the rest of it does not happen.
Abandon(a) ==
    /\ adm[a].at \in {"check", "mint", "applied", "record"}
    /\ adm' = [adm EXCEPT ![a] = Ended(a, "failed")]
    /\ UNCHANGED <<now, dbVars, cacheVars, buckets, req, since>>

------------------------------------------------------------------------------
\* What is computed between two awaits takes no time, and a query at most MaxQuery.  What can
\* no longer be told apart is made equal here: an entry that outlives its cache is never read
\* again, and a bucket that is full stays so.
Kept(entry, ttl, n) == IF Fresh(entry, ttl, n + 1) THEN entry ELSE None

Tick ==
    /\ now < MaxTime
    /\ \A r \in Requests : \/ req[r].at \in {"done", "append"}
                           \/ req[r].waiting /\ now < req[r].asked + MaxQuery
    /\ \A a \in Admins : \/ adm[a].at \in {"new", "mint", "answered", "failed"}
                         \/ now < adm[a].asked + MaxQuery
    /\ now' = now + 1
    /\ tenantCache' = [i \in Instances |-> [t \in Tenants |-> Kept(tenantCache[i][t], TenantTTL, now)]]
    /\ tokenCache' = [i \in Instances |-> [t \in Tenants |-> [k \in Tokens |->
                         Kept(tokenCache[i][t][k], TokenTTL, now)]]]
    /\ quotaCache' = [i \in Instances |-> [t \in Tenants |-> Kept(quotaCache[i][t], QuotaTTL, now)]]
    /\ buckets' = [i \in Instances |-> [k \in Tokens |->
                     IF Refilled(buckets[i][k], now + 1) = Burst THEN [tokens |-> Burst, at |-> now + 1]
                     ELSE buckets[i][k]]]
    /\ UNCHANGED <<dbVars, req, adm, since>>

\* A request that finds what it needs in a cache does not wait: the event loop goes on with it
\* before it takes another answer from the database.
GoesOn(r) == QuotaLookUp(r) \/ TokenHit(r) \/ CountHit(r)
CanGoOn(r) ==
    LET i == req[r].instance  t == req[r].tenant IN
    /\ ~req[r].waiting
    /\ \/ req[r].at = "quota"
       \/ req[r].at = "authorize" /\ Fresh(tokenCache[i][t][req[r].token], TokenTTL, now)
       \/ req[r].at = "count" /\ Fresh(quotaCache[i][t], QuotaTTL, now)

Serve(r) == \/ TenantTold(r) \/ TokenAsk(r) \/ TokenTold(r) \/ CountAsk(r) \/ CountTold(r)
            \/ Append(r) \/ Note(r) \/ Unavailable(r)

Administer(a) == CheckTold(a) \/ Mint(a) \/ Settle(a) \/ Record(a) \/ Abandon(a)

Kinds == {"addTenant", "setPlan", "disable", "revoke"}

Next ==
    \/ \E r \in Requests : GoesOn(r)
    \/ /\ \A r \in Requests : ~CanGoOn(r)
       /\ \/ \E r \in Requests, i \in Servers, t \in Tenants, k \in Tokens :
                 Begin(r, i, t, k)
          \/ \E r \in Requests : Serve(r)
          \/ \E a \in Admins, i \in Instances, t \in Tenants, k \in Tokens :
                 \/ CheckAsk(a, i, t, k)
                 \/ \E kind \in Kinds : Change(a, kind, i, t, k)
          \/ \E a \in Admins : Administer(a)
          \/ Tick

Spec == Init /\ [][Next]_vars

------------------------------------------------------------------------------
(* Properties.                                                             *)

Past == {"authorize", "quota", "count", "append", "note"}
Longer(m, n) == IF m < n THEN n ELSE m

\* A tenant disabled or added anywhere is refused or served everywhere once the tenant cache's
\* life and one query have passed, whatever was being looked up when it happened (log-store.ts
\* 306-316: "a disabled tenant is refused within that").
TenantAnswersFresh ==
    \A r \in Requests : LET t == req'[r].tenant IN
        /\ req[r].at \in {"resolve", "done"} /\ req'[r] # req[r]
        /\ \/ req'[r].answer = "unknown log" /\ req'[r].at = "done" /\ Served(row[t])
           \/ (req'[r].answer = "served" \/ req'[r].at = "authorize") /\ ~Served(row[t])
        => now < since.tenant[t] + TenantTTL + MaxQuery

\* Nothing is read out or logged for a tenant but by a token minted for it, and not by one revoked
\* longer ago than the token cache lives and a query takes (authorize, 318-330).
LetInByToken ==
    \A r \in Requests : LET k == req[r].token IN
        req[r].at = "authorize" /\ (req'[r].at = "quota" \/ req'[r].answer = "served") =>
            /\ tokens[k] # None /\ tokens[k].tenant = req[r].tenant
            /\ tokens[k].revoked => now < since.revoked[k] + TokenTTL + MaxQuery

\* Types.
TypeOK ==
    /\ now \in 0..MaxTime
    /\ row \in [Tenants -> [exists : BOOLEAN, disabled : BOOLEAN, plan : {"free", "enterprise"}]]
    /\ tokens \in [Tokens -> {None} \cup [tenant : Tenants, revoked : BOOLEAN]]
    /\ leaves \in [Tenants -> 0..MaxLeaves]
    /\ audit \subseteq Admins
    /\ \A r \in Requests : /\ req[r].at \in {"done", "resolve"} \cup Past
                           /\ req[r].waiting \in BOOLEAN
    /\ \A i \in Instances, k \in Tokens : buckets[i][k].tokens \in 0..Burst

\* Both caches tell the truth of some moment within their life and one query.
CachesFresh == []TypeOK /\ [][TenantAnswersFresh /\ LetInByToken]_vars

\* A tenant that has been at its allowance for the life of the caches and the two queries of
\* quota() has every append refused, on every instance, whatever its plan was before.
QuotaBites == [][
    \A r \in Requests :
        req[r].at = "count" /\ req'[r].at = "append" =>
            now < since.over[req[r].tenant] + Longer(TenantTTL, QuotaTTL) + 2 * MaxQuery]_vars

\* Over any sequence of takes, refusals and pauses an instance lets no token append more than its
\* burst and what time refills: a unit given out is paid for by the bucket, and only time fills it
\* (RateLimiter.take).
LimiterPays == [][
    \A i \in Instances, k \in Tokens :
        LET out == Cardinality({r \in Requests : /\ req[r].at = "count" /\ req'[r].at = "append"
                                                 /\ req[r].instance = i /\ req[r].token = k})
        IN  Refilled(buckets'[i][k], now') + out
                <= Refilled(buckets[i][k], now) + Rate * (now' - now)]_vars

==============================================================================
