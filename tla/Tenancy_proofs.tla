----------------------------- MODULE Tenancy_proofs -----------------------------
(***************************************************************************)
(* Proofs about tenancy, quotas and the rate limiter (Tenancy), for any    *)
(* number of instances, requests and operations, and any lives of the      *)
(* caches.                                                                 *)
(*                                                                         *)
(* Everything a request or a cache holds was true at some moment a: either *)
(* it still is, or what made it false happened at a or later.  A write     *)
(* keeps this, since it dates what it makes false by the clock; the clock  *)
(* keeps it, since it moves nothing else.  An answer then lags behind the  *)
(* table by at most the age of what it was made from.                      *)
(***************************************************************************)
EXTENDS Tenancy, FiniteSetTheorems, TLAPS

Rows  == [exists : BOOLEAN, disabled : BOOLEAN, plan : {"free", "enterprise"}]
Times == 0..now
Dates == Times \cup {Never}

(* What was read at a, or - from a cache - at most `slack` before a.       *)
RowBy(v, t, a, slack) ==
    /\ v \in Rows /\ a \in Times
    /\ Served(v) # Served(row[t]) => a <= since.tenant[t] + slack
    /\ v.plan # "free" => a <= since.over[t] + slack
TokenBy(t, k, a, slack) ==
    /\ a \in Times /\ tokens[k] # None /\ tokens[k].tenant = t
    /\ tokens[k].revoked => a <= since.revoked[k] + slack
CountBy(t, n, a, slack) ==
    /\ n \in Nat /\ a \in Times
    /\ n < Allowance => a <= since.over[t] + slack

(* A request, and an operation, on its way.                                *)
Steps == {"done", "resolve"} \cup Past
Request == [at : Steps, waiting : BOOLEAN, asked : Nat,
            instance : Instances \cup {Idle.instance}, tenant : Tenants \cup {Idle.tenant},
            token : Tokens \cup {Idle.token}, got : Rows, live : BOOLEAN, used : Nat,
            answer : {"refused", "served", "unknown log"}]
Moment(q) == IF q.waiting THEN q.asked ELSE now
ReqInv(q) ==
    /\ q \in Request
    /\ q.at \in {"done", "append"} => ~q.waiting
    /\ q.at # "done" => /\ q.instance \in Instances /\ q.tenant \in Tenants /\ q.token \in Tokens
                        /\ q.answer = "refused"
    /\ q.waiting => q.asked <= now /\ now <= q.asked + MaxQuery
    /\ q.at \in {"resolve", "quota"} /\ q.waiting => RowBy(q.got, q.tenant, q.asked, 0)
    /\ q.at = "authorize" /\ q.waiting /\ q.live => TokenBy(q.tenant, q.token, q.asked, 0)
    /\ q.at = "count" /\ q.got.plan # "free" => Moment(q) < since.over[q.tenant] + TenantTTL + MaxQuery
    /\ q.at = "count" /\ q.waiting => CountBy(q.tenant, q.used, q.asked, 0)

Operation == [at : {"new", "check", "mint", "applied", "record", "answered", "failed"},
              kind : Kinds \cup {"addToken"}, instance : Instances \cup {Unstarted.instance},
              tenant : Tenants \cup {Unstarted.tenant}, token : Tokens \cup {Unstarted.token},
              got : Rows, asked : Nat, hit : BOOLEAN]
AdmInv(o) ==
    /\ o \in Operation
    /\ o.at \in {"check", "mint", "applied"} =>
          o.instance \in Instances /\ o.tenant \in Tenants /\ o.token \in Tokens
    /\ o.at = "check" => RowBy(o.got, o.tenant, o.asked, 0) /\ now <= o.asked + MaxQuery

(* The caches.                                                             *)
CacheType ==
    /\ tenantCache \in [Instances -> [Tenants -> {None} \cup [at : Nat, row : Rows]]]
    /\ quotaCache \in [Instances -> [Tenants -> {None} \cup [at : Nat, used : Nat]]]
    /\ tokenCache \in [Instances -> [Tenants -> [Tokens -> {None} \cup [at : Nat]]]]
RowTrue(e, t)      == e # None => RowBy(e.row, t, e.at, MaxQuery)
CountTrue(e, t)    == e # None => CountBy(t, e.used, e.at, MaxQuery)
TokenTrue(e, t, k) == e # None => TokenBy(t, k, e.at, MaxQuery)
CacheInv ==
    /\ CacheType
    /\ \A i \in Instances, t \in Tenants :
          /\ RowTrue(tenantCache[i][t], t) /\ CountTrue(quotaCache[i][t], t)
          /\ \A k \in Tokens : TokenTrue(tokenCache[i][t][k], t, k)

(* The tables, and the history of them.                                    *)
TablesInv ==
    /\ now \in 0..MaxTime
    /\ row \in [Tenants -> Rows] /\ tokens \in [Tokens -> {None} \cup [tenant : Tenants, revoked : BOOLEAN]]
    /\ leaves \in [Tenants -> 0..MaxLeaves] /\ audit \subseteq Admins
    /\ since \in [tenant : [Tenants -> Dates], revoked : [Tokens -> Dates], over : [Tenants -> Dates]]
    /\ \A t \in Tenants : since.over[t] # Never => row[t].plan = "free" /\ leaves[t] >= Allowance

BucketInv ==
    buckets \in [Instances -> [Tokens -> [tokens : 0..Burst, at : Times]]]

TenancyInv ==
    /\ TablesInv /\ CacheInv /\ BucketInv
    /\ req \in [Requests -> Request] /\ \A r \in Requests : ReqInv(req[r])
    /\ adm \in [Admins -> Operation] /\ \A a \in Admins : AdmInv(adm[a])

------------------------------------------------------------------------------
(* The records a request and an operation are made of.                     *)

LEMMA IdleIs ==
    /\ Idle \in Request /\ Idle.at = "done" /\ Idle.waiting = FALSE /\ Idle.asked = 0
    /\ Idle.answer = "refused" /\ Idle.live = FALSE
  BY DEF Idle, Request, Steps, Rows, Absent

LEMMA UnstartedIs ==
    Unstarted \in Operation /\ Unstarted.at = "new"
  BY DEF Unstarted, Operation, Rows, Absent, Kinds

(* What an answered request is.                                            *)
LEMMA AnswerIs ==
  ASSUME NEW q \in Request, NEW a \in {"refused", "served", "unknown log"}
  PROVE  /\ ReqInv(Answer(q, a)) /\ Answer(q, a).at = "done" /\ Answer(q, a).answer = a
         /\ Answer(q, a).tenant = q.tenant
  <1> DEFINE x == Answer(q, a)
  <1>1. /\ x \in Request /\ x.at = "done" /\ x.waiting = FALSE /\ x.answer = a
        /\ x.tenant = q.tenant
    BY IdleIs DEF Answer, Request
  <1> HIDE DEF x
  <1>2. ReqInv(x)
    BY <1>1 DEF ReqInv
  <1> QED
    BY <1>1, <1>2 DEF x

(* What a request that goes on is.                                         *)
LEMMA OnToIs ==
  ASSUME NEW q \in Request, NEW at \in Steps
  PROVE  /\ OnTo(q, at) \in Request /\ OnTo(q, at).at = at /\ OnTo(q, at).waiting = FALSE
         /\ OnTo(q, at).answer = q.answer /\ OnTo(q, at).tenant = q.tenant
         /\ OnTo(q, at).instance = q.instance /\ OnTo(q, at).token = q.token
  BY DEF OnTo, Request, Rows, Absent

------------------------------------------------------------------------------
(* What was true stays true: a step keeps every dated fact.                *)

Facts(t) ==
    \A s \in Nat, a \in Times :
        /\ \A v \in Rows : RowBy(v, t, a, s) => RowBy(v, t, a, s)'
        /\ \A k \in Tokens : TokenBy(t, k, a, s) => TokenBy(t, k, a, s)'
        /\ \A n \in Nat : CountBy(t, n, a, s) => CountBy(t, n, a, s)'
        /\ a < since.over[t] + s => a < since'.over[t] + s \/ s = 0

KeepsFacts == TablesInv' /\ \A t \in Tenants : Facts(t)

(* A step that leaves the tables and the clock alone.                      *)
LEMMA Standing ==
  ASSUME TablesInv, UNCHANGED <<now, dbVars, since>>
  PROVE  KeepsFacts
  BY DEF TablesInv, KeepsFacts, Facts, RowBy, TokenBy, CountBy, Times, Dates, Served, dbVars

(* Time passes.                                                            *)
LEMMA Passing ==
  ASSUME TablesInv, now < MaxTime, now' = now + 1, UNCHANGED <<dbVars, since>>
  PROVE  KeepsFacts
  BY TenancyAssumption DEF TablesInv, KeepsFacts, Facts, RowBy, TokenBy, CountBy, Times, Dates,
     Served, dbVars, Never

(* A change of the row of t, with the history it makes.                    *)
LEMMA RowSet ==
  ASSUME TablesInv, NEW t \in Tenants, NEW v \in Rows, SetRow(t, v), UNCHANGED <<now, leaves, audit>>
  PROVE  KeepsFacts
  <1> DEFINE new == [row EXCEPT ![t] = v]
             over == Over(t, new, leaves)
             dates == [since.tenant EXCEPT ![t] = IF Served(v) = Served(row[t]) THEN since.tenant[t] ELSE now]
  <1>1. row' = new /\ tokens' = tokens /\ now' = now /\ leaves' = leaves /\ audit' = audit
    BY DEF SetRow
  <1>2. since' = [since EXCEPT !.over = over, !.tenant = dates]
    BY <1>1 DEF SetRow, TablesInv
  <1>3. /\ new \in [Tenants -> Rows] /\ new[t] = v
        /\ \A u \in Tenants \ {t} : new[u] = row[u]
    BY DEF TablesInv
  <1>4. /\ dates \in [Tenants -> Dates]
        /\ dates[t] = IF Served(v) = Served(row[t]) THEN since.tenant[t] ELSE now
        /\ \A u \in Tenants \ {t} : dates[u] = since.tenant[u]
    BY DEF TablesInv, Dates, Times
  <1>5. /\ over \in [Tenants -> Dates]
        /\ over[t] = IF v.plan = "free" /\ leaves[t] >= Allowance
                     THEN IF since.over[t] = Never THEN now ELSE since.over[t] ELSE Never
        /\ \A u \in Tenants \ {t} : over[u] = since.over[u]
    BY <1>3 DEF TablesInv, Dates, Times, Over
  <1> HIDE DEF new, over, dates
  <1>6. /\ since'.over = over /\ since'.tenant = dates /\ since'.revoked = since.revoked
        /\ since' \in [tenant : [Tenants -> Dates], revoked : [Tokens -> Dates], over : [Tenants -> Dates]]
    BY <1>2, <1>4, <1>5 DEF TablesInv
  <1>7. TablesInv'
    BY <1>1, <1>3, <1>5, <1>6 DEF TablesInv, Dates, Times, Never
  <1>8. ASSUME NEW u \in Tenants PROVE Facts(u)
    <2> DEFINE was == since.over[u]
               is == since'.over[u]
    <2>1. /\ was \in Nat /\ is \in Nat
          /\ is = was \/ is = now \/ is = Never
      BY <1>5, <1>6, TenancyAssumption DEF TablesInv, Dates, Times, Never
    <2>2. /\ Served(new[u]) = Served(row[u]) => since'.tenant[u] = since.tenant[u]
          /\ Served(new[u]) # Served(row[u]) => since'.tenant[u] = now
          /\ since.tenant[u] \in Nat /\ since'.tenant[u] \in Nat
          /\ Served(new[u]) \in BOOLEAN /\ Served(row[u]) \in BOOLEAN
      BY <1>3, <1>4, <1>6, TenancyAssumption DEF TablesInv, Dates, Times, Never, Served, Rows
    <2> HIDE DEF was, is
    <2>3. now \in Nat /\ now < Never /\ Never \in Nat
      BY TenancyAssumption DEF TablesInv, Never
    <2>4. SUFFICES ASSUME NEW s \in Nat, NEW a \in Times
                   PROVE  /\ \A x \in Rows : RowBy(x, u, a, s) => RowBy(x, u, a, s)'
                          /\ \A k \in Tokens : TokenBy(u, k, a, s) => TokenBy(u, k, a, s)'
                          /\ \A n \in Nat : CountBy(u, n, a, s) => CountBy(u, n, a, s)'
                          /\ a < since.over[u] + s => a < since'.over[u] + s \/ s = 0
      BY DEF Facts
    <2>5. a \in Nat /\ a <= now /\ a \in Times'
      BY <1>1, <2>3 DEF Times
    <2>6. a <= was + s => a <= is + s
      BY <2>1, <2>3, <2>5
    <2>7. a < was + s => a < is + s \/ s = 0
      BY <2>1, <2>3, <2>5
    <2>8. ASSUME NEW x \in Rows, RowBy(x, u, a, s) PROVE RowBy(x, u, a, s)'
      <3>1. Served(x) # Served(new[u]) => a <= since'.tenant[u] + s
        BY <2>2, <2>3, <2>5, <2>8 DEF RowBy
      <3> QED
        BY <1>1, <2>5, <2>6, <2>8, <3>1 DEF RowBy, was, is
    <2>9. ASSUME NEW k \in Tokens, TokenBy(u, k, a, s) PROVE TokenBy(u, k, a, s)'
      BY <1>1, <1>6, <2>5, <2>9 DEF TokenBy
    <2>10. ASSUME NEW n \in Nat, CountBy(u, n, a, s) PROVE CountBy(u, n, a, s)'
      BY <2>5, <2>6, <2>10 DEF CountBy, was, is
    <2> QED
      BY <2>7, <2>8, <2>9, <2>10 DEF was, is
  <1> QED
    BY <1>7, <1>8 DEF KeepsFacts

(* One leaf more in the log of t.                                          *)
LEMMA LeafAdded ==
  ASSUME TablesInv, NEW t \in Tenants, leaves[t] < MaxLeaves,
         leaves' = [leaves EXCEPT ![t] = @ + 1],
         since' = [since EXCEPT !.over = Over(t, row, leaves')],
         UNCHANGED <<now, row, tokens, audit>>
  PROVE  KeepsFacts
  <1> DEFINE new == [leaves EXCEPT ![t] = @ + 1]
             over == Over(t, row, new)
  <1>1. leaves' = new /\ row' = row /\ tokens' = tokens /\ now' = now /\ audit' = audit
    OBVIOUS
  <1>2. since' = [since EXCEPT !.over = over]
    BY <1>1
  <1>3. /\ new \in [Tenants -> 0..MaxLeaves] /\ new[t] = leaves[t] + 1
        /\ \A u \in Tenants \ {t} : new[u] = leaves[u]
    BY TenancyAssumption DEF TablesInv
  <1>4. /\ over \in [Tenants -> Dates]
        /\ over[t] = IF row[t].plan = "free" /\ new[t] >= Allowance
                     THEN IF since.over[t] = Never THEN now ELSE since.over[t] ELSE Never
        /\ \A u \in Tenants \ {t} : over[u] = since.over[u]
    BY <1>3 DEF TablesInv, Dates, Times, Over
  <1> HIDE DEF new, over
  <1>5. /\ since'.over = over /\ since'.tenant = since.tenant /\ since'.revoked = since.revoked
        /\ since' \in [tenant : [Tenants -> Dates], revoked : [Tokens -> Dates], over : [Tenants -> Dates]]
    BY <1>2, <1>4 DEF TablesInv
  <1>6. TablesInv'
    BY <1>1, <1>3, <1>4, <1>5, TenancyAssumption DEF TablesInv, Dates, Times, Never
  <1>7. ASSUME NEW u \in Tenants PROVE Facts(u)
    <2> DEFINE was == since.over[u]
               is == since'.over[u]
    <2>1. /\ was \in Nat /\ is \in Nat
          /\ is = was \/ is = now \/ is = Never
      <3>1. since.over[u] \in Dates /\ over[u] \in Dates /\ Dates \subseteq Nat
        BY <1>4, TenancyAssumption DEF TablesInv, Dates, Times, Never
      <3>2. over[u] = since.over[u] \/ over[u] = now \/ over[u] = Never
        BY <1>4
      <3> QED
        BY <1>5, <3>1, <3>2
    <2> HIDE DEF was, is
    <2>2. now \in Nat /\ now < Never /\ Never \in Nat
      BY TenancyAssumption DEF TablesInv, Never
    <2>3. SUFFICES ASSUME NEW s \in Nat, NEW a \in Times
                   PROVE  /\ \A x \in Rows : RowBy(x, u, a, s) => RowBy(x, u, a, s)'
                          /\ \A k \in Tokens : TokenBy(u, k, a, s) => TokenBy(u, k, a, s)'
                          /\ \A n \in Nat : CountBy(u, n, a, s) => CountBy(u, n, a, s)'
                          /\ a < since.over[u] + s => a < since'.over[u] + s \/ s = 0
      BY DEF Facts
    <2>4. a \in Nat /\ a <= now /\ a \in Times'
      BY <1>1, <2>2 DEF Times
    <2>5. a <= was + s => a <= is + s
      BY <2>1, <2>2, <2>4
    <2>6. a < was + s => a < is + s \/ s = 0
      BY <2>1, <2>2, <2>4
    <2> QED
      BY <1>1, <1>5, <2>4, <2>5, <2>6 DEF RowBy, TokenBy, CountBy, was, is
  <1> QED
    BY <1>6, <1>7 DEF KeepsFacts

(* A token that is live is revoked.                                        *)
LEMMA TokenRevoked ==
  ASSUME TablesInv, NEW t \in Tenants, NEW k \in Tokens, LiveToken(t, k),
         tokens' = [tokens EXCEPT ![k].revoked = TRUE],
         since' = [since EXCEPT !.revoked[k] = now], UNCHANGED <<now, row, leaves, audit>>
  PROVE  KeepsFacts
  <1> DEFINE new == [tokens[k] EXCEPT !.revoked = TRUE]
             dates == [since.revoked EXCEPT ![k] = now]
  <1>1. tokens[k] \in [tenant : Tenants, revoked : BOOLEAN]
    BY DEF TablesInv, LiveToken
  <1>2. new \in [tenant : Tenants, revoked : BOOLEAN] /\ new.revoked = TRUE /\ new.tenant = tokens[k].tenant
    BY <1>1
  <1>3. new # None
    <2>1. "tenant" \in DOMAIN new
      BY <1>2
    <2>2. DOMAIN None = {"none"}
      BY DEF None
    <2> QED
      BY <2>1, <2>2
  <1>4. tokens' = [tokens EXCEPT ![k] = new]
    OBVIOUS
  <1>5. dates \in [Tokens -> Dates] /\ dates[k] = now /\ \A j \in Tokens \ {k} : dates[j] = since.revoked[j]
    BY DEF TablesInv, Dates, Times
  <1>6. since' = [since EXCEPT !.revoked = dates]
    OBVIOUS
  <1> HIDE DEF new, dates
  <1>7. /\ since'.over = since.over /\ since'.tenant = since.tenant /\ since'.revoked = dates
        /\ since' \in [tenant : [Tenants -> Dates], revoked : [Tokens -> Dates], over : [Tenants -> Dates]]
    BY <1>5, <1>6 DEF TablesInv
  <1>8. /\ tokens' \in [Tokens -> {None} \cup [tenant : Tenants, revoked : BOOLEAN]]
        /\ tokens'[k] = new /\ \A j \in Tokens \ {k} : tokens'[j] = tokens[j]
    BY <1>2, <1>4 DEF TablesInv
  <1>a. /\ now' \in 0..MaxTime /\ row' \in [Tenants -> Rows] /\ audit' \subseteq Admins
        /\ leaves' \in [Tenants -> 0..MaxLeaves] /\ Dates' = Dates
    BY DEF TablesInv, Dates, Times
  <1>b. \A u \in Tenants : since'.over[u] # Never => row'[u].plan = "free" /\ leaves'[u] >= Allowance
    BY <1>7 DEF TablesInv
  <1>9. TablesInv'
    BY <1>7, <1>8, <1>a, <1>b DEF TablesInv
  <1>10. ASSUME NEW u \in Tenants PROVE Facts(u)
    <2>1. SUFFICES ASSUME NEW s \in Nat, NEW a \in Times
                   PROVE  /\ \A x \in Rows : RowBy(x, u, a, s) => RowBy(x, u, a, s)'
                          /\ \A j \in Tokens : TokenBy(u, j, a, s) => TokenBy(u, j, a, s)'
                          /\ \A n \in Nat : CountBy(u, n, a, s) => CountBy(u, n, a, s)'
                          /\ a < since.over[u] + s => a < since'.over[u] + s \/ s = 0
      BY DEF Facts
    <2>2. a \in Nat /\ a <= now /\ a \in Times' /\ now \in Nat
      BY DEF TablesInv, Times
    <2>3. ASSUME NEW j \in Tokens, TokenBy(u, j, a, s) PROVE TokenBy(u, j, a, s)'
      <3>1. CASE j = k
        <4>1. tokens[k].tenant = u
          BY <2>3, <3>1 DEF TokenBy
        <4>2. a <= dates[k] + s
          BY <1>5, <2>2
        <4> QED
          BY <1>2, <1>3, <1>7, <1>8, <2>2, <3>1, <4>1, <4>2 DEF TokenBy
      <3>2. CASE j # k
        BY <1>5, <1>7, <1>8, <2>2, <2>3, <3>2 DEF TokenBy
      <3> QED
        BY <3>1, <3>2
    <2> QED
      BY <1>7, <2>2, <2>3 DEF RowBy, CountBy
  <1> QED
    BY <1>9, <1>10 DEF KeepsFacts

(* A token no one had before is minted.                                    *)
LEMMA TokenMinted ==
  ASSUME TablesInv, NEW t \in Tenants, NEW k \in Tokens, tokens[k] = None,
         tokens' = [tokens EXCEPT ![k] = [tenant |-> t, revoked |-> FALSE]],
         UNCHANGED <<now, row, leaves, audit, since>>
  PROVE  KeepsFacts
  <1>1. /\ tokens' \in [Tokens -> {None} \cup [tenant : Tenants, revoked : BOOLEAN]]
        /\ \A j \in Tokens \ {k} : tokens'[j] = tokens[j]
    BY DEF TablesInv
  <1>2. TablesInv'
    BY <1>1 DEF TablesInv, Dates, Times
  <1> QED
    BY <1>1, <1>2 DEF KeepsFacts, Facts, RowBy, TokenBy, CountBy, Times

(* What a request knows outlives a step that keeps the facts.              *)
LEMMA RequestKept ==
  ASSUME TablesInv, KeepsFacts, now' = now, NEW q, ReqInv(q)
  PROVE  ReqInv(q)'
  <1>1. q \in Request /\ q.asked \in Nat /\ q.got \in Rows /\ q.used \in Nat
    BY DEF ReqInv, Request
  <1>2. /\ now \in Nat /\ now' = now /\ now \in Times
        /\ q.waiting => q.asked \in Times
    BY <1>1 DEF TablesInv, ReqInv, Times
  <1>3. q.at \in {"resolve", "quota"} /\ q.waiting => RowBy(q.got, q.tenant, q.asked, 0)'
    <2> SUFFICES ASSUME q.at \in {"resolve", "quota"}, q.waiting PROVE RowBy(q.got, q.tenant, q.asked, 0)'
      OBVIOUS
    <2>1. RowBy(q.got, q.tenant, q.asked, 0) /\ q.tenant \in Tenants
      BY DEF ReqInv
    <2> QED
      BY <1>1, <1>2, <2>1 DEF KeepsFacts, Facts
  <1>4. q.at = "authorize" /\ q.waiting /\ q.live => TokenBy(q.tenant, q.token, q.asked, 0)'
    <2> SUFFICES ASSUME q.at = "authorize", q.waiting, q.live PROVE TokenBy(q.tenant, q.token, q.asked, 0)'
      OBVIOUS
    <2>1. TokenBy(q.tenant, q.token, q.asked, 0) /\ q.tenant \in Tenants /\ q.token \in Tokens
      BY DEF ReqInv
    <2> QED
      BY <1>1, <1>2, <2>1 DEF KeepsFacts, Facts
  <1>5. q.at = "count" /\ q.waiting => CountBy(q.tenant, q.used, q.asked, 0)'
    <2> SUFFICES ASSUME q.at = "count", q.waiting PROVE CountBy(q.tenant, q.used, q.asked, 0)'
      OBVIOUS
    <2>1. CountBy(q.tenant, q.used, q.asked, 0) /\ q.tenant \in Tenants
      BY DEF ReqInv
    <2> QED
      BY <1>1, <1>2, <2>1 DEF KeepsFacts, Facts
  <1>6. q.at = "count" /\ q.got.plan # "free"
          => Moment(q) < since'.over[q.tenant] + TenantTTL + MaxQuery
    <2> SUFFICES ASSUME q.at = "count", q.got.plan # "free"
                 PROVE  Moment(q) < since'.over[q.tenant] + TenantTTL + MaxQuery
      OBVIOUS
    <2>1. q.tenant \in Tenants /\ Moment(q) < since.over[q.tenant] + TenantTTL + MaxQuery
      BY DEF ReqInv
    <2> DEFINE m == Moment(q)
               w == since.over[q.tenant]
               z == since'.over[q.tenant]
    <2>2. m \in Times /\ w \in Nat /\ z \in Nat
      BY <1>2, <2>1, TenancyAssumption DEF Moment, KeepsFacts, TablesInv, Dates, Times, Never
    <2>3. TenantTTL + MaxQuery \in Nat \ {0}
      BY TenancyAssumption
    <2>4. m < w + (TenantTTL + MaxQuery)
      BY <2>1, <2>2, TenancyAssumption
    <2>5. m < z + (TenantTTL + MaxQuery)
      BY <2>1, <2>2, <2>3, <2>4 DEF KeepsFacts, Facts
    <2> HIDE DEF m, z
    <2>6. m < z + TenantTTL + MaxQuery
      <3>1. m \in Nat
        BY <2>2 DEF Times
      <3> QED
        BY <2>2, <2>5, <3>1, TenancyAssumption
    <2> QED
      BY <2>6 DEF m, z
  <1>7. Moment(q)' = Moment(q)
    BY <1>2 DEF Moment
  <1> QED
    BY <1>2, <1>3, <1>4, <1>5, <1>6, <1>7 DEF ReqInv

(* Likewise what an operation knows, and what a cache holds.               *)
LEMMA OperationKept ==
  ASSUME TablesInv, KeepsFacts, now' = now, NEW o, AdmInv(o)
  PROVE  AdmInv(o)'
  <1>1. o \in Operation /\ o.asked \in Nat /\ o.got \in Rows
    BY DEF AdmInv, Operation
  <1>2. o.at = "check" => RowBy(o.got, o.tenant, o.asked, 0)'
    <2> SUFFICES ASSUME o.at = "check" PROVE RowBy(o.got, o.tenant, o.asked, 0)'
      OBVIOUS
    <2>1. RowBy(o.got, o.tenant, o.asked, 0) /\ o.tenant \in Tenants /\ o.asked \in Times
      BY DEF AdmInv, RowBy
    <2> QED
      BY <1>1, <2>1 DEF KeepsFacts, Facts
  <1> QED
    BY <1>2 DEF AdmInv

LEMMA EntryKept ==
  ASSUME KeepsFacts, NEW t \in Tenants, NEW e
  PROVE  /\ RowTrue(e, t) => RowTrue(e, t)'
         /\ CountTrue(e, t) => CountTrue(e, t)'
         /\ \A k \in Tokens : TokenTrue(e, t, k) => TokenTrue(e, t, k)'
  <1>0. MaxQuery \in Nat
    BY TenancyAssumption
  <1>1. ASSUME RowTrue(e, t), e # None PROVE RowBy(e.row, t, e.at, MaxQuery)'
    <2>1. RowBy(e.row, t, e.at, MaxQuery) /\ e.row \in Rows /\ e.at \in Times
      BY <1>1 DEF RowTrue, RowBy
    <2> QED
      BY <1>0, <2>1 DEF KeepsFacts, Facts
  <1>2. ASSUME CountTrue(e, t), e # None PROVE CountBy(t, e.used, e.at, MaxQuery)'
    <2>1. CountBy(t, e.used, e.at, MaxQuery) /\ e.used \in Nat /\ e.at \in Times
      BY <1>2 DEF CountTrue, CountBy
    <2> QED
      BY <1>0, <2>1 DEF KeepsFacts, Facts
  <1>3. ASSUME NEW k \in Tokens, TokenTrue(e, t, k), e # None PROVE TokenBy(t, k, e.at, MaxQuery)'
    <2>1. TokenBy(t, k, e.at, MaxQuery) /\ e.at \in Times
      BY <1>3 DEF TokenTrue, TokenBy
    <2> QED
      BY <1>0, <2>1 DEF KeepsFacts, Facts
  <1> QED
    BY <1>1, <1>2, <1>3 DEF RowTrue, CountTrue, TokenTrue

(* The caches, when each entry is the one there was or none.               *)
LEMMA CachesKept ==
  ASSUME CacheInv, KeepsFacts, CacheType',
         \A i \in Instances, t \in Tenants :
            /\ tenantCache'[i][t] \in {tenantCache[i][t], None}
            /\ quotaCache'[i][t] \in {quotaCache[i][t], None}
            /\ \A k \in Tokens : tokenCache'[i][t][k] \in {tokenCache[i][t][k], None}
  PROVE  CacheInv'
  <1>1. ASSUME NEW i \in Instances, NEW t \in Tenants
        PROVE  /\ RowTrue(tenantCache[i][t], t)' /\ CountTrue(quotaCache[i][t], t)'
               /\ \A k \in Tokens : TokenTrue(tokenCache[i][t][k], t, k)'
    <2>1. PICK e, f : e = tenantCache'[i][t] /\ f = quotaCache'[i][t]
      OBVIOUS
    <2>2. RowTrue(e, t) /\ CountTrue(f, t)
      BY <2>1 DEF CacheInv, RowTrue, CountTrue
    <2>3. ASSUME NEW k \in Tokens PROVE TokenTrue(tokenCache[i][t][k], t, k)'
      <3>1. PICK g : g = tokenCache'[i][t][k]
        OBVIOUS
      <3>2. TokenTrue(g, t, k)
        BY <3>1 DEF CacheInv, TokenTrue
      <3>3. TokenTrue(g, t, k)'
        BY <3>2, EntryKept
      <3> QED
        BY <3>1, <3>3 DEF TokenTrue
    <2>4. RowTrue(e, t)' /\ CountTrue(f, t)'
      BY <2>2, EntryKept
    <2> QED
      BY <2>1, <2>3, <2>4 DEF RowTrue, CountTrue
  <1> QED
    BY <1>1 DEF CacheInv

LEMMA CachesAlone ==
  ASSUME CacheInv, KeepsFacts, UNCHANGED cacheVars
  PROVE  CacheInv'
  <1>1. CacheType'
    BY DEF CacheInv, CacheType, cacheVars
  <1> QED
    BY <1>1, CachesKept DEF cacheVars

------------------------------------------------------------------------------
(* A step of a request: where it may go from where it is, and what of the  *)
(* bucket of its token is left.                                            *)

FreshAnswer(p) ==
    \/ p.answer = "unknown log" /\ p.at = "done" /\ Served(row[p.tenant])
    \/ (p.answer = "served" \/ p.at = "authorize") /\ ~Served(row[p.tenant])
    => now < since.tenant[p.tenant] + TenantTTL + MaxQuery
LetIn(q) ==
    /\ tokens[q.token] # None /\ tokens[q.token].tenant = q.tenant
    /\ tokens[q.token].revoked => now < since.revoked[q.token] + TokenTTL + MaxQuery
UnderQuota(q) == now < since.over[q.tenant] + Longer(TenantTTL, QuotaTTL) + 2 * MaxQuery

Moves(q, p) ==
    /\ q.at \in {"resolve", "done"} => FreshAnswer(p)
    /\ q.at = "authorize" /\ (p.at = "quota" \/ p.answer = "served") => LetIn(q)
    /\ q.at = "count" /\ p.at = "append" => UnderQuota(q)
Pays(q, p) ==
    LET left == Refilled(buckets[q.instance][q.token], now) IN
    \/ buckets' = buckets /\ ~(q.at = "count" /\ p.at = "append")
    \/ q.at = "count" /\ p.at # "append" /\ Leave(q.instance, q.token, left)
    \/ q.at = "count" /\ p.at = "append" /\ left >= 1 /\ Leave(q.instance, q.token, left - 1)

StepsOn(r) ==
    /\ KeepsFacts /\ CacheInv' /\ now' = now /\ adm' = adm
    /\ \E p : ReqInv(p)' /\ Moves(req[r], p) /\ Pays(req[r], p) /\ req' = [req EXCEPT ![r] = p]

(* An answer about t's row that is not older than a cache keeps one.       *)
Recent(v, t) ==
    /\ v \in Rows
    /\ Served(v) # Served(row[t]) => now < since.tenant[t] + TenantTTL + MaxQuery
    /\ v.plan # "free" => now < since.over[t] + TenantTTL + MaxQuery

Asking(q) ==
    /\ q \in Request /\ q.instance \in Instances /\ q.tenant \in Tenants /\ q.token \in Tokens
    /\ q.at \in {"resolve", "quota"} /\ q.answer = "refused"

LEMMA AfterTenantMoves ==
  ASSUME NEW q, Asking(q), NEW v, Recent(v, q.tenant), NEW p \in AfterTenant(q, v)
  PROVE  /\ ReqInv(p) /\ p.at # "append" /\ FreshAnswer(p)
  <1> USE DEF Asking
  <1>1. CASE p = Answer(q, "served") /\ Served(v)
    BY <1>1, AnswerIs DEF FreshAnswer, Recent, Served, Rows
  <1>2. CASE p = Answer(q, "unknown log") /\ ~Served(v)
    BY <1>2, AnswerIs DEF FreshAnswer, Recent, Served, Rows
  <1>3. CASE p = Answer(q, "refused")
    BY <1>3, AnswerIs DEF FreshAnswer
  <1>4. CASE p = OnTo(q, "authorize") /\ Served(v)
    <2>1. "authorize" \in Steps
      BY DEF Steps, Past
    <2>2. /\ p \in Request /\ p.at = "authorize" /\ p.waiting = FALSE /\ p.answer = "refused"
          /\ p.tenant = q.tenant /\ p.instance = q.instance /\ p.token = q.token
      BY <1>4, <2>1, OnToIs
    <2>3. ReqInv(p)
      BY <2>2 DEF ReqInv
    <2> QED
      BY <1>4, <2>2, <2>3 DEF FreshAnswer, Recent, Served, Rows
  <1>5. CASE p = [OnTo(q, "count") EXCEPT !.got = v]
    <2>1. "count" \in Steps
      BY DEF Steps, Past
    <2> DEFINE o == OnTo(q, "count")
    <2>2. /\ o \in Request /\ o.at = "count" /\ o.waiting = FALSE /\ o.answer = "refused"
          /\ o.tenant = q.tenant /\ o.instance = q.instance /\ o.token = q.token
      BY <2>1, OnToIs
    <2> HIDE DEF o
    <2>3. /\ p \in Request /\ p.at = "count" /\ p.waiting = FALSE /\ p.answer = "refused" /\ p.got = v
          /\ p.tenant = q.tenant /\ p.instance = q.instance /\ p.token = q.token
      <3>1. p = [o EXCEPT !.got = v]
        BY <1>5 DEF o
      <3> QED
        BY <2>2, <3>1 DEF Recent, Request
    <2>4. ReqInv(p)
      BY <2>3 DEF ReqInv, Recent, Moment
    <2> QED
      BY <2>3, <2>4 DEF FreshAnswer
  <1> QED
    BY <1>1, <1>2, <1>3, <1>4, <1>5 DEF AfterTenant

(* A lookup that hits the cache goes on; one that misses waits.            *)
LEMMA LookUpMoves ==
  ASSUME TenancyInv, NEW r \in Requests, NEW q, Asking(q), LookUp(r, q)
  PROVE  \E p : ReqInv(p) /\ p.at # "append" /\ FreshAnswer(p) /\ req' = [req EXCEPT ![r] = p]
  <1> DEFINE c == tenantCache[q.instance][q.tenant]
             w == [q EXCEPT !.waiting = TRUE, !.asked = now, !.got = row[q.tenant]]
  <1>1. PICK p \in IF Fresh(c, TenantTTL, now) THEN AfterTenant(q, c.row) ELSE {w} :
            req' = [req EXCEPT ![r] = p]
    BY DEF LookUp, OneOf, Now
  <1>2. CASE Fresh(c, TenantTTL, now)
    <2>1. PICK v, a : v = c.row /\ a = c.at
      OBVIOUS
    <2>2. RowBy(v, q.tenant, a, MaxQuery) /\ a \in Nat /\ now - a < TenantTTL
      <3>1. RowTrue(c, q.tenant) /\ c # None /\ now - c.at < TenantTTL
        BY <1>2 DEF TenancyInv, CacheInv, Fresh, Asking
      <3>2. c \in {None} \cup [at : Nat, row : Rows]
        BY DEF TenancyInv, CacheInv, CacheType, Asking
      <3> QED
        BY <2>1, <3>1, <3>2 DEF RowTrue
    <2>3. since.tenant[q.tenant] \in Nat /\ since.over[q.tenant] \in Nat /\ now \in Nat
      BY TenancyAssumption DEF TenancyInv, TablesInv, Dates, Times, Never, Asking
    <2>4. Recent(v, q.tenant)
      BY <2>2, <2>3, TenancyAssumption DEF RowBy, Recent
    <2> QED
      BY <1>1, <1>2, <2>1, <2>4, AfterTenantMoves
  <1>3. CASE ~Fresh(c, TenantTTL, now)
    <2>1. p = w
      BY <1>1, <1>3
    <2>2. row[q.tenant] \in Rows /\ now \in Nat /\ now < Never /\ MaxQuery \in Nat
      BY TenancyAssumption DEF TenancyInv, TablesInv, Never, Asking
    <2>3. /\ p \in Request /\ p.waiting = TRUE /\ p.asked = now /\ p.got = row[q.tenant] /\ p.at = q.at
          /\ p.tenant = q.tenant /\ p.instance = q.instance /\ p.token = q.token /\ p.answer = "refused"
      BY <2>1, <2>2 DEF Asking, Request
    <2>4. RowBy(p.got, p.tenant, p.asked, 0)
      <3>1. p.got.plan # "free" => since.over[q.tenant] = Never
        BY <2>3 DEF TenancyInv, TablesInv, Asking
      <3>2. Never \in Nat
        BY TenancyAssumption DEF Never
      <3> QED
        BY <2>2, <2>3, <3>1, <3>2 DEF RowBy, Times
    <2>5. ReqInv(p)
      BY <2>2, <2>3, <2>4 DEF ReqInv, Asking
    <2>6. p.at # "append" /\ FreshAnswer(p)
      BY <2>3 DEF FreshAnswer, Asking
    <2> QED
      BY <1>1, <2>5, <2>6
  <1> QED
    BY <1>2, <1>3

(* What most steps of a request leave alone.                               *)
LEMMA StepsOnIf ==
  ASSUME TenancyInv, NEW r \in Requests, UNCHANGED <<now, dbVars, since, adm>>, CacheInv', NEW p, ReqInv(p),
         Moves(req[r], p), Pays(req[r], p), req' = [req EXCEPT ![r] = p]
  PROVE  StepsOn(r)
  BY Standing, RequestKept DEF StepsOn, TenancyInv

LEMMA CachesStand ==
  ASSUME TenancyInv, UNCHANGED <<now, dbVars, since, cacheVars>>
  PROVE  CacheInv'
  BY Standing, CachesAlone DEF TenancyInv

------------------------------------------------------------------------------
(* The steps of a request, one by one.                                     *)

LEMMA BeginSteps ==
  ASSUME TenancyInv, NEW r \in Requests, NEW i \in Servers, NEW t \in Tenants, NEW k \in Tokens,
         Begin(r, i, t, k)
  PROVE  StepsOn(r)
  <1>1. PICK q : q = [Idle EXCEPT !.at = "resolve", !.instance = i, !.tenant = t, !.token = k]
    OBVIOUS
  <1>2. Asking(q)
    BY <1>1, IdleIs, TenancyAssumption DEF Asking, Request, Steps
  <1>3. LookUp(r, q) /\ req[r].at = "done" /\ UNCHANGED <<now, dbVars, cacheVars, buckets, adm, since>>
    BY <1>1 DEF Begin
  <1>4. PICK p : ReqInv(p) /\ p.at # "append" /\ FreshAnswer(p) /\ req' = [req EXCEPT ![r] = p]
    BY <1>2, <1>3, LookUpMoves
  <1>5. Moves(req[r], p) /\ Pays(req[r], p)
    BY <1>3, <1>4 DEF Moves, Pays
  <1> QED
    BY <1>3, <1>4, <1>5, CachesStand, StepsOnIf

LEMMA QuotaLookUpSteps ==
  ASSUME TenancyInv, NEW r \in Requests, QuotaLookUp(r)
  PROVE  StepsOn(r)
  <1>1. PICK q : q = req[r]
    OBVIOUS
  <1>2. /\ LookUp(r, q) /\ q.at = "quota" /\ ReqInv(q)
        /\ UNCHANGED <<now, dbVars, cacheVars, buckets, adm, since>>
    BY <1>1 DEF QuotaLookUp, TenancyInv
  <1>3. Asking(q)
    BY <1>2 DEF Asking, ReqInv
  <1>4. PICK p : ReqInv(p) /\ p.at # "append" /\ FreshAnswer(p) /\ req' = [req EXCEPT ![r] = p]
    BY <1>2, <1>3, LookUpMoves
  <1>5. Moves(req[r], p) /\ Pays(req[r], p)
    BY <1>1, <1>2, <1>4 DEF Moves, Pays
  <1> QED
    BY <1>2, <1>4, <1>5, CachesStand, StepsOnIf

(* An answer of the database enters the cache that asked.                  *)
LEMMA Remembers ==
  ASSUME TenancyInv, NEW i \in Instances, NEW t \in Tenants, NEW v, NEW a \in Nat, now <= a + MaxQuery,
         RowBy(v, t, a, 0), Remember(i, t, v), UNCHANGED <<now, dbVars, tokenCache, quotaCache, since>>
  PROVE  CacheInv'
  <1>1. KeepsFacts
    BY Standing DEF TenancyInv
  <1>2. PICK e : e = [at |-> now, row |-> v]
    OBVIOUS
  <1>3. tenantCache' = [tenantCache EXCEPT ![i][t] = e]
    BY <1>2 DEF Remember
  <1>4. e \in [at : Nat, row : Rows] /\ e.at = now /\ e.row = v
    BY <1>2 DEF RowBy, TenancyInv, TablesInv
  <1>5. CacheType' /\ quotaCache' = quotaCache /\ tokenCache' = tokenCache
    BY <1>3, <1>4 DEF TenancyInv, CacheInv, CacheType
  <1>6. RowTrue(e, t)
    <2>1. now \in Nat /\ since.tenant[t] \in Nat /\ since.over[t] \in Nat /\ MaxQuery \in Nat
      BY TenancyAssumption DEF TenancyInv, TablesInv, Dates, Times, Never
    <2> QED
      BY <1>4, <2>1 DEF RowTrue, RowBy, Times
  <1>7. ASSUME NEW j \in Instances, NEW u \in Tenants
        PROVE  /\ RowTrue(tenantCache[j][u], u)' /\ CountTrue(quotaCache[j][u], u)'
               /\ \A k \in Tokens : TokenTrue(tokenCache[j][u][k], u, k)'
    <2>1. PICK x, y : x = tenantCache'[j][u] /\ y = quotaCache[j][u]
      OBVIOUS
    <2>2. (x = e /\ j = i /\ u = t) \/ x = tenantCache[j][u]
      BY <1>3, <2>1 DEF TenancyInv, CacheInv, CacheType
    <2>3. RowTrue(x, u) /\ CountTrue(y, u)
      BY <1>6, <2>1, <2>2 DEF TenancyInv, CacheInv
    <2>4. RowTrue(x, u)' /\ CountTrue(y, u)'
      BY <1>1, <2>3, EntryKept
    <2>5. ASSUME NEW k \in Tokens PROVE TokenTrue(tokenCache[j][u][k], u, k)'
      <3>1. PICK z : z = tokenCache[j][u][k]
        OBVIOUS
      <3>2. TokenTrue(z, u, k)
        BY <3>1 DEF TenancyInv, CacheInv
      <3>3. TokenTrue(z, u, k)'
        BY <1>1, <3>2, EntryKept
      <3> QED
        BY <1>5, <3>1, <3>3 DEF TokenTrue
    <2> QED
      BY <1>5, <2>1, <2>4, <2>5 DEF RowTrue, CountTrue
  <1> QED
    BY <1>5, <1>7 DEF CacheInv

LEMMA TenantToldSteps ==
  ASSUME TenancyInv, NEW r \in Requests, TenantTold(r)
  PROVE  StepsOn(r)
  <1>1. PICK q : q = req[r]
    OBVIOUS
  <1>2. /\ q.at \in {"resolve", "quota"} /\ q.waiting /\ ReqInv(q)
        /\ Remember(q.instance, q.tenant, q.got) /\ OneOf(r, AfterTenant(q, q.got))
        /\ UNCHANGED <<now, dbVars, tokenCache, quotaCache, buckets, adm, since>>
    BY <1>1 DEF TenantTold, TenancyInv
  <1>3. /\ Asking(q) /\ RowBy(q.got, q.tenant, q.asked, 0) /\ q.asked \in Nat
        /\ now <= q.asked + MaxQuery
    BY <1>2 DEF Asking, ReqInv, Request
  <1>4. CacheInv'
    BY <1>2, <1>3, Remembers DEF Asking
  <1>5. Recent(q.got, q.tenant)
    <2>1. since.tenant[q.tenant] \in Nat /\ since.over[q.tenant] \in Nat /\ now \in Nat
      BY <1>3, TenancyAssumption DEF TenancyInv, TablesInv, Dates, Times, Never, Asking
    <2> QED
      BY <1>3, <2>1, TenancyAssumption DEF RowBy, Recent
  <1>6. PICK p \in AfterTenant(q, q.got) : req' = [req EXCEPT ![r] = p]
    BY <1>2 DEF OneOf, Now
  <1>7. ReqInv(p) /\ p.at # "append" /\ FreshAnswer(p)
    BY <1>3, <1>5, <1>6, AfterTenantMoves
  <1>8. Moves(req[r], p) /\ Pays(req[r], p)
    BY <1>1, <1>2, <1>7 DEF Moves, Pays
  <1> QED
    BY <1>2, <1>4, <1>6, <1>7, <1>8, StepsOnIf

LEMMA AuthorizedMoves ==
  ASSUME TenancyInv, NEW r \in Requests, NEW q, q = req[r], q.at = "authorize", LetIn(q), Authorized(r),
         buckets' = buckets
  PROVE  \E p : ReqInv(p) /\ Moves(req[r], p) /\ Pays(req[r], p) /\ req' = [req EXCEPT ![r] = p]
  <1>1. PICK p \in {Answer(q, "served"), OnTo(q, "quota")} : req' = [req EXCEPT ![r] = p]
    BY DEF Authorized, OneOf, Now
  <1>2. /\ ReqInv(q) /\ q \in Request /\ q.instance \in Instances /\ q.tenant \in Tenants
        /\ q.token \in Tokens /\ q.answer = "refused"
    BY DEF TenancyInv, ReqInv
  <1>3. ReqInv(p) /\ p.at # "append"
    <2>1. CASE p = Answer(q, "served")
      BY <1>2, <2>1, AnswerIs
    <2>2. CASE p = OnTo(q, "quota")
      <3>1. "quota" \in Steps
        BY DEF Steps, Past
      <3>2. /\ p \in Request /\ p.at = "quota" /\ p.waiting = FALSE /\ p.answer = "refused"
            /\ p.tenant = q.tenant /\ p.instance = q.instance /\ p.token = q.token
        BY <1>2, <2>2, <3>1, OnToIs
      <3> QED
        BY <1>2, <3>2 DEF ReqInv
    <2> QED
      BY <1>1, <2>1, <2>2
  <1>4. Moves(req[r], p) /\ Pays(req[r], p)
    BY <1>3 DEF Moves, Pays
  <1> QED
    BY <1>1, <1>3, <1>4

LEMMA TokenHitSteps ==
  ASSUME TenancyInv, NEW r \in Requests, TokenHit(r)
  PROVE  StepsOn(r)
  <1>1. PICK q : q = req[r]
    OBVIOUS
  <1> DEFINE c == tokenCache[q.instance][q.tenant][q.token]
  <1>2. /\ q.at = "authorize" /\ ReqInv(q) /\ Authorized(r) /\ Fresh(c, TokenTTL, now)
        /\ UNCHANGED <<now, dbVars, cacheVars, buckets, adm, since>>
    BY <1>1 DEF TokenHit, TenancyInv
  <1>3. q.instance \in Instances /\ q.tenant \in Tenants /\ q.token \in Tokens
    BY <1>2 DEF ReqInv
  <1>4. PICK a : a = c.at
    OBVIOUS
  <1>5. TokenBy(q.tenant, q.token, a, MaxQuery) /\ a \in Nat /\ now - a < TokenTTL
    <2>1. TokenTrue(c, q.tenant, q.token) /\ c # None /\ now - c.at < TokenTTL
      BY <1>2, <1>3 DEF TenancyInv, CacheInv, Fresh
    <2>2. c \in {None} \cup [at : Nat]
      BY <1>3 DEF TenancyInv, CacheInv, CacheType
    <2> QED
      BY <1>4, <2>1, <2>2 DEF TokenTrue
  <1>6. now \in Nat /\ since.revoked[q.token] \in Nat
    BY <1>3, TenancyAssumption DEF TenancyInv, TablesInv, Dates, Times, Never
  <1>7. LetIn(q)
    BY <1>5, <1>6, TenancyAssumption DEF LetIn, TokenBy
  <1>8. buckets' = buckets
    BY <1>2
  <1>9. \E p : ReqInv(p) /\ Moves(req[r], p) /\ Pays(req[r], p) /\ req' = [req EXCEPT ![r] = p]
    BY <1>1, <1>2, <1>7, <1>8, AuthorizedMoves
  <1> QED
    BY <1>2, <1>9, CachesStand, StepsOnIf

LEMMA TokenAskSteps ==
  ASSUME TenancyInv, NEW r \in Requests, TokenAsk(r)
  PROVE  StepsOn(r)
  <1>1. PICK q : q = req[r]
    OBVIOUS
  <1>2. PICK l : l = LiveToken(q.tenant, q.token)
    OBVIOUS
  <1>3. l \in BOOLEAN
    BY <1>2 DEF LiveToken
  <1>4. PICK p : p = [q EXCEPT !.waiting = TRUE, !.asked = now, !.live = l]
    OBVIOUS
  <1>5. /\ q.at = "authorize" /\ ReqInv(q) /\ UNCHANGED <<now, dbVars, cacheVars, buckets, adm, since>>
        /\ req' = [req EXCEPT ![r] = p]
    BY <1>1, <1>2, <1>4 DEF TokenAsk, TenancyInv
  <1>6. q \in Request /\ now \in Nat /\ now \in Times /\ MaxQuery \in Nat
    BY <1>5, TenancyAssumption DEF ReqInv, TenancyInv, TablesInv, Times
  <1>7. /\ p \in Request /\ p.waiting = TRUE /\ p.asked = now /\ p.live = l /\ p.at = "authorize"
        /\ p.tenant = q.tenant /\ p.instance = q.instance /\ p.token = q.token /\ p.answer = q.answer
    BY <1>3, <1>4, <1>5, <1>6 DEF Request
  <1>8. p.live => TokenBy(p.tenant, p.token, p.asked, 0)
    BY <1>2, <1>6, <1>7 DEF LiveToken, TokenBy
  <1>9. ReqInv(p)
    BY <1>5, <1>6, <1>7, <1>8 DEF ReqInv
  <1>10. p.answer = "refused"
    BY <1>5, <1>7 DEF ReqInv
  <1>11. Moves(req[r], p) /\ Pays(req[r], p)
    BY <1>1, <1>5, <1>7, <1>10 DEF Moves, Pays
  <1> QED
    BY <1>5, <1>9, <1>11, CachesStand, StepsOnIf

LEMMA TokenToldSteps ==
  ASSUME TenancyInv, NEW r \in Requests, TokenTold(r)
  PROVE  StepsOn(r)
  <1>1. PICK q : q = req[r]
    OBVIOUS
  <1>2. /\ q.at = "authorize" /\ q.waiting /\ ReqInv(q)
        /\ UNCHANGED <<now, dbVars, tenantCache, quotaCache, buckets, adm, since>>
    BY <1>1 DEF TokenTold, TenancyInv
  <1>3. /\ q \in Request /\ q.instance \in Instances /\ q.tenant \in Tenants /\ q.token \in Tokens
        /\ q.asked \in Nat /\ now <= q.asked + MaxQuery /\ q.asked <= now
        /\ q.live => TokenBy(q.tenant, q.token, q.asked, 0)
    BY <1>2 DEF ReqInv, Request
  <1>4. now \in Nat /\ since.revoked[q.token] \in Nat /\ MaxQuery \in Nat /\ TokenTTL \in Nat \ {0}
    BY <1>3, TenancyAssumption DEF TenancyInv, TablesInv, Dates, Times, Never
  <1>5. CASE ~q.live
    <2>1. tokenCache' = tokenCache /\ Now(r, Answer(q, "refused"))
      BY <1>1, <1>5 DEF TokenTold
    <2>2. PICK p : p = Answer(q, "refused")
      OBVIOUS
    <2>3. ReqInv(p) /\ p.at = "done" /\ p.answer = "refused"
      BY <1>3, <2>2, AnswerIs
    <2>4. Moves(req[r], p) /\ Pays(req[r], p)
      BY <1>1, <1>2, <2>3 DEF Moves, Pays
    <2>5. CacheInv'
      BY <1>2, <2>1, CachesStand DEF cacheVars
    <2> QED
      BY <1>2, <2>1, <2>2, <2>3, <2>4, <2>5, StepsOnIf DEF Now
  <1>6. CASE q.live
    <2>1. PICK e : e = [at |-> now]
      OBVIOUS
    <2>2. tokenCache' = [tokenCache EXCEPT ![q.instance][q.tenant][q.token] = e] /\ Authorized(r)
      BY <1>1, <1>6, <2>1 DEF TokenTold
    <2>3. e \in [at : Nat] /\ e.at = now
      BY <1>4, <2>1
    <2>4. CacheType' /\ quotaCache' = quotaCache /\ tenantCache' = tenantCache
      BY <1>2, <2>2, <2>3 DEF TenancyInv, CacheInv, CacheType
    <2>5. TokenTrue(e, q.tenant, q.token)
      BY <1>3, <1>4, <1>6, <2>3 DEF TokenTrue, TokenBy, Times
    <2>6. KeepsFacts
      BY <1>2, Standing DEF TenancyInv
    <2>7. ASSUME NEW j \in Instances, NEW u \in Tenants
          PROVE  /\ RowTrue(tenantCache[j][u], u)' /\ CountTrue(quotaCache[j][u], u)'
                 /\ \A k \in Tokens : TokenTrue(tokenCache[j][u][k], u, k)'
      <3>1. PICK x, y : x = tenantCache[j][u] /\ y = quotaCache[j][u]
        OBVIOUS
      <3>2. RowTrue(x, u) /\ CountTrue(y, u)
        BY <3>1 DEF TenancyInv, CacheInv
      <3>3. RowTrue(x, u)' /\ CountTrue(y, u)'
        BY <2>6, <3>2, EntryKept
      <3>4. ASSUME NEW k \in Tokens PROVE TokenTrue(tokenCache[j][u][k], u, k)'
        <4>1. PICK z : z = tokenCache'[j][u][k]
          OBVIOUS
        <4>2. (z = e /\ j = q.instance /\ u = q.tenant /\ k = q.token) \/ z = tokenCache[j][u][k]
          BY <2>2, <4>1 DEF TenancyInv, CacheInv, CacheType
        <4>3. TokenTrue(z, u, k)
          BY <2>5, <4>2 DEF TenancyInv, CacheInv
        <4>4. TokenTrue(z, u, k)'
          BY <2>6, <4>3, EntryKept
        <4> QED
          BY <4>1, <4>4 DEF TokenTrue
      <3> QED
        BY <2>4, <3>1, <3>3, <3>4 DEF RowTrue, CountTrue
    <2>8. CacheInv'
      BY <2>4, <2>7 DEF CacheInv
    <2>9. LetIn(q)
      BY <1>3, <1>4, <1>6 DEF LetIn, TokenBy
    <2>10. \E p : ReqInv(p) /\ Moves(req[r], p) /\ Pays(req[r], p) /\ req' = [req EXCEPT ![r] = p]
      BY <1>1, <1>2, <2>2, <2>9, AuthorizedMoves
    <2> QED
      BY <1>2, <2>8, <2>10, StepsOnIf
  <1> QED
    BY <1>5, <1>6

(* Only what was counted within a cache's life and two queries decides.    *)
LEMMA DecideMoves ==
  ASSUME TenancyInv, NEW r \in Requests, NEW q, q = req[r], q.at = "count", NEW used \in Nat,
         used < Allowance => now < since.over[q.tenant] + QuotaTTL + MaxQuery,
         q.got.plan # "free" => now < since.over[q.tenant] + TenantTTL + 2 * MaxQuery,
         Decide(r, used)
  PROVE  \E p : ReqInv(p) /\ Moves(req[r], p) /\ Pays(req[r], p) /\ req' = [req EXCEPT ![r] = p]
  <1> DEFINE left == Refilled(buckets[q.instance][q.token], now)
  <1>1. /\ ReqInv(q) /\ q \in Request /\ q.instance \in Instances /\ q.tenant \in Tenants
        /\ q.token \in Tokens /\ q.answer = "refused"
    BY DEF TenancyInv, ReqInv
  <1>2. PICK n, g : n = Answer(q, "refused") /\ g = OnTo(q, "append")
    OBVIOUS
  <1>3. ReqInv(n) /\ n.at = "done" /\ n.answer = "refused"
    BY <1>1, <1>2, AnswerIs
  <1>4. ReqInv(g) /\ g.at = "append"
    <2>1. "append" \in Steps
      BY DEF Steps, Past
    <2>2. /\ g \in Request /\ g.at = "append" /\ g.waiting = FALSE /\ g.answer = "refused"
          /\ g.tenant = q.tenant /\ g.instance = q.instance /\ g.token = q.token
      BY <1>1, <1>2, <2>1, OnToIs
    <2> QED
      BY <1>1, <2>2 DEF ReqInv
  <1>5. CASE OverQuota(q, used)
    <2>1. req' = [req EXCEPT ![r] = n] /\ buckets' = buckets
      BY <1>2, <1>5 DEF Decide, Now
    <2>2. Moves(req[r], n) /\ Pays(req[r], n)
      BY <1>3, <2>1 DEF Moves, Pays
    <2> QED
      BY <1>3, <2>1, <2>2
  <1>6. CASE ~OverQuota(q, used) /\ left < 1
    <2>1. req' = [req EXCEPT ![r] = n] /\ Leave(q.instance, q.token, left)
      BY <1>2, <1>6 DEF Decide, Now
    <2>2. Moves(req[r], n) /\ Pays(req[r], n)
      BY <1>3, <2>1 DEF Moves, Pays
    <2> QED
      BY <1>3, <2>1, <2>2
  <1>7. CASE ~OverQuota(q, used) /\ ~(left < 1)
    <2>1. req' = [req EXCEPT ![r] = g] /\ Leave(q.instance, q.token, left - 1)
      BY <1>2, <1>7 DEF Decide, Now
    <2>2. since.over[q.tenant] \in Nat /\ now \in Nat
      BY <1>1, TenancyAssumption DEF TenancyInv, TablesInv, Dates, Times, Never
    <2>3. UnderQuota(q)
      BY <1>7, <2>2, TenancyAssumption DEF OverQuota, UnderQuota, Longer
    <2>4. left \in Int
      <3>1. buckets[q.instance][q.token] \in [tokens : 0..Burst, at : Times]
        BY <1>1 DEF TenancyInv, BucketInv
      <3>2. now \in Nat /\ Rate \in Nat /\ Burst \in Nat
        BY TenancyAssumption DEF TenancyInv, TablesInv
      <3> QED
        BY <3>1, <3>2 DEF Refilled, Times
    <2>5. left >= 1
      BY <1>7, <2>4
    <2>6. Moves(req[r], g) /\ Pays(req[r], g)
      BY <1>4, <2>1, <2>3, <2>5 DEF Moves, Pays
    <2> QED
      BY <1>4, <2>1, <2>6
  <1> QED
    BY <1>5, <1>6, <1>7

LEMMA CountHitSteps ==
  ASSUME TenancyInv, NEW r \in Requests, CountHit(r)
  PROVE  StepsOn(r)
  <1>1. PICK q : q = req[r]
    OBVIOUS
  <1> DEFINE c == quotaCache[q.instance][q.tenant]
  <1>2. PICK u, a : u = c.used /\ a = c.at
    OBVIOUS
  <1>3. /\ q.at = "count" /\ ~q.waiting /\ ReqInv(q) /\ Fresh(c, QuotaTTL, now) /\ Decide(r, u)
        /\ UNCHANGED <<now, dbVars, cacheVars, adm, since>>
    BY <1>1, <1>2 DEF CountHit, TenancyInv
  <1>4. q.instance \in Instances /\ q.tenant \in Tenants /\ q.token \in Tokens
    BY <1>3 DEF ReqInv
  <1>5. CountBy(q.tenant, u, a, MaxQuery) /\ u \in Nat /\ a \in Nat /\ now - a < QuotaTTL
    <2>1. CountTrue(c, q.tenant) /\ c # None /\ now - c.at < QuotaTTL
      BY <1>3, <1>4 DEF TenancyInv, CacheInv, Fresh
    <2>2. c \in {None} \cup [at : Nat, used : Nat]
      BY <1>4 DEF TenancyInv, CacheInv, CacheType
    <2> QED
      BY <1>2, <2>1, <2>2 DEF CountTrue
  <1>6. now \in Nat /\ since.over[q.tenant] \in Nat
    BY <1>4, TenancyAssumption DEF TenancyInv, TablesInv, Dates, Times, Never
  <1>7. u < Allowance => now < since.over[q.tenant] + QuotaTTL + MaxQuery
    BY <1>5, <1>6, TenancyAssumption DEF CountBy
  <1>8. q.got.plan # "free" => now < since.over[q.tenant] + TenantTTL + 2 * MaxQuery
    <2>1. q.got.plan # "free" => now < since.over[q.tenant] + TenantTTL + MaxQuery
      BY <1>3 DEF ReqInv, Moment
    <2> QED
      BY <1>6, <2>1, TenancyAssumption
  <1>9. \E p : ReqInv(p) /\ Moves(req[r], p) /\ Pays(req[r], p) /\ req' = [req EXCEPT ![r] = p]
    BY <1>1, <1>3, <1>5, <1>7, <1>8, DecideMoves
  <1> QED
    BY <1>3, <1>9, CachesStand, StepsOnIf

LEMMA CountAskSteps ==
  ASSUME TenancyInv, NEW r \in Requests, CountAsk(r)
  PROVE  StepsOn(r)
  <1>1. PICK q : q = req[r]
    OBVIOUS
  <1>2. PICK n : n = leaves[q.tenant]
    OBVIOUS
  <1>3. PICK p : p = [q EXCEPT !.waiting = TRUE, !.asked = now, !.used = n]
    OBVIOUS
  <1>4. /\ q.at = "count" /\ ~q.waiting /\ ReqInv(q)
        /\ UNCHANGED <<now, dbVars, cacheVars, buckets, adm, since>> /\ req' = [req EXCEPT ![r] = p]
    BY <1>1, <1>2, <1>3 DEF CountAsk, TenancyInv
  <1>5. q \in Request /\ now \in Nat /\ now \in Times /\ MaxQuery \in Nat /\ q.tenant \in Tenants
    BY <1>4, TenancyAssumption DEF ReqInv, TenancyInv, TablesInv, Times
  <1>6. n \in Nat /\ (n < Allowance => since.over[q.tenant] = Never) /\ Never \in Nat /\ now < Never
    BY <1>2, <1>5, TenancyAssumption DEF TenancyInv, TablesInv, Never
  <1>7. /\ p \in Request /\ p.waiting = TRUE /\ p.asked = now /\ p.used = n /\ p.at = "count" /\ p.got = q.got
        /\ p.tenant = q.tenant /\ p.instance = q.instance /\ p.token = q.token /\ p.answer = q.answer
    BY <1>3, <1>4, <1>5, <1>6 DEF Request
  <1>8. CountBy(p.tenant, p.used, p.asked, 0)
    BY <1>5, <1>6, <1>7 DEF CountBy
  <1>9. Moment(p) = Moment(q)
    BY <1>4, <1>7 DEF Moment
  <1>10. ReqInv(p)
    BY <1>4, <1>5, <1>7, <1>8, <1>9 DEF ReqInv
  <1>11. Moves(req[r], p) /\ Pays(req[r], p)
    BY <1>1, <1>4, <1>7 DEF Moves, Pays
  <1> QED
    BY <1>4, <1>10, <1>11, CachesStand, StepsOnIf

(* A count enters the cache, and grows there.                              *)
LEMMA Counts ==
  ASSUME TenancyInv, NEW i \in Instances, NEW t \in Tenants, NEW e \in [at : Nat, used : Nat], CountTrue(e, t),
         quotaCache' = [quotaCache EXCEPT ![i][t] = e],
         UNCHANGED <<now, dbVars, tokenCache, tenantCache, since>>
  PROVE  CacheInv'
  <1>1. KeepsFacts
    BY Standing DEF TenancyInv
  <1>2. CacheType' /\ tenantCache' = tenantCache /\ tokenCache' = tokenCache
    BY DEF TenancyInv, CacheInv, CacheType
  <1>3. ASSUME NEW j \in Instances, NEW u \in Tenants
        PROVE  /\ RowTrue(tenantCache[j][u], u)' /\ CountTrue(quotaCache[j][u], u)'
               /\ \A k \in Tokens : TokenTrue(tokenCache[j][u][k], u, k)'
    <2>1. PICK x, y : x = quotaCache'[j][u] /\ y = tenantCache[j][u]
      OBVIOUS
    <2>2. (x = e /\ j = i /\ u = t) \/ x = quotaCache[j][u]
      BY <2>1 DEF TenancyInv, CacheInv, CacheType
    <2>3. CountTrue(x, u) /\ RowTrue(y, u)
      BY <2>1, <2>2 DEF TenancyInv, CacheInv
    <2>4. CountTrue(x, u)' /\ RowTrue(y, u)'
      BY <1>1, <2>3, EntryKept
    <2>5. ASSUME NEW k \in Tokens PROVE TokenTrue(tokenCache[j][u][k], u, k)'
      <3>1. PICK z : z = tokenCache[j][u][k]
        OBVIOUS
      <3>2. TokenTrue(z, u, k)
        BY <3>1 DEF TenancyInv, CacheInv
      <3>3. TokenTrue(z, u, k)'
        BY <1>1, <3>2, EntryKept
      <3> QED
        BY <1>2, <3>1, <3>3 DEF TokenTrue
    <2> QED
      BY <1>2, <2>1, <2>4, <2>5 DEF RowTrue, CountTrue
  <1> QED
    BY <1>2, <1>3 DEF CacheInv

LEMMA CountToldSteps ==
  ASSUME TenancyInv, NEW r \in Requests, CountTold(r)
  PROVE  StepsOn(r)
  <1>1. PICK q : q = req[r]
    OBVIOUS
  <1>2. PICK e : e = [at |-> now, used |-> q.used]
    OBVIOUS
  <1>3. /\ q.at = "count" /\ q.waiting /\ ReqInv(q) /\ Decide(r, q.used)
        /\ quotaCache' = [quotaCache EXCEPT ![q.instance][q.tenant] = e]
        /\ UNCHANGED <<now, dbVars, tenantCache, tokenCache, adm, since>>
    BY <1>1, <1>2 DEF CountTold, TenancyInv
  <1>4. /\ q.instance \in Instances /\ q.tenant \in Tenants /\ q.token \in Tokens
        /\ q.asked \in Nat /\ q.used \in Nat /\ now <= q.asked + MaxQuery /\ q.asked <= now
        /\ CountBy(q.tenant, q.used, q.asked, 0)
    BY <1>3 DEF ReqInv, Request
  <1>5. now \in Nat /\ since.over[q.tenant] \in Nat
    BY <1>4, TenancyAssumption DEF TenancyInv, TablesInv, Dates, Times, Never
  <1>6. e \in [at : Nat, used : Nat] /\ CountTrue(e, q.tenant)
    BY <1>2, <1>4, <1>5, TenancyAssumption DEF CountTrue, CountBy, Times
  <1>7. CacheInv'
    BY <1>3, <1>4, <1>6, Counts
  <1>8. q.used < Allowance => now < since.over[q.tenant] + QuotaTTL + MaxQuery
    BY <1>4, <1>5, TenancyAssumption DEF CountBy
  <1>9. q.got.plan # "free" => now < since.over[q.tenant] + TenantTTL + 2 * MaxQuery
    <2>1. q.got.plan # "free" => q.asked < since.over[q.tenant] + TenantTTL + MaxQuery
      BY <1>3 DEF ReqInv, Moment
    <2> QED
      BY <1>4, <1>5, <2>1, TenancyAssumption
  <1>10. \E p : ReqInv(p) /\ Moves(req[r], p) /\ Pays(req[r], p) /\ req' = [req EXCEPT ![r] = p]
    BY <1>1, <1>3, <1>4, <1>8, <1>9, DecideMoves
  <1> QED
    BY <1>3, <1>7, <1>10, StepsOnIf

LEMMA AppendSteps ==
  ASSUME TenancyInv, NEW r \in Requests, Append(r)
  PROVE  StepsOn(r)
  <1>1. PICK q : q = req[r]
    OBVIOUS
  <1>2. PICK p : p = [q EXCEPT !.at = "note", !.waiting = TRUE, !.asked = now]
    OBVIOUS
  <1>3. /\ q.at = "append" /\ ReqInv(q) /\ leaves[q.tenant] < MaxLeaves
        /\ leaves' = [leaves EXCEPT ![q.tenant] = @ + 1]
        /\ since' = [since EXCEPT !.over = Over(q.tenant, row, leaves')]
        /\ UNCHANGED <<now, row, tokens, audit, cacheVars, buckets, adm>> /\ req' = [req EXCEPT ![r] = p]
    BY <1>1, <1>2 DEF Append, TenancyInv
  <1>4. q \in Request /\ now \in Nat /\ MaxQuery \in Nat /\ q.tenant \in Tenants
    BY <1>3, TenancyAssumption DEF ReqInv, TenancyInv, TablesInv
  <1>5. KeepsFacts
    BY <1>3, <1>4, LeafAdded DEF TenancyInv
  <1>6. /\ p \in Request /\ p.waiting = TRUE /\ p.asked = now /\ p.at = "note" /\ p.answer = q.answer
        /\ p.tenant = q.tenant /\ p.instance = q.instance /\ p.token = q.token
    BY <1>2, <1>4 DEF Request, Steps, Past
  <1>7. ReqInv(p)
    BY <1>3, <1>4, <1>6 DEF ReqInv
  <1>8. ReqInv(p)'
    BY <1>3, <1>5, <1>7, RequestKept DEF TenancyInv
  <1>9. CacheInv'
    BY <1>3, <1>5, CachesAlone DEF TenancyInv
  <1>10. Moves(req[r], p) /\ Pays(req[r], p)
    BY <1>1, <1>3, <1>6 DEF Moves, Pays
  <1> QED
    BY <1>3, <1>5, <1>8, <1>9, <1>10 DEF StepsOn

LEMMA NoteSteps ==
  ASSUME TenancyInv, NEW r \in Requests, Note(r)
  PROVE  StepsOn(r)
  <1>1. PICK q : q = req[r]
    OBVIOUS
  <1> DEFINE c == quotaCache[q.instance][q.tenant]
  <1>2. PICK p : p = Answer(q, "served")
    OBVIOUS
  <1>3. /\ q.at = "note" /\ ReqInv(q) /\ UNCHANGED <<now, dbVars, tenantCache, tokenCache, buckets, adm, since>>
        /\ req' = [req EXCEPT ![r] = p]
        /\ quotaCache' = IF c = None THEN quotaCache
                         ELSE [quotaCache EXCEPT ![q.instance][q.tenant].used = @ + 1]
    BY <1>1, <1>2 DEF Note, Now, TenancyInv
  <1>4. q \in Request /\ q.instance \in Instances /\ q.tenant \in Tenants
    BY <1>3 DEF ReqInv
  <1>5. ReqInv(p) /\ p.at = "done" /\ p.answer = "served"
    BY <1>2, <1>4, AnswerIs
  <1>6. Moves(req[r], p) /\ Pays(req[r], p)
    BY <1>1, <1>3, <1>5 DEF Moves, Pays
  <1>7. CASE c = None
    <2>1. CacheInv'
      BY <1>3, <1>7, CachesStand DEF cacheVars
    <2> QED
      BY <1>3, <1>5, <1>6, <2>1, StepsOnIf
  <1>8. CASE c # None
    <2>1. PICK e : e = [c EXCEPT !.used = @ + 1]
      OBVIOUS
    <2>2. c \in [at : Nat, used : Nat] /\ CountTrue(c, q.tenant)
      BY <1>4, <1>8 DEF TenancyInv, CacheInv, CacheType
    <2>3. e \in [at : Nat, used : Nat] /\ e.at = c.at /\ e.used = c.used + 1
      BY <2>1, <2>2
    <2>4. CountTrue(e, q.tenant)
      BY <1>8, <2>2, <2>3, TenancyAssumption DEF CountTrue, CountBy
    <2>5. quotaCache' = [quotaCache EXCEPT ![q.instance][q.tenant] = e]
      BY <1>3, <1>8, <2>1
    <2>6. CacheInv'
      BY <1>3, <1>4, <2>3, <2>4, <2>5, Counts
    <2> QED
      BY <1>3, <1>5, <1>6, <2>6, StepsOnIf
  <1> QED
    BY <1>7, <1>8

LEMMA UnavailableSteps ==
  ASSUME TenancyInv, NEW r \in Requests, Unavailable(r)
  PROVE  StepsOn(r)
  <1>1. PICK q : q = req[r]
    OBVIOUS
  <1>2. PICK p : p = Answer(q, "refused")
    OBVIOUS
  <1>3. /\ ReqInv(q) /\ UNCHANGED <<now, dbVars, cacheVars, buckets, adm, since>>
        /\ req' = [req EXCEPT ![r] = p]
    BY <1>1, <1>2 DEF Unavailable, Now, TenancyInv
  <1>4. ReqInv(p) /\ p.at = "done" /\ p.answer = "refused"
    <2>1. q \in Request
      BY <1>3 DEF ReqInv
    <2> QED
      BY <1>2, <2>1, AnswerIs
  <1>5. Moves(req[r], p) /\ Pays(req[r], p)
    BY <1>1, <1>3, <1>4 DEF Moves, Pays, FreshAnswer
  <1> QED
    BY <1>3, <1>4, <1>5, CachesStand, StepsOnIf

------------------------------------------------------------------------------
(* The steps of an operation, one by one.                                  *)

Operates(a) ==
    /\ KeepsFacts /\ CacheInv' /\ now' = now /\ req' = req /\ buckets' = buckets
    /\ \E o : AdmInv(o)' /\ adm' = [adm EXCEPT ![a] = o]

LEMMA OperatesIf ==
  ASSUME TenancyInv, NEW a \in Admins, KeepsFacts, UNCHANGED <<now, req, buckets>>, CacheInv',
         NEW o, AdmInv(o), adm' = [adm EXCEPT ![a] = o]
  PROVE  Operates(a)
  BY OperationKept DEF Operates, TenancyInv

LEMMA OrderedIs ==
  ASSUME NEW kind \in Kinds \cup {"addToken"}, NEW i \in Instances, NEW t \in Tenants, NEW k \in Tokens
  PROVE  /\ Ordered(kind, i, t, k) \in Operation /\ Ordered(kind, i, t, k).instance = i
         /\ Ordered(kind, i, t, k).tenant = t /\ Ordered(kind, i, t, k).token = k
  BY UnstartedIs DEF Ordered, Operation

(* An operation that has failed, or is about to mint, knows nothing.       *)
LEMMA FailedIs ==
  ASSUME NEW o, o = [Unstarted EXCEPT !.at = "failed"]
  PROVE  AdmInv(o)
  <1>1. o \in Operation /\ o.at = "failed"
    BY UnstartedIs DEF Operation
  <1> QED
    BY <1>1 DEF AdmInv

LEMMA EndedIs ==
  ASSUME TenancyInv, NEW a \in Admins, NEW at \in {"answered", "failed"}, NEW o, o = Ended(a, at)
  PROVE  AdmInv(o)
  <1>1. adm[a].kind \in Kinds \cup {"addToken"}
    BY DEF TenancyInv, Operation
  <1>2. o \in Operation /\ o.at = at
    BY <1>1, UnstartedIs DEF Ended, Operation
  <1> QED
    BY <1>2 DEF AdmInv

LEMMA CheckedIs ==
  ASSUME NEW a \in Admins, NEW o \in Operation, NEW exists \in BOOLEAN, Checked(a, o, exists),
         o.instance \in Instances /\ o.tenant \in Tenants /\ o.token \in Tokens
  PROVE  \E p : AdmInv(p) /\ adm' = [adm EXCEPT ![a] = p]
  <1>1. CASE exists
    <2>1. PICK p : p = [o EXCEPT !.at = "mint"]
      OBVIOUS
    <2>2. /\ p \in Operation /\ p.at = "mint" /\ p.instance = o.instance /\ p.tenant = o.tenant
          /\ p.token = o.token
      BY <2>1 DEF Operation
    <2>3. AdmInv(p)
      BY <2>2 DEF AdmInv
    <2> QED
      BY <1>1, <2>1, <2>3 DEF Checked
  <1>2. CASE ~exists
    <2>1. PICK p : p = [Unstarted EXCEPT !.at = "failed"]
      OBVIOUS
    <2> QED
      BY <1>2, <2>1, FailedIs DEF Checked
  <1> QED
    BY <1>1, <1>2

LEMMA CheckAskOperates ==
  ASSUME TenancyInv, NEW a \in Admins, NEW i \in Instances, NEW t \in Tenants, NEW k \in Tokens,
         CheckAsk(a, i, t, k)
  PROVE  Operates(a)
  <1> DEFINE c == tenantCache[i][t]
  <1>1. PICK o, e : o = Ordered("addToken", i, t, k) /\ e = c.row.exists
    OBVIOUS
  <1>2. o \in Operation /\ o.instance = i /\ o.tenant = t /\ o.token = k
    BY <1>1, OrderedIs
  <1>3. UNCHANGED <<now, dbVars, cacheVars, buckets, req, since>>
    BY DEF CheckAsk
  <1>4. CASE Fresh(c, TenantTTL, now)
    <2>1. c \in [at : Nat, row : Rows]
      BY <1>4 DEF TenancyInv, CacheInv, CacheType, Fresh
    <2>2. e \in BOOLEAN
      BY <1>1, <2>1 DEF Rows
    <2>3. Checked(a, o, e)
      BY <1>1, <1>4 DEF CheckAsk
    <2>4. \E p : AdmInv(p) /\ adm' = [adm EXCEPT ![a] = p]
      BY <1>2, <2>2, <2>3, CheckedIs
    <2> QED
      BY <1>3, <2>4, CachesStand, Standing, OperatesIf DEF TenancyInv
  <1>5. CASE ~Fresh(c, TenantTTL, now)
    <2>1. PICK p : p = [o EXCEPT !.at = "check", !.asked = now, !.got = row[t]]
      OBVIOUS
    <2>2. adm' = [adm EXCEPT ![a] = p]
      BY <1>1, <1>5, <2>1 DEF CheckAsk
    <2>3. row[t] \in Rows /\ now \in Nat /\ MaxQuery \in Nat /\ Never \in Nat /\ now < Never
      BY TenancyAssumption DEF TenancyInv, TablesInv, Never
    <2>4. /\ p \in Operation /\ p.at = "check" /\ p.asked = now /\ p.got = row[t] /\ p.tenant = t
          /\ p.instance = i /\ p.token = k
      BY <1>2, <2>1, <2>3 DEF Operation
    <2>5. row[t].plan # "free" => since.over[t] = Never
      BY DEF TenancyInv, TablesInv
    <2>6. AdmInv(p)
      BY <2>3, <2>4, <2>5 DEF AdmInv, RowBy, Times
    <2> QED
      BY <1>3, <2>2, <2>6, CachesStand, Standing, OperatesIf DEF TenancyInv
  <1> QED
    BY <1>4, <1>5

LEMMA CheckToldOperates ==
  ASSUME TenancyInv, NEW a \in Admins, CheckTold(a)
  PROVE  Operates(a)
  <1>1. PICK q : q = adm[a]
    OBVIOUS
  <1>2. PICK o, e : o = [q EXCEPT !.got = Absent] /\ e = q.got.exists
    OBVIOUS
  <1>3. /\ q.at = "check" /\ AdmInv(q) /\ Remember(q.instance, q.tenant, q.got) /\ Checked(a, o, e)
        /\ UNCHANGED <<now, dbVars, tokenCache, quotaCache, buckets, req, since>>
    BY <1>1, <1>2 DEF CheckTold, TenancyInv
  <1>4. /\ q \in Operation /\ q.instance \in Instances /\ q.tenant \in Tenants /\ q.token \in Tokens
        /\ q.asked \in Nat /\ q.got \in Rows /\ RowBy(q.got, q.tenant, q.asked, 0) /\ now <= q.asked + MaxQuery
    BY <1>3 DEF AdmInv, Operation
  <1>5. CacheInv'
    BY <1>3, <1>4, Remembers
  <1>6. /\ o \in Operation /\ o.instance = q.instance /\ o.tenant = q.tenant /\ o.token = q.token
        /\ e \in BOOLEAN
    BY <1>2, <1>4 DEF Operation, Rows, Absent
  <1>7. \E p : AdmInv(p) /\ adm' = [adm EXCEPT ![a] = p]
    BY <1>3, <1>4, <1>6, CheckedIs
  <1> QED
    BY <1>3, <1>5, <1>7, Standing, OperatesIf DEF TenancyInv

LEMMA StatedIs ==
  ASSUME TenancyInv, NEW a \in Admins, NEW kind \in Kinds \cup {"addToken"},
         NEW i \in Instances, NEW t \in Tenants, NEW k \in Tokens, Stated(a, kind, i, t, k)
  PROVE  \E p : AdmInv(p) /\ adm' = [adm EXCEPT ![a] = p]
  <1>1. PICK o, h : o = Ordered(kind, i, t, k) /\ h = LiveToken(t, k)
    OBVIOUS
  <1>2. o \in Operation /\ o.instance = i /\ o.tenant = t /\ o.token = k /\ h \in BOOLEAN
    BY <1>1, OrderedIs DEF LiveToken
  <1>3. PICK p, f : p = [o EXCEPT !.at = "applied", !.asked = now, !.hit = h]
                    /\ f = [Unstarted EXCEPT !.at = "failed"]
    OBVIOUS
  <1>4. adm' = [adm EXCEPT ![a] = p] \/ adm' = [adm EXCEPT ![a] = f]
    BY <1>1, <1>3 DEF Stated
  <1>5. now \in Nat
    BY DEF TenancyInv, TablesInv
  <1>6. p \in Operation /\ p.at = "applied" /\ p.instance = i /\ p.tenant = t /\ p.token = k
    BY <1>2, <1>3, <1>5 DEF Operation
  <1>7. AdmInv(p)
    BY <1>6 DEF AdmInv
  <1>8. AdmInv(f)
    BY <1>3, FailedIs
  <1> QED
    BY <1>4, <1>7, <1>8

LEMMA ChangeOperates ==
  ASSUME TenancyInv, NEW a \in Admins, NEW kind \in Kinds,
         NEW i \in Instances, NEW t \in Tenants, NEW k \in Tokens, Change(a, kind, i, t, k)
  PROVE  Operates(a)
  <1>1. UNCHANGED <<now, leaves, audit, cacheVars, buckets, req>> /\ Stated(a, kind, i, t, k)
    BY DEF Change
  <1>2. TablesInv /\ row[t] \in Rows
    BY DEF TenancyInv, TablesInv
  <1>3. KeepsFacts
    <2>1. CASE kind = "revoke"
      <3>1. CASE LiveToken(t, k)
        BY <1>1, <1>2, <2>1, <3>1, TokenRevoked DEF Change
      <3>2. CASE ~LiveToken(t, k)
        BY <1>1, <1>2, <2>1, <3>2, Standing DEF Change, dbVars
      <3> QED
        BY <3>1, <3>2
    <2>2. CASE kind # "revoke"
      <3>1. PICK v : SetRow(t, v) /\ v \in Rows
        <4>1. /\ [row[t] EXCEPT !.exists = TRUE] \in Rows /\ [row[t] EXCEPT !.disabled = TRUE] \in Rows
              /\ [row[t] EXCEPT !.plan = OtherPlan(@)] \in Rows
          BY <1>2 DEF Rows, OtherPlan
        <4>2. CASE kind = "addTenant" /\ SetRow(t, [row[t] EXCEPT !.exists = TRUE])
          BY <4>1, <4>2
        <4>3. CASE SetRow(t, IF row[t].exists THEN [row[t] EXCEPT !.disabled = TRUE] ELSE row[t])
          BY <1>2, <4>1, <4>3
        <4>4. CASE SetRow(t, IF row[t].exists THEN [row[t] EXCEPT !.plan = OtherPlan(@)] ELSE row[t])
          BY <1>2, <4>1, <4>4
        <4> QED
          BY <2>2, <4>2, <4>3, <4>4 DEF Change
      <3> QED
        BY <1>1, <1>2, <3>1, RowSet
    <2> QED
      BY <2>1, <2>2
  <1>4. CacheInv'
    BY <1>1, <1>3, CachesAlone DEF TenancyInv
  <1>5. \E p : AdmInv(p) /\ adm' = [adm EXCEPT ![a] = p]
    BY <1>1, StatedIs
  <1> QED
    BY <1>1, <1>3, <1>4, <1>5, OperatesIf

LEMMA MintOperates ==
  ASSUME TenancyInv, NEW a \in Admins, Mint(a)
  PROVE  Operates(a)
  <1>1. PICK q, t, k, i : q = adm[a] /\ t = q.tenant /\ k = q.token /\ i = q.instance
    OBVIOUS
  <1>2. /\ q.at = "mint" /\ AdmInv(q) /\ tokens[k] = None
        /\ tokens' = [tokens EXCEPT ![k] = [tenant |-> t, revoked |-> FALSE]]
        /\ Stated(a, "addToken", i, t, k)
        /\ UNCHANGED <<now, row, leaves, audit, cacheVars, buckets, req, since>>
    BY <1>1 DEF Mint, TenancyInv
  <1>3. i \in Instances /\ t \in Tenants /\ k \in Tokens
    BY <1>1, <1>2 DEF AdmInv
  <1>4. KeepsFacts
    BY <1>2, <1>3, TokenMinted DEF TenancyInv
  <1>5. CacheInv'
    BY <1>2, <1>4, CachesAlone DEF TenancyInv
  <1>6. \E p : AdmInv(p) /\ adm' = [adm EXCEPT ![a] = p]
    BY <1>2, <1>3, StatedIs
  <1> QED
    BY <1>2, <1>4, <1>5, <1>6, OperatesIf

LEMMA SettleOperates ==
  ASSUME TenancyInv, NEW a \in Admins, Settle(a)
  PROVE  Operates(a)
  <1>1. PICK q, t, k, i : q = adm[a] /\ t = q.tenant /\ k = q.token /\ i = q.instance
    OBVIOUS
  <1>2. PICK p : p = [q EXCEPT !.at = "record", !.asked = now]
    OBVIOUS
  <1>3. /\ q.at = "applied" /\ AdmInv(q) /\ adm' = [adm EXCEPT ![a] = p]
        /\ UNCHANGED <<now, dbVars, quotaCache, buckets, req, since>>
        /\ \/ tenantCache' = [tenantCache EXCEPT ![i][t] = None] /\ tokenCache' = tokenCache
           \/ tenantCache' = tenantCache /\ tokenCache' = [tokenCache EXCEPT ![i][t][k] = None]
           \/ tenantCache' = tenantCache /\ tokenCache' = tokenCache
    BY <1>1, <1>2 DEF Settle, TenancyInv, Forget
  <1>4. q \in Operation /\ i \in Instances /\ t \in Tenants /\ k \in Tokens /\ now \in Nat
    BY <1>1, <1>3 DEF AdmInv, TenancyInv, TablesInv
  <1>5. p \in Operation /\ p.at = "record"
    BY <1>2, <1>4 DEF Operation
  <1>6. AdmInv(p)
    BY <1>5 DEF AdmInv
  <1>7. KeepsFacts
    BY <1>3, Standing DEF TenancyInv
  <1>8. /\ CacheType'
        /\ \A j \in Instances, u \in Tenants :
              /\ tenantCache'[j][u] \in {tenantCache[j][u], None}
              /\ quotaCache'[j][u] \in {quotaCache[j][u], None}
              /\ \A m \in Tokens : tokenCache'[j][u][m] \in {tokenCache[j][u][m], None}
    <2>1. CacheType
      BY DEF TenancyInv, CacheInv
    <2>2. CASE tenantCache' = [tenantCache EXCEPT ![i][t] = None] /\ tokenCache' = tokenCache
      BY <1>3, <1>4, <2>1, <2>2 DEF CacheType
    <2>3. CASE tenantCache' = tenantCache /\ tokenCache' = [tokenCache EXCEPT ![i][t][k] = None]
      <3>1. /\ tokenCache' \in [Instances -> [Tenants -> [Tokens -> {None} \cup [at : Nat]]]]
            /\ \A j \in Instances, u \in Tenants, m \in Tokens :
                  tokenCache'[j][u][m] \in {tokenCache[j][u][m], None}
        BY <1>4, <2>1, <2>3 DEF CacheType
      <3> QED
        BY <1>3, <2>1, <2>3, <3>1 DEF CacheType
    <2>4. CASE tenantCache' = tenantCache /\ tokenCache' = tokenCache
      BY <1>3, <2>1, <2>4 DEF CacheType
    <2> QED
      BY <1>3, <2>2, <2>3, <2>4
  <1>10. CacheInv'
    BY <1>7, <1>8, CachesKept DEF TenancyInv
  <1> QED
    BY <1>3, <1>6, <1>7, <1>10, OperatesIf

LEMMA RecordOperates ==
  ASSUME TenancyInv, NEW a \in Admins, Record(a)
  PROVE  Operates(a)
  <1>1. PICK p : p = Ended(a, "answered")
    OBVIOUS
  <1>2. /\ audit' = audit \cup {a} /\ adm' = [adm EXCEPT ![a] = p]
        /\ UNCHANGED <<now, row, tokens, leaves, cacheVars, buckets, req, since>>
    BY <1>1 DEF Record
  <1>3. AdmInv(p)
    BY <1>1, EndedIs
  <1>4. KeepsFacts
    BY <1>2 DEF TenancyInv, TablesInv, KeepsFacts, Facts, RowBy, TokenBy, CountBy, Times, Dates, Served
  <1>5. CacheInv'
    BY <1>2, <1>4, CachesAlone DEF TenancyInv
  <1> QED
    BY <1>2, <1>3, <1>4, <1>5, OperatesIf

LEMMA AbandonOperates ==
  ASSUME TenancyInv, NEW a \in Admins, Abandon(a)
  PROVE  Operates(a)
  <1>1. PICK p : p = Ended(a, "failed")
    OBVIOUS
  <1>2. adm' = [adm EXCEPT ![a] = p] /\ UNCHANGED <<now, dbVars, cacheVars, buckets, req, since>>
    BY <1>1 DEF Abandon
  <1>3. AdmInv(p)
    BY <1>1, EndedIs
  <1> QED
    BY <1>2, <1>3, CachesStand, Standing, OperatesIf DEF TenancyInv

------------------------------------------------------------------------------
(* Time passes.                                                            *)

LEMMA KeptIs ==
  ASSUME NEW e, NEW ttl, NEW n
  PROVE  Kept(e, ttl, n) \in {e, None}
  BY DEF Kept

LEMMA TickKeeps ==
  ASSUME TenancyInv, Tick
  PROVE  TenancyInv'
  <1>1. /\ now < MaxTime /\ now' = now + 1 /\ UNCHANGED <<dbVars, req, adm, since>>
        /\ \A r \in Requests : req[r].at \in {"done", "append"} \/ (req[r].waiting /\ now < req[r].asked + MaxQuery)
        /\ \A a \in Admins : adm[a].at = "check" => now < adm[a].asked + MaxQuery
    <2>1. now < MaxTime /\ now' = now + 1 /\ UNCHANGED <<dbVars, req, adm, since>>
      <3>1. now < MaxTime /\ now' = now + 1
        BY DEF Tick
      <3> QED
        BY <3>1, Zenon DEF Tick
    <2>2. \A r \in Requests : req[r].at \in {"done", "append"} \/ (req[r].waiting /\ now < req[r].asked + MaxQuery)
      BY DEF Tick
    <2>3. \A a \in Admins : \/ adm[a].at \in {"new", "mint", "answered", "failed"}
                            \/ now < adm[a].asked + MaxQuery
      BY DEF Tick
    <2> QED
      BY <2>1, <2>2, <2>3
  <1>2. KeepsFacts /\ TablesInv'
    BY <1>1, Passing DEF TenancyInv, KeepsFacts
  <1>3. now \in Nat /\ MaxQuery \in Nat
    BY TenancyAssumption DEF TenancyInv, TablesInv
  <1>4. CacheInv'
    <2>1. /\ tenantCache' \in [Instances -> [Tenants -> {None} \cup [at : Nat, row : Rows]]]
          /\ \A i \in Instances, t \in Tenants : tenantCache'[i][t] \in {tenantCache[i][t], None}
      <3>1. tenantCache' = [i \in Instances |-> [t \in Tenants |-> Kept(tenantCache[i][t], TenantTTL, now)]]
        BY DEF Tick
      <3> QED
        BY <3>1, KeptIs DEF TenancyInv, CacheInv, CacheType
    <2>2. /\ quotaCache' \in [Instances -> [Tenants -> {None} \cup [at : Nat, used : Nat]]]
          /\ \A i \in Instances, t \in Tenants : quotaCache'[i][t] \in {quotaCache[i][t], None}
      <3>1. quotaCache' = [i \in Instances |-> [t \in Tenants |-> Kept(quotaCache[i][t], QuotaTTL, now)]]
        BY DEF Tick
      <3> QED
        BY <3>1, KeptIs DEF TenancyInv, CacheInv, CacheType
    <2>3. /\ tokenCache' \in [Instances -> [Tenants -> [Tokens -> {None} \cup [at : Nat]]]]
          /\ \A i \in Instances, t \in Tenants, k \in Tokens :
                tokenCache'[i][t][k] \in {tokenCache[i][t][k], None}
      <3>1. tokenCache' = [i \in Instances |-> [t \in Tenants |-> [k \in Tokens |->
                              Kept(tokenCache[i][t][k], TokenTTL, now)]]]
        BY DEF Tick
      <3> QED
        BY <3>1, KeptIs DEF TenancyInv, CacheInv, CacheType
    <2> QED
      BY <1>2, <2>1, <2>2, <2>3, CachesKept DEF TenancyInv, CacheType
  <1>5. BucketInv'
    <2> DEFINE f == [i \in Instances |-> [k \in Tokens |->
                     IF Refilled(buckets[i][k], now + 1) = Burst THEN [tokens |-> Burst, at |-> now + 1]
                     ELSE buckets[i][k]]]
    <2>1. buckets' = f
      BY DEF Tick
    <2>2. ASSUME NEW i \in Instances, NEW k \in Tokens
          PROVE  f[i][k] \in [tokens : 0..Burst, at : 0..(now + 1)]
      <3>1. buckets[i][k] \in [tokens : 0..Burst, at : 0..(now + 1)]
        <4>1. buckets[i][k] \in [tokens : 0..Burst, at : 0..now]
          BY DEF TenancyInv, BucketInv, Times
        <4>2. 0..now \subseteq 0..(now + 1)
          BY <1>3
        <4> QED
          BY <4>1, <4>2
      <3> QED
        BY <1>3, <3>1, TenancyAssumption
    <2>3. f \in [Instances -> [Tokens -> [tokens : 0..Burst, at : 0..(now + 1)]]]
      BY <2>2
    <2> QED
      BY <1>1, <2>1, <2>3 DEF BucketInv, Times
  <1>6. ASSUME NEW r \in Requests PROVE ReqInv(req[r])'
    <2>1. PICK q : q = req[r]
      OBVIOUS
    <2>2. ReqInv(q) /\ (q.at \in {"done", "append"} \/ (q.waiting /\ now < q.asked + MaxQuery))
      BY <1>1, <2>1 DEF TenancyInv
    <2>3. q \in Request /\ q.asked \in Nat /\ q.got \in Rows /\ q.used \in Nat
      BY <2>2 DEF ReqInv, Request
    <2>4. q.waiting => /\ q.asked <= now' /\ now' <= q.asked + MaxQuery /\ q.asked \in Times
      BY <1>1, <1>3, <2>2, <2>3 DEF ReqInv, Times
    <2>5. q.at \in {"resolve", "quota"} /\ q.waiting => RowBy(q.got, q.tenant, q.asked, 0)'
      <3> SUFFICES ASSUME q.at \in {"resolve", "quota"}, q.waiting PROVE RowBy(q.got, q.tenant, q.asked, 0)'
        OBVIOUS
      <3>1. RowBy(q.got, q.tenant, q.asked, 0) /\ q.tenant \in Tenants
        BY <2>2 DEF ReqInv
      <3> QED
        BY <1>2, <2>3, <2>4, <3>1 DEF KeepsFacts, Facts
    <2>6. q.at = "authorize" /\ q.waiting /\ q.live => TokenBy(q.tenant, q.token, q.asked, 0)'
      <3> SUFFICES ASSUME q.at = "authorize", q.waiting, q.live PROVE TokenBy(q.tenant, q.token, q.asked, 0)'
        OBVIOUS
      <3>1. TokenBy(q.tenant, q.token, q.asked, 0) /\ q.tenant \in Tenants /\ q.token \in Tokens
        BY <2>2 DEF ReqInv
      <3> QED
        BY <1>2, <2>3, <2>4, <3>1 DEF KeepsFacts, Facts
    <2>7. q.at = "count" /\ q.waiting => CountBy(q.tenant, q.used, q.asked, 0)'
      <3> SUFFICES ASSUME q.at = "count", q.waiting PROVE CountBy(q.tenant, q.used, q.asked, 0)'
        OBVIOUS
      <3>1. CountBy(q.tenant, q.used, q.asked, 0) /\ q.tenant \in Tenants
        BY <2>2 DEF ReqInv
      <3> QED
        BY <1>2, <2>3, <2>4, <3>1 DEF KeepsFacts, Facts
    <2>8. q.at = "count" /\ q.got.plan # "free" => Moment(q)' < since'.over[q.tenant] + TenantTTL + MaxQuery
      BY <1>1, <2>2 DEF ReqInv, Moment
    <2>9. ReqInv(q)'
      BY <2>2, <2>4, <2>5, <2>6, <2>7, <2>8 DEF ReqInv
    <2> QED
      BY <1>1, <2>1, <2>9
  <1>7. ASSUME NEW a \in Admins PROVE AdmInv(adm[a])'
    <2>1. PICK o : o = adm[a]
      OBVIOUS
    <2>2. AdmInv(o) /\ (o.at = "check" => now < o.asked + MaxQuery)
      BY <1>1, <2>1 DEF TenancyInv
    <2>3. o \in Operation /\ o.asked \in Nat /\ o.got \in Rows
      BY <2>2 DEF AdmInv, Operation
    <2>4. o.at = "check" => RowBy(o.got, o.tenant, o.asked, 0)'
      <3> SUFFICES ASSUME o.at = "check" PROVE RowBy(o.got, o.tenant, o.asked, 0)'
        OBVIOUS
      <3>1. RowBy(o.got, o.tenant, o.asked, 0) /\ o.tenant \in Tenants /\ o.asked \in Times
        BY <2>2 DEF AdmInv, RowBy
      <3> QED
        BY <1>2, <2>3, <3>1 DEF KeepsFacts, Facts
    <2>5. AdmInv(o)'
      BY <1>1, <1>3, <2>2, <2>3, <2>4 DEF AdmInv
    <2> QED
      BY <1>1, <2>1, <2>5
  <1> QED
    BY <1>1, <1>2, <1>4, <1>5, <1>6, <1>7 DEF TenancyInv

------------------------------------------------------------------------------
(* The invariant.                                                          *)

LEMMA InitInv == Init => TenancyInv
  <1> SUFFICES ASSUME Init PROVE TenancyInv
    OBVIOUS
  <1>1. now = 0 /\ now \in 0..MaxTime /\ Times = {0} /\ Never \in Dates /\ 0 \in Dates /\ Never # 0
    BY TenancyAssumption DEF Init, Times, Dates, Never
  <1>2. TablesInv
    <2>1. row \in [Tenants -> Rows]
      <3>1. {Absent} \cup [exists : {TRUE}, disabled : {FALSE}, plan : {"free", "enterprise"}] \subseteq Rows
        <4>1. Absent \in Rows
          BY DEF Absent, Rows
        <4>2. ASSUME NEW x \in [exists : {TRUE}, disabled : {FALSE}, plan : {"free", "enterprise"}]
              PROVE  x \in Rows
          <5>1. x.exists \in BOOLEAN /\ x.disabled \in BOOLEAN /\ x.plan \in {"free", "enterprise"}
            OBVIOUS
          <5>2. x = [exists |-> x.exists, disabled |-> x.disabled, plan |-> x.plan]
            OBVIOUS
          <5> QED
            BY <5>1, <5>2 DEF Rows
        <4> QED
          BY <4>1, <4>2
      <3> QED
        BY <3>1 DEF Init
    <2>2. tokens \in [Tokens -> {None} \cup [tenant : Tenants, revoked : BOOLEAN]]
      <3>1. [tenant : {t \in Tenants : row[t].exists}, revoked : {FALSE}]
              \subseteq [tenant : Tenants, revoked : BOOLEAN]
        OBVIOUS
      <3> QED
        BY <3>1 DEF Init
    <2>3. leaves \in [Tenants -> 0..MaxLeaves] /\ audit \subseteq Admins /\ \A t \in Tenants : leaves[t] = 0
      BY TenancyAssumption DEF Init
    <2>4. PICK over : /\ over \in [Tenants -> Dates]
                      /\ \A t \in Tenants : over[t] = IF row[t].plan = "free" /\ Allowance = 0 THEN 0 ELSE Never
                      /\ since = [tenant |-> [t \in Tenants |-> Never], revoked |-> [k \in Tokens |-> Never],
                                  over |-> over]
      <3>1. PICK over : over = [t \in Tenants |-> IF row[t].plan = "free" /\ Allowance = 0 THEN 0 ELSE Never]
        OBVIOUS
      <3> QED
        BY <1>1, <3>1 DEF Init
    <2>5. since \in [tenant : [Tenants -> Dates], revoked : [Tokens -> Dates], over : [Tenants -> Dates]]
      BY <1>1, <2>4
    <2>6. \A t \in Tenants : since.over[t] # Never => row[t].plan = "free" /\ leaves[t] >= Allowance
      BY <2>3, <2>4, TenancyAssumption
    <2> QED
      BY <1>1, <2>1, <2>2, <2>3, <2>5, <2>6 DEF TablesInv
  <1>3. CacheInv
    BY DEF Init, CacheInv, CacheType, RowTrue, CountTrue, TokenTrue
  <1>4. BucketInv
    BY <1>1, TenancyAssumption DEF Init, BucketInv
  <1>5. req \in [Requests -> Request] /\ \A r \in Requests : ReqInv(req[r])
    <2>1. ReqInv(Idle)
      BY IdleIs DEF ReqInv
    <2> QED
      BY <2>1, IdleIs DEF Init
  <1>6. adm \in [Admins -> Operation] /\ \A a \in Admins : AdmInv(adm[a])
    <2>1. AdmInv(Unstarted)
      BY UnstartedIs DEF AdmInv
    <2> QED
      BY <2>1, UnstartedIs DEF Init
  <1> QED
    BY <1>2, <1>3, <1>4, <1>5, <1>6 DEF TenancyInv

------------------------------------------------------------------------------
(* Every step.                                                             *)

(* A bucket, refilled, holds between nothing and the burst.                *)
LEMMA RefilledIs ==
  ASSUME NEW n \in Nat, NEW b, b.tokens \in 0..Burst, b.at \in 0..n
  PROVE  Refilled(b, n) \in 0..Burst
  <1>1. n - b.at \in Nat /\ Rate \in Nat /\ Burst \in Nat
    BY TenancyAssumption
  <1>2. PICK x : x = (n - b.at) * Rate
    OBVIOUS
  <1>3. x \in Nat
    BY <1>1, <1>2
  <1> QED
    BY <1>1, <1>2, <1>3 DEF Refilled

LEMMA StepsOnKeeps ==
  ASSUME TenancyInv, NEW r \in Requests, StepsOn(r)
  PROVE  TenancyInv'
  <1>1. PICK p : ReqInv(p)' /\ Moves(req[r], p) /\ Pays(req[r], p) /\ req' = [req EXCEPT ![r] = p]
    BY DEF StepsOn
  <1>2. KeepsFacts /\ CacheInv' /\ now' = now /\ adm' = adm /\ TablesInv'
    BY DEF StepsOn, KeepsFacts
  <1>3. req' \in [Requests -> Request]
    BY <1>1 DEF TenancyInv, ReqInv
  <1>4. ASSUME NEW x \in Requests PROVE ReqInv(req[x])'
    <2>1. CASE x = r
      <3>1. req'[x] = p
        BY <1>1, <2>1 DEF TenancyInv
      <3> QED
        BY <1>1, <3>1
    <2>2. CASE x # r
      <3>1. PICK q : q = req[x]
        OBVIOUS
      <3>2. ReqInv(q)'
        BY <1>2, <3>1, RequestKept DEF TenancyInv
      <3>3. req'[x] = q
        BY <1>1, <2>2, <3>1 DEF TenancyInv
      <3> QED
        BY <3>2, <3>3
    <2> QED
      BY <2>1, <2>2
  <1>5. ASSUME NEW a \in Admins PROVE AdmInv(adm[a])'
    <2>1. PICK o : o = adm[a]
      OBVIOUS
    <2>2. AdmInv(o)'
      BY <1>2, <2>1, OperationKept DEF TenancyInv
    <2> QED
      BY <1>2, <2>1, <2>2
  <1>6. BucketInv'
    <2>1. PICK q : q = req[r]
      OBVIOUS
    <2> DEFINE left == Refilled(buckets[q.instance][q.token], now)
    <2>2. CASE buckets' = buckets
      BY <1>2, <2>2 DEF TenancyInv, BucketInv, Times
    <2>3. CASE q.at = "count" /\ \E n \in {left, left - 1} : Leave(q.instance, q.token, n) /\ n >= 0
      <3>1. q.instance \in Instances /\ q.token \in Tokens /\ now \in Nat
        BY <2>1, <2>3 DEF TenancyInv, ReqInv, TablesInv
      <3>2. buckets[q.instance][q.token] \in [tokens : 0..Burst, at : 0..now]
        BY <3>1 DEF TenancyInv, BucketInv, Times
      <3>3. left \in 0..Burst
        BY <3>1, <3>2, RefilledIs
      <3>4. PICK n \in 0..Burst : Leave(q.instance, q.token, n)
        BY <2>3, <3>3, TenancyAssumption
      <3>5. PICK e : e = [tokens |-> n, at |-> now]
        OBVIOUS
      <3>6. e \in [tokens : 0..Burst, at : Times] /\ Times' = Times
        BY <1>2, <3>1, <3>4, <3>5 DEF Times
      <3>7. buckets' = [buckets EXCEPT ![q.instance][q.token] = e]
        BY <3>4, <3>5 DEF Leave
      <3> QED
        BY <3>1, <3>6, <3>7 DEF TenancyInv, BucketInv
    <2>4. left \in 0..Burst \/ q.at # "count"
      <3> SUFFICES ASSUME q.at = "count" PROVE left \in 0..Burst
        OBVIOUS
      <3>1. q.instance \in Instances /\ q.token \in Tokens /\ now \in Nat
        BY <2>1 DEF TenancyInv, ReqInv, TablesInv
      <3>2. buckets[q.instance][q.token] \in [tokens : 0..Burst, at : 0..now]
        BY <3>1 DEF TenancyInv, BucketInv, Times
      <3> QED
        BY <3>1, <3>2, RefilledIs
    <2>5. \/ buckets' = buckets
          \/ q.at = "count" /\ Leave(q.instance, q.token, left)
          \/ q.at = "count" /\ left >= 1 /\ Leave(q.instance, q.token, left - 1)
      BY <1>1, <2>1 DEF Pays
    <2>6. CASE q.at = "count" /\ Leave(q.instance, q.token, left)
      <3>1. left >= 0
        BY <2>4, <2>6
      <3> QED
        BY <2>3, <2>6, <3>1
    <2>7. CASE q.at = "count" /\ left >= 1 /\ Leave(q.instance, q.token, left - 1)
      <3>1. left - 1 >= 0
        BY <2>4, <2>7
      <3> QED
        BY <2>3, <2>7, <3>1
    <2> QED
      BY <2>2, <2>5, <2>6, <2>7
  <1> QED
    BY <1>2, <1>3, <1>4, <1>5, <1>6 DEF TenancyInv

LEMMA OperatesKeeps ==
  ASSUME TenancyInv, NEW a \in Admins, Operates(a)
  PROVE  TenancyInv'
  <1>1. PICK p : AdmInv(p)' /\ adm' = [adm EXCEPT ![a] = p]
    BY DEF Operates
  <1>2. KeepsFacts /\ CacheInv' /\ now' = now /\ req' = req /\ buckets' = buckets /\ TablesInv'
    BY DEF Operates, KeepsFacts
  <1>3. adm' \in [Admins -> Operation]
    BY <1>1 DEF TenancyInv, AdmInv
  <1>4. ASSUME NEW x \in Admins PROVE AdmInv(adm[x])'
    <2>1. CASE x = a
      <3>1. adm'[x] = p
        BY <1>1, <2>1 DEF TenancyInv
      <3> QED
        BY <1>1, <3>1
    <2>2. CASE x # a
      <3>1. PICK o : o = adm[x]
        OBVIOUS
      <3>2. AdmInv(o)'
        BY <1>2, <3>1, OperationKept DEF TenancyInv
      <3>3. adm'[x] = o
        BY <1>1, <2>2, <3>1 DEF TenancyInv
      <3> QED
        BY <3>2, <3>3
    <2> QED
      BY <2>1, <2>2
  <1>5. ASSUME NEW r \in Requests PROVE ReqInv(req[r])'
    <2>1. PICK q : q = req[r]
      OBVIOUS
    <2>2. ReqInv(q)'
      BY <1>2, <2>1, RequestKept DEF TenancyInv
    <2> QED
      BY <1>2, <2>1, <2>2
  <1>6. BucketInv'
    BY <1>2 DEF TenancyInv, BucketInv, Times
  <1> QED
    BY <1>2, <1>3, <1>4, <1>5, <1>6 DEF TenancyInv

(* The kinds of step: a request's, an operation's, and time's.             *)
LEMMA NextIs ==
  ASSUME TenancyInv, Next
  PROVE  \/ \E r \in Requests : StepsOn(r)
         \/ \E a \in Admins : Operates(a)
         \/ Tick
  <1>1. CASE \E r \in Requests : GoesOn(r)
    BY <1>1, QuotaLookUpSteps, TokenHitSteps, CountHitSteps DEF GoesOn
  <1>2. CASE \E r \in Requests, i \in Servers, t \in Tenants, k \in Tokens : Begin(r, i, t, k)
    BY <1>2, BeginSteps
  <1>3. CASE \E r \in Requests : Serve(r)
    <2>1. PICK r \in Requests : Serve(r)
      BY <1>3
    <2>2. StepsOn(r)
      BY <2>1, TenantToldSteps, TokenAskSteps, TokenToldSteps, CountAskSteps, CountToldSteps, AppendSteps,
         NoteSteps, UnavailableSteps DEF Serve
    <2> QED
      BY <2>2
  <1>4. CASE \E a \in Admins, i \in Instances, t \in Tenants, k \in Tokens :
                \/ CheckAsk(a, i, t, k)
                \/ \E kind \in Kinds : Change(a, kind, i, t, k)
    <2>1. PICK a \in Admins, i \in Instances, t \in Tenants, k \in Tokens :
                \/ CheckAsk(a, i, t, k)
                \/ \E kind \in Kinds : Change(a, kind, i, t, k)
      BY <1>4
    <2>2. CASE CheckAsk(a, i, t, k)
      BY <2>2, CheckAskOperates
    <2>3. CASE \E kind \in Kinds : Change(a, kind, i, t, k)
      BY <2>3, ChangeOperates
    <2> QED
      BY <2>1, <2>2, <2>3
  <1>5. CASE \E a \in Admins : Administer(a)
    BY <1>5, CheckToldOperates, MintOperates, SettleOperates, RecordOperates, AbandonOperates DEF Administer
  <1> QED
    BY <1>1, <1>2, <1>3, <1>4, <1>5 DEF Next

LEMMA UnchangedInv ==
  ASSUME TenancyInv, UNCHANGED vars
  PROVE  TenancyInv'
  <1>1. UNCHANGED <<now, row, tokens, leaves, audit, cacheVars, buckets, req, adm, since>>
    BY DEF vars, dbVars
  <1>2. KeepsFacts
    BY <1>1, Standing DEF TenancyInv, dbVars
  <1>3. TablesInv' /\ CacheInv' /\ BucketInv'
    BY <1>1, <1>2, CachesAlone DEF TenancyInv, KeepsFacts, BucketInv, Times
  <1>4. ASSUME NEW r \in Requests PROVE ReqInv(req[r])'
    <2>1. PICK q : q = req[r]
      OBVIOUS
    <2>2. ReqInv(q)'
      BY <1>1, <1>2, <2>1, RequestKept DEF TenancyInv
    <2> QED
      BY <1>1, <2>1, <2>2
  <1>5. ASSUME NEW a \in Admins PROVE AdmInv(adm[a])'
    <2>1. PICK o : o = adm[a]
      OBVIOUS
    <2>2. AdmInv(o)'
      BY <1>1, <1>2, <2>1, OperationKept DEF TenancyInv
    <2> QED
      BY <1>1, <2>1, <2>2
  <1> QED
    BY <1>1, <1>3, <1>4, <1>5 DEF TenancyInv

LEMMA NextInv == TenancyInv /\ [Next]_vars => TenancyInv'
  <1>1. ASSUME TenancyInv, Next PROVE TenancyInv'
    BY <1>1, NextIs, StepsOnKeeps, OperatesKeeps, TickKeeps
  <1> QED
    BY <1>1, UnchangedInv

LEMMA Invariance == Spec => []TenancyInv
  BY InitInv, NextInv, PTL DEF Spec

------------------------------------------------------------------------------
(* The properties.                                                         *)

LEMMA InvType == TenancyInv => TypeOK
  <1> SUFFICES ASSUME TenancyInv PROVE TypeOK
    OBVIOUS
  <1>1. \A r \in Requests : req[r].at \in {"done", "resolve"} \cup Past /\ req[r].waiting \in BOOLEAN
    BY DEF TenancyInv, Request, Steps
  <1>2. \A i \in Instances, k \in Tokens : buckets[i][k].tokens \in 0..Burst
    BY DEF TenancyInv, BucketInv
  <1> QED
    BY <1>1, <1>2 DEF TenancyInv, TablesInv, TypeOK, Rows

(* What a step of r makes of every request.                                *)
LEMMA OneMoves ==
  ASSUME TenancyInv, NEW r \in Requests, StepsOn(r), NEW x \in Requests
  PROVE  req'[x] = req[x] \/ (x = r /\ Moves(req[x], req'[x]))
  BY DEF StepsOn, TenancyInv

(* The answers, and who is let in.                                         *)
LEMMA AnswersAreFresh ==
  TenancyInv /\ [Next]_vars => [TenantAnswersFresh /\ LetInByToken]_vars
  <1> SUFFICES ASSUME TenancyInv, Next PROVE TenantAnswersFresh /\ LetInByToken
    OBVIOUS
  <1>1. CASE req' = req
    <2>1. TenantAnswersFresh
      BY <1>1 DEF TenantAnswersFresh
    <2>2. LetInByToken
      <3>1. \A r \in Requests : req[r].at = "authorize" => req[r].answer = "refused"
        BY DEF TenancyInv, ReqInv
      <3> QED
        BY <1>1, <3>1 DEF LetInByToken
    <2> QED
      BY <2>1, <2>2
  <1>2. CASE \E r \in Requests : StepsOn(r)
    <2>1. \A x \in Requests : req'[x] = req[x] \/ Moves(req[x], req'[x])
      BY <1>2, OneMoves
    <2>2. TenantAnswersFresh
      BY <2>1 DEF TenantAnswersFresh, Moves, FreshAnswer
    <2>3. LetInByToken
      <3>1. \A r \in Requests : req[r].at = "authorize" => req[r].answer = "refused"
        BY DEF TenancyInv, ReqInv
      <3> QED
        BY <2>1, <3>1 DEF LetInByToken, Moves, LetIn
    <2> QED
      BY <2>2, <2>3
  <1>3. Tick => req' = req
    BY DEF Tick
  <1> QED
    BY <1>1, <1>2, <1>3, NextIs DEF Operates

(* A disabled tenant is refused, an added one served and a revoked token   *)
(* kept out on every instance once the caches' lives and a query have      *)
(* passed: postgresResolver and PostgresTenancy.authorize.                 *)
THEOREM ChangesReachEveryInstance == Spec => CachesFresh
  BY Invariance, InvType, AnswersAreFresh, PTL DEF Spec, CachesFresh

LEMMA QuotaStep ==
  TenancyInv /\ [Next]_vars => [
    \A r \in Requests :
        req[r].at = "count" /\ req'[r].at = "append" =>
            now < since.over[req[r].tenant] + Longer(TenantTTL, QuotaTTL) + 2 * MaxQuery]_vars
  <1> SUFFICES ASSUME TenancyInv, Next
               PROVE  \A r \in Requests : req[r].at = "count" /\ req'[r].at = "append" =>
                        now < since.over[req[r].tenant] + Longer(TenantTTL, QuotaTTL) + 2 * MaxQuery
    OBVIOUS
  <1>1. CASE req' = req
    BY <1>1
  <1>2. CASE \E r \in Requests : StepsOn(r)
    BY <1>2, OneMoves DEF Moves, UnderQuota
  <1>3. Tick => req' = req
    BY DEF Tick
  <1> QED
    BY <1>1, <1>2, <1>3, NextIs DEF Operates

(* The plan's allowance bites on every instance, whatever the plan or the  *)
(* count its caches remember: PostgresTenancy.quota.                       *)
THEOREM QuotaReachesEveryInstance == Spec => QuotaBites
  BY Invariance, QuotaStep, PTL DEF Spec, QuotaBites

------------------------------------------------------------------------------
(* The rate limiter.                                                       *)

(* A bucket just left holds what was left in it.                           *)
LEMMA LeftIs ==
  ASSUME NEW m \in 0..Burst, NEW n \in Nat, NEW b, b = [tokens |-> m, at |-> n]
  PROVE  Refilled(b, n) = m
  <1>1. b.tokens = m /\ b.at = n /\ m \in Nat /\ Burst \in Nat /\ Rate \in Nat
    BY TenancyAssumption
  <1>2. (n - n) * Rate = 0
    BY <1>1
  <1> QED
    BY <1>1, <1>2 DEF Refilled

(* A unit of time fills a bucket by the rate at most.                      *)
LEMMA FillsByRate ==
  ASSUME NEW n \in Nat, NEW b, b.tokens \in 0..Burst, b.at \in 0..n
  PROVE  /\ Refilled(b, n + 1) <= Refilled(b, n) + Rate
         /\ Refilled(b, n) \in 0..Burst
  <1>1. /\ n - b.at \in Nat /\ Rate \in Nat /\ Burst \in Nat /\ b.tokens \in Nat
        /\ (n + 1) - b.at = (n - b.at) + 1
    BY TenancyAssumption
  <1>2. PICK d \in Nat : d = n - b.at
    BY <1>1
  <1>3. PICK x, y : x = d * Rate /\ y = (d + 1) * Rate
    OBVIOUS
  <1>4. x \in Nat /\ y = x + Rate
    BY <1>1, <1>3
  <1>5. /\ Refilled(b, n) = IF b.tokens + x > Burst THEN Burst ELSE b.tokens + x
        /\ Refilled(b, n + 1) = IF b.tokens + y > Burst THEN Burst ELSE b.tokens + y
    BY <1>1, <1>2, <1>3 DEF Refilled
  <1> QED
    BY <1>1, <1>4, <1>5

Out(i, k) == {r \in Requests : /\ req[r].at = "count" /\ req'[r].at = "append"
                               /\ req[r].instance = i /\ req[r].token = k}
PaidFor(i, k) == Refilled(buckets'[i][k], now') + Cardinality(Out(i, k))
                    <= Refilled(buckets[i][k], now) + Rate * (now' - now)

(* Time gives no one anything but what it fills.                           *)
LEMMA TickPays ==
  ASSUME TenancyInv, Tick, NEW i \in Instances, NEW k \in Tokens
  PROVE  PaidFor(i, k)
  <1> DEFINE b == buckets[i][k]
             c == buckets'[i][k]
  <1>1. req' = req /\ now' = now + 1
    BY DEF Tick
  <1>2. Out(i, k) = {}
    BY <1>1 DEF Out
  <1>3. now \in Nat /\ Rate \in Nat /\ Burst \in Nat
    BY TenancyAssumption DEF TenancyInv, TablesInv
  <1>4. b.tokens \in 0..Burst /\ b.at \in 0..now
    BY DEF TenancyInv, BucketInv, Times
  <1>5. Refilled(b, now + 1) <= Refilled(b, now) + Rate
    BY <1>3, <1>4, FillsByRate
  <1>6. Refilled(c, now + 1) = Refilled(b, now + 1)
    <2>1. c = IF Refilled(b, now + 1) = Burst THEN [tokens |-> Burst, at |-> now + 1] ELSE b
      BY DEF Tick
    <2>2. CASE Refilled(b, now + 1) = Burst
      <3>1. c = [tokens |-> Burst, at |-> now + 1]
        BY <2>1, <2>2
      <3> QED
        BY <1>3, <2>2, <3>1, LeftIs
    <2>3. CASE Refilled(b, now + 1) # Burst
      BY <2>1, <2>3
    <2> QED
      BY <2>2, <2>3
  <1> HIDE DEF b, c
  <1>7. Rate * (now' - now) = Rate
    BY <1>1, <1>3
  <1>8. Refilled(c, now') <= Refilled(b, now) + Rate /\ Refilled(c, now') \in Int
    <2>1. c.tokens \in 0..Burst /\ c.at \in 0..(now + 1)
      <3>1. BucketInv'
        BY TickKeeps DEF TenancyInv
      <3> QED
        BY <1>1, <3>1 DEF BucketInv, Times, c
    <2>2. now + 1 \in Nat
      BY <1>3
    <2>3. Refilled(c, now + 1) \in 0..Burst
      BY <2>1, <2>2, RefilledIs
    <2> QED
      BY <1>1, <1>5, <1>6, <2>3
  <1>9. Cardinality(Out(i, k)) = 0
    BY <1>2, FS_EmptySet
  <1> QED
    BY <1>7, <1>8, <1>9 DEF PaidFor, b, c

(* A request takes a unit for an append, and none when it is refused.      *)
LEMMA StepsOnPays ==
  ASSUME TenancyInv, NEW r \in Requests, StepsOn(r), NEW i \in Instances, NEW k \in Tokens
  PROVE  PaidFor(i, k)
  <1>1. PICK p : ReqInv(p)' /\ Pays(req[r], p) /\ req' = [req EXCEPT ![r] = p]
    BY DEF StepsOn
  <1>2. now' = now /\ now \in Nat /\ Rate \in Nat /\ Burst \in Nat
    BY TenancyAssumption DEF StepsOn, TenancyInv, TablesInv
  <1>3. PICK q : q = req[r]
    OBVIOUS
  <1>4. Out(i, k) = IF q.at = "count" /\ p.at = "append" /\ q.instance = i /\ q.token = k THEN {r} ELSE {}
    <2>1. req'[r] = p /\ \A x \in Requests \ {r} : req'[x] = req[x]
      BY <1>1 DEF TenancyInv
    <2> QED
      BY <1>3, <2>1 DEF Out
  <1>5. Rate * (now' - now) = 0
    BY <1>2
  <1>6. PICK b, c : b = buckets[i][k] /\ c = buckets'[i][k]
    OBVIOUS
  <1>7. Refilled(b, now) \in 0..Burst
    <2>1. b.tokens \in 0..Burst /\ b.at \in 0..now
      BY <1>6 DEF TenancyInv, BucketInv, Times
    <2> QED
      BY <1>2, <2>1, RefilledIs
  <1>8. PICK left : left = Refilled(buckets[q.instance][q.token], now)
    OBVIOUS
  <1>9. CASE c = b /\ ~(q.at = "count" /\ p.at = "append" /\ q.instance = i /\ q.token = k)
    <2>1. Cardinality(Out(i, k)) = 0
      BY <1>4, <1>9, FS_EmptySet
    <2> QED
      BY <1>2, <1>5, <1>6, <1>7, <1>9, <2>1 DEF PaidFor
  <1>10. CASE /\ q.at = "count" /\ q.instance = i /\ q.token = k
              /\ \/ p.at # "append" /\ c = [tokens |-> left, at |-> now]
                 \/ p.at = "append" /\ left >= 1 /\ c = [tokens |-> left - 1, at |-> now]
    <2>1. left = Refilled(b, now) /\ left \in 0..Burst
      BY <1>6, <1>7, <1>8, <1>10
    <2>2. CASE p.at # "append" /\ c = [tokens |-> left, at |-> now]
      <3>1. Cardinality(Out(i, k)) = 0
        BY <1>4, <2>2, FS_EmptySet
      <3>2. Refilled(c, now) = left
        BY <1>2, <2>1, <2>2, LeftIs
      <3> QED
        BY <1>2, <1>5, <1>6, <2>1, <3>1, <3>2 DEF PaidFor
    <2>3. CASE p.at = "append" /\ left >= 1 /\ c = [tokens |-> left - 1, at |-> now]
      <3>1. Cardinality(Out(i, k)) = 1
        BY <1>4, <1>10, <2>3, FS_Singleton
      <3>2. left - 1 \in 0..Burst
        BY <1>2, <2>1, <2>3
      <3>3. Refilled(c, now) = left - 1
        BY <1>2, <2>3, <3>2, LeftIs
      <3> QED
        BY <1>2, <1>5, <1>6, <2>1, <3>1, <3>3 DEF PaidFor
    <2> QED
      BY <1>10, <2>2, <2>3
  <1>11. \/ buckets' = buckets /\ ~(q.at = "count" /\ p.at = "append")
         \/ q.at = "count" /\ p.at # "append" /\ Leave(q.instance, q.token, left)
         \/ q.at = "count" /\ p.at = "append" /\ left >= 1 /\ Leave(q.instance, q.token, left - 1)
    BY <1>1, <1>3, <1>8 DEF Pays
  <1>12. CASE buckets' = buckets /\ ~(q.at = "count" /\ p.at = "append")
    BY <1>6, <1>9, <1>12
  <1>13. CASE q.at = "count" /\ p.at # "append" /\ Leave(q.instance, q.token, left)
    <2>1. q.instance = i /\ q.token = k => c = [tokens |-> left, at |-> now]
      BY <1>6, <1>13 DEF Leave, TenancyInv, BucketInv
    <2>2. ~(q.instance = i /\ q.token = k) => c = b
      BY <1>6, <1>13 DEF Leave, TenancyInv, BucketInv
    <2> QED
      BY <1>9, <1>10, <1>13, <2>1, <2>2
  <1>14. CASE q.at = "count" /\ p.at = "append" /\ left >= 1 /\ Leave(q.instance, q.token, left - 1)
    <2>1. q.instance = i /\ q.token = k => c = [tokens |-> left - 1, at |-> now]
      BY <1>6, <1>14 DEF Leave, TenancyInv, BucketInv
    <2>2. ~(q.instance = i /\ q.token = k) => c = b
      BY <1>6, <1>14 DEF Leave, TenancyInv, BucketInv
    <2> QED
      BY <1>9, <1>10, <1>14, <2>1, <2>2
  <1> QED
    BY <1>11, <1>12, <1>13, <1>14

LEMMA OperatesPays ==
  ASSUME TenancyInv, NEW a \in Admins, Operates(a), NEW i \in Instances, NEW k \in Tokens
  PROVE  PaidFor(i, k)
  <1>1. now' = now /\ req' = req /\ buckets' = buckets
    BY DEF Operates
  <1>2. now \in Nat /\ Rate \in Nat /\ Burst \in Nat
    BY TenancyAssumption DEF TenancyInv, TablesInv
  <1>3. Refilled(buckets[i][k], now) \in 0..Burst
    <2>1. buckets[i][k].tokens \in 0..Burst /\ buckets[i][k].at \in 0..now
      BY DEF TenancyInv, BucketInv, Times
    <2> QED
      BY <1>2, <2>1, RefilledIs
  <1>4. Cardinality(Out(i, k)) = 0
    <2>1. Out(i, k) = {}
      BY <1>1 DEF Out
    <2> QED
      BY <2>1, FS_EmptySet
  <1>5. Rate * (now' - now) = 0
    BY <1>1, <1>2
  <1> QED
    BY <1>1, <1>3, <1>4, <1>5 DEF PaidFor

LEMMA LimiterStep ==
  TenancyInv /\ [Next]_vars => [
    \A i \in Instances, k \in Tokens :
        LET out == Cardinality({r \in Requests : /\ req[r].at = "count" /\ req'[r].at = "append"
                                                 /\ req[r].instance = i /\ req[r].token = k})
        IN  Refilled(buckets'[i][k], now') + out
                <= Refilled(buckets[i][k], now) + Rate * (now' - now)]_vars
  <1>1. ASSUME TenancyInv, Next, NEW i \in Instances, NEW k \in Tokens PROVE PaidFor(i, k)
    BY <1>1, NextIs, StepsOnPays, OperatesPays, TickPays
  <1> QED
    BY <1>1 DEF PaidFor, Out

(* Whatever is taken, refused or waited for, a token's appends on an       *)
(* instance are paid for by its burst and by time: RateLimiter.take.       *)
THEOREM AppendsArePaidFor == Spec => LimiterPays
  BY Invariance, LimiterStep, PTL DEF Spec, LimiterPays
================================================================================
