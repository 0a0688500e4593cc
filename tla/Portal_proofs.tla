----------------------------- MODULE Portal_proofs -----------------------------
(***************************************************************************)
(* Proofs about the tenant portal (Portal), for any number of requests,    *)
(* accounts, tenants and subscriptions.                                    *)
(*                                                                         *)
(* A request remembers what an earlier statement told it - that the        *)
(* account is there, that it is a member, that the tenant has a row, whose *)
(* subscription it is - and acts on it several statements later.  What it  *)
(* remembers stays true because nothing here takes it back: accounts,      *)
(* names, memberships, tenants and notes only come, and a subscription     *)
(* stays the tenant's that paid for it (Grows).  So it is enough to follow *)
(* the request that takes the step.                                        *)
(***************************************************************************)
EXTENDS Portal, SequenceTheorems, TLAPS

(* The statements a request can be at, by what it knows there.             *)
ToTenant == {"owner", "profile", "addTenant", "addMember"}
AsMember == {"prefix", "keyLookup", "mint", "duplicate", "insert", "offer", "revoke", "unpublish"}
OfStripe == {"completed", "setBilling", "current", "setPlan"}
Points   == {"idle", "create", "authenticate", "identity", "byEmail", "link", "session", "parse",
             "bySub", "list", "note", "mark"} \cup ToTenant \cup AsMember \cup OfStripe
ByEmail  == {"create", "authenticate", "identity", "byEmail", "link", "session", "parse", "mark"}
            \cup ToTenant \cup AsMember
Kinds    == {"none", "register", "registerAll", "onboard", "signIn", "signedIn", "login", "key", "revoke",
             "publish", "unpublish", "checkout", "webhook", "followUps"}

Statuses == {"none", "active", "unpaid", "canceled"}
Events   == {Completed(t, s) : t \in Tenants, s \in Subs}
            \cup {Changed(s, status) : s \in Subs, status \in Statuses}

OpStates == [at : Points, kind : Kinds, waiting : BOOLEAN, got : Plans \cup {"none"},
             email : Emails \cup {Nobody}, tenant : Tenants \cup {Nobody},
             ident : Identities \cup {Nobody}, event : Events \cup {Nobody},
             rows : SUBSET (Emails \X Tenants)]

PaidFor(s, t) == s \in Subs /\ t \in Tenants /\ subs[s].tenant = t /\ subs[s].status # "none"

(* What a request knows at each of its statements.                         *)
Registers(o) ==
    /\ o.at = "create" => o.kind \in {"register", "registerAll", "signIn"}
    /\ o.at = "create" /\ o.kind = "registerAll" => o.tenant \in Tenants
    /\ o.at = "parse" => /\ o.kind \in {"onboard", "registerAll"} /\ o.tenant \in Tenants
                         /\ o.kind = "onboard" => accounts[o.email].exists
    /\ o.at \in ToTenant => o.tenant \in Tenants /\ accounts[o.email].exists
    /\ o.at \in {"addTenant", "addMember"} => accounts[o.email].named

SignsIn(o) ==
    /\ o.kind = "signedIn" => o.at = "idle"
    /\ o.at = "authenticate" => o.kind = "login"
    /\ o.at \in {"identity", "byEmail", "link"} => o.kind = "signIn"
    /\ o.at # "idle" /\ o.kind = "signIn" =>
          /\ o.at \in {"identity", "byEmail", "create", "link"}
          /\ o.ident \in Identities /\ o.email \in Addresses[o.ident]

Administers(o) ==
    /\ o.at \in AsMember => o.tenant \in Tenants /\ Contains(members[o.email], o.tenant)
    /\ o.at = "mint" => plan[o.tenant] # "none"
    /\ o.at \in {"session", "prefix"} => o.kind \in {"key", "revoke", "publish", "unpublish", "checkout"}
    /\ o.at = "mark" => o.tenant \in Tenants /\ o.email \in mailed \cup Own

Bills(o) ==
    /\ o.at = "bySub" => o.event \in Events /\ o.event.type = "changed"
    /\ o.at = "completed" => o.event \in Events /\ o.event.type = "completed"
    /\ o.at \in OfStripe => o.event \in Events /\ PaidFor(o.event.sub, o.tenant)
    /\ \/ o.at = "setBilling" /\ o.event.type # "completed"
       \/ o.at \in {"current", "setPlan"}
       => billing[o.tenant] \in Subs

Knows(o) ==
    /\ o \in OpStates
    /\ o.at \in ByEmail => o.email \in Emails
    /\ o.waiting => o.at \in Lookups /\ (o.got # "none" => plan[o.tenant] # "none")
    /\ Registers(o) /\ SignsIn(o) /\ Administers(o) /\ Bills(o)

(* What the tables and Stripe agree on.                                    *)
TablesInv ==
    /\ TypeOK
    /\ members \in [Emails -> Seq(Tenants)] /\ policies \in Seq(Tenants \X Emails)
    /\ subs \in [Subs -> [tenant : Tenants \cup {Nobody}, status : Statuses]] /\ events \subseteq Events
    /\ offered \subseteq Tenants
    /\ \A t \in Tenants : cache[t] \notin {"none", "unknown"} => plan[t] # "none"
    /\ \A i \in Identities : identities[i] \in Addresses[i] \cup {Nobody}
    /\ KeysToMembers /\ PublishedByMembers /\ MarkedWasMailed
    /\ \A t \in Tenants : billing[t] \in Subs => PaidFor(billing[t], t)
    /\ \A e \in events : e.type = "completed" => PaidFor(e.sub, e.tenant)

PortalInv ==
    /\ TablesInv
    /\ op \in [Requests -> OpStates]
    /\ \A r \in Requests : Knows(op[r])

-----------------------------------------------------------------------------
(* Sequences, events and records.                                          *)
LEMMA Containing ==
    ASSUME NEW S, NEW s \in Seq(S), NEW t \in S
    PROVE  /\ Append(s, t) \in Seq(S) /\ Contains(Append(s, t), t)
           /\ \A u : Contains(s, u) => Contains(Append(s, t), u)
           /\ s # <<>> => Head(s) \in S /\ Contains(s, Head(s))
  <1>1. /\ Append(s, t) \in Seq(S) /\ Len(Append(s, t)) = Len(s) + 1
        /\ Append(s, t)[Len(s) + 1] = t
        /\ \A i \in 1..Len(s) : Append(s, t)[i] = s[i]
    OBVIOUS
  <1>2. s # <<>> => Head(s) \in S /\ Head(s) = s[1] /\ 1 \in 1..Len(s)
    OBVIOUS
  <1>3. Len(s) \in Nat
    OBVIOUS
  <1> QED BY <1>1, <1>2, <1>3 DEF Contains

LEMMA Removing ==
    ASSUME NEW S, NEW s \in Seq(S), NEW i \in DOMAIN s
    PROVE  /\ RemoveAt(s, i) \in Seq(S)
           /\ \A j \in DOMAIN RemoveAt(s, i) : \E k \in DOMAIN s : RemoveAt(s, i)[j] = s[k]
  <1>1. i \in 1..Len(s) /\ Len(s) \in Nat
    OBVIOUS
  <1>a. /\ SubSeq(s, 1, i - 1) \in Seq(S) /\ Len(SubSeq(s, 1, i - 1)) = i - 1
        /\ \A j \in 1..(i - 1) : SubSeq(s, 1, i - 1)[j] = s[j]
    BY <1>1
  <1>b. /\ SubSeq(s, i + 1, Len(s)) \in Seq(S) /\ Len(SubSeq(s, i + 1, Len(s))) = Len(s) - i
        /\ \A j \in 1..(Len(s) - i) : SubSeq(s, i + 1, Len(s))[j] = s[i + j]
    BY <1>1
  <1>2. PICK a \in Seq(S) : /\ a = SubSeq(s, 1, i - 1) /\ Len(a) = i - 1
                            /\ \A j \in 1..(i - 1) : a[j] = s[j]
    BY <1>a
  <1>3. PICK b \in Seq(S) : /\ b = SubSeq(s, i + 1, Len(s)) /\ Len(b) = Len(s) - i
                            /\ \A j \in 1..(Len(s) - i) : b[j] = s[i + j]
    BY <1>b
  <1>4. RemoveAt(s, i) = a \o b
    BY <1>2, <1>3 DEF RemoveAt
  <1>5. /\ a \o b \in Seq(S) /\ Len(a \o b) = Len(a) + Len(b)
        /\ \A j \in 1..(Len(a) + Len(b)) : (a \o b)[j] = IF j <= Len(a) THEN a[j] ELSE b[j - Len(a)]
    BY ConcatProperties
  <1>6. ASSUME NEW j \in 1..(Len(a) + Len(b)) PROVE \E k \in 1..Len(s) : (a \o b)[j] = s[k]
    <2>1. CASE j <= Len(a)
      BY <1>1, <1>2, <1>5, <2>1
    <2>2. CASE ~(j <= Len(a))
      <3>1. Len(a) \in Nat /\ Len(b) \in Nat /\ j \in Nat
        OBVIOUS
      <3>2. j - Len(a) \in 1..Len(b)
        BY <2>2, <3>1
      <3>3. i + (j - Len(a)) = j + 1 /\ j + 1 <= Len(s) /\ j + 1 \in Nat
        <4>1. Len(a) = i - 1 /\ Len(b) = Len(s) - i
          BY <1>2, <1>3
        <4> QED BY <1>1, <3>1, <4>1
      <3>4. (a \o b)[j] = b[j - Len(a)]
        BY ONLY <1>5, <1>6, <2>2
      <3>5. b[j - Len(a)] = s[j + 1]
        BY <1>3, <3>2, <3>3
      <3>6. j + 1 \in 1..Len(s)
        BY <1>1, <3>1, <3>3
      <3> QED BY <3>4, <3>5, <3>6
    <2> QED BY <2>1, <2>2
  <1>7. DOMAIN (a \o b) = 1..(Len(a) + Len(b)) /\ DOMAIN s = 1..Len(s)
    BY <1>5
  <1> QED BY <1>4, <1>5, <1>6, <1>7

LEMMA EventFields ==
    /\ \A t \in Tenants, s \in Subs :
          /\ Completed(t, s) \in Events /\ Completed(t, s).type = "completed"
          /\ Completed(t, s).tenant = t /\ Completed(t, s).sub = s
    /\ \A s \in Subs, status \in Statuses :
          /\ Changed(s, status) \in Events /\ Changed(s, status).type = "changed"
          /\ Changed(s, status).sub = s
    /\ \A e \in Events : /\ e.sub \in Subs /\ e.type \in {"completed", "changed"}
                         /\ e.type = "completed" => e.tenant \in Tenants
  <1>1. \A t, s : /\ Completed(t, s).type = "completed"
                  /\ Completed(t, s).tenant = t /\ Completed(t, s).sub = s
    BY DEF Completed
  <1>2. \A s, status : Changed(s, status).type = "changed" /\ Changed(s, status).sub = s
    BY DEF Changed
  <1> QED BY <1>1, <1>2 DEF Events

LEMMA Records ==
    /\ Idle \in OpStates /\ Idle.at = "idle" /\ Idle.kind = "none" /\ ~Idle.waiting
    /\ \A o \in OpStates, at \in Points :
          /\ To(o, at) \in OpStates /\ To(o, at).at = at /\ ~To(o, at).waiting
          /\ To(o, at).kind = o.kind /\ To(o, at).email = o.email /\ To(o, at).tenant = o.tenant
          /\ To(o, at).ident = o.ident /\ To(o, at).event = o.event /\ To(o, at).rows = o.rows
  <1>1. "idle" \in Points /\ "none" \in Kinds
    BY DEF Points, Kinds
  <1>2. Idle \in OpStates /\ Idle.at = "idle" /\ Idle.kind = "none" /\ ~Idle.waiting
    BY <1>1 DEF OpStates, Idle
  <1>3. ASSUME NEW o \in OpStates, NEW at \in Points
        PROVE  /\ To(o, at) \in OpStates /\ To(o, at).at = at /\ ~To(o, at).waiting
               /\ To(o, at).kind = o.kind /\ To(o, at).email = o.email /\ To(o, at).tenant = o.tenant
               /\ To(o, at).ident = o.ident /\ To(o, at).event = o.event /\ To(o, at).rows = o.rows
    BY DEF OpStates, To
  <1> QED BY <1>2, <1>3

LEMMA IdleKnows == Knows(Idle)
  BY Records DEF Knows, Registers, SignsIn, Administers, Bills, Points, ByEmail, ToTenant, AsMember, OfStripe

-----------------------------------------------------------------------------
(* What nothing takes back.                                                *)
Grows ==
    /\ \A e \in Emails : /\ accounts[e].exists => accounts'[e].exists
                         /\ accounts[e].named => accounts'[e].named
                         /\ \A t \in Tenants : Contains(members[e], t) => Contains(members'[e], t)
    /\ \A t \in Tenants : /\ plan[t] # "none" => plan'[t] # "none"
                          /\ billing[t] \in Subs => billing'[t] \in Subs
                          /\ \A s \in Subs : PaidFor(s, t) => PaidFor(s, t)'
    /\ mailed \subseteq mailed'

LEMMA Remembers ==
    ASSUME NEW o, Knows(o), Grows
    PROVE  Knows(o)'
  <1> USE DEF Knows
  <1>1. o.at \in ToTenant \cup AsMember \cup {"parse"} => o.email \in Emails
    BY DEF ByEmail
  <1>2. Registers(o)'
    BY <1>1 DEF Grows, Registers, ToTenant
  <1>3. SignsIn(o)'
    BY DEF SignsIn
  <1>4. Administers(o)'
    BY <1>1 DEF Grows, Administers, AsMember
  <1>5. o.at \in OfStripe => o.tenant \in Tenants /\ o.event.sub \in Subs
    BY DEF Bills, PaidFor
  <1>6. Bills(o)'
    BY <1>5 DEF Grows, Bills, OfStripe
  <1>7. o.waiting /\ o.got # "none" => plan'[o.tenant] # "none"
    <2>1. o.at \in Lookups => o.tenant \in Tenants
      BY <1>5 DEF Lookups, Registers, Administers, AsMember, OfStripe
    <2> QED BY <2>1 DEF Grows
  <1> QED BY <1>2, <1>3, <1>4, <1>6, <1>7

(* What a step of one request comes to.                                    *)
Comes(r) == TablesInv' /\ Grows /\ \E o \in OpStates : Is(r, o) /\ Knows(o)'

Quiet == UNCHANGED <<tables, plan, cache, billing, stripe>>

LEMMA QuietComes ==
    ASSUME TablesInv, NEW r, Quiet, NEW o, Is(r, o), Knows(o)
    PROVE  Comes(r)
  <1>1. TablesInv'
    BY DEF TablesInv, TypeOK, KeysToMembers, PublishedByMembers, MarkedWasMailed, PaidFor, Quiet, tables, stripe
  <1>2. Grows
    BY DEF Grows, Quiet, tables, stripe, PaidFor
  <1> QED BY <1>1, <1>2, Remembers DEF Comes, Knows

-----------------------------------------------------------------------------
(* Requests that arrive.                                                   *)
LEMMA Arrivals ==
    ASSUME NEW e \in Emails
    PROVE  /\ Knows([Idle EXCEPT !.kind = "register", !.at = "create", !.email = e])
           /\ \A t \in Tenants :
                 /\ Knows([Idle EXCEPT !.kind = "registerAll", !.at = "parse", !.email = e, !.tenant = t])
                 /\ accounts[e].exists =>
                       Knows([Idle EXCEPT !.kind = "onboard", !.at = "parse", !.email = e, !.tenant = t])
           /\ Knows([Idle EXCEPT !.kind = "login", !.at = "authenticate", !.email = e])
           /\ \A kind \in {"key", "revoke", "publish", "unpublish", "checkout"} :
                 Knows([Idle EXCEPT !.kind = kind, !.at = "session", !.email = e])
           /\ Knows([Idle EXCEPT !.kind = "signedIn", !.email = e])
  <1> USE DEF Knows, Registers, SignsIn, Administers, Bills, OpStates, Idle, Points, Kinds, ByEmail,
              ToTenant, AsMember, OfStripe
  <1>1. Knows([Idle EXCEPT !.kind = "register", !.at = "create", !.email = e])
    OBVIOUS
  <1>2. ASSUME NEW t \in Tenants
        PROVE  Knows([Idle EXCEPT !.kind = "registerAll", !.at = "parse", !.email = e, !.tenant = t])
    OBVIOUS
  <1>3. ASSUME NEW t \in Tenants, accounts[e].exists
        PROVE  Knows([Idle EXCEPT !.kind = "onboard", !.at = "parse", !.email = e, !.tenant = t])
    BY <1>3
  <1>4. Knows([Idle EXCEPT !.kind = "login", !.at = "authenticate", !.email = e])
    OBVIOUS
  <1>5. ASSUME NEW kind \in {"key", "revoke", "publish", "unpublish", "checkout"}
        PROVE  Knows([Idle EXCEPT !.kind = kind, !.at = "session", !.email = e])
    OBVIOUS
  <1>6. Knows([Idle EXCEPT !.kind = "signedIn", !.email = e])
    OBVIOUS
  <1> HIDE DEF Knows, Idle
  <1> QED BY <1>1, <1>2, <1>3, <1>4, <1>5, <1>6

LEMMA FollowUpsArrive == Knows([Idle EXCEPT !.kind = "followUps", !.at = "list"])
  BY DEF Knows, Registers, SignsIn, Administers, Bills, OpStates, Idle, Points, Kinds, ByEmail,
     ToTenant, AsMember, OfStripe

LEMMA SignInArrives ==
    ASSUME NEW i \in Identities, NEW e \in Addresses[i], e \in Emails
    PROVE  Knows([Idle EXCEPT !.kind = "signIn", !.at = "identity", !.email = e, !.ident = i])
  BY DEF Knows, Registers, SignsIn, Administers, Bills, OpStates, Idle, Points, Kinds, ByEmail,
     ToTenant, AsMember, OfStripe

LEMMA WebhookArrives ==
    ASSUME TablesInv, NEW e \in events
    PROVE  /\ e.type = "completed" =>
                 Knows([Idle EXCEPT !.kind = "webhook", !.at = "completed", !.event = e, !.tenant = e.tenant])
           /\ e.type # "completed" =>
                 Knows([Idle EXCEPT !.kind = "webhook", !.at = "bySub", !.event = e])
  <1>1. e \in Events /\ e.sub \in Subs /\ e.type \in {"completed", "changed"}
    BY EventFields DEF TablesInv
  <1>2. e.type = "completed" => e.tenant \in Tenants /\ PaidFor(e.sub, e.tenant)
    BY <1>1, EventFields DEF TablesInv
  <1> QED BY <1>1, <1>2 DEF Knows, Registers, SignsIn, Administers, Bills, OpStates, Idle, Points, Kinds,
       ByEmail, ToTenant, AsMember, OfStripe

LEMMA ArriveComes ==
    ASSUME TablesInv, NEW r \in Requests, Arrive(r)
    PROVE  Comes(r)
  <1> SUFFICES \E o : Is(r, o) /\ Knows(o) /\ Quiet
    BY QuietComes
  <1> USE DEF Begin, Quiet
  <1>1. ASSUME NEW e \in Emails,
               \/ Register(r, e) \/ Login(r, e) \/ NewKey(r, e) \/ RevokeKey(r, e)
               \/ PublishPolicy(r, e) \/ RemovePolicy(r, e) \/ Checkout(r, e)
        PROVE  \E o : Is(r, o) /\ Knows(o) /\ Quiet
    BY <1>1, Arrivals DEF Register, Login, NewKey, RevokeKey, PublishPolicy, RemovePolicy, Checkout, Wanted
  <1>2. ASSUME NEW e \in Emails, NEW t \in Tenants, RegisterAll(r, e, t) \/ Onboard(r, e, t)
        PROVE  \E o : Is(r, o) /\ Knows(o) /\ Quiet
    BY <1>2, Arrivals DEF RegisterAll, Onboard
  <1>3. ASSUME NEW i \in Identities, SignIn(r, i)
        PROVE  \E o : Is(r, o) /\ Knows(o) /\ Quiet
    BY <1>3, SignInArrives, PortalAssumption DEF SignIn
  <1>4. ASSUME NEW e \in events, Webhook(r, e)
        PROVE  \E o : Is(r, o) /\ Knows(o) /\ Quiet
    BY <1>4, WebhookArrives DEF Webhook
  <1>5. CASE FollowUps(r)
    BY <1>5, FollowUpsArrive DEF FollowUps
  <1> QED BY <1>1, <1>2, <1>3, <1>4, <1>5 DEF Arrive

-----------------------------------------------------------------------------
(* Steps that change no table: lookups, and what is read before a write.   *)
LEMMA Moves ==
    ASSUME NEW o, Knows(o), NEW at \in Points \ {"idle", "create"},
           at \in ByEmail => o.email \in Emails,
           at = "parse" => o.at = "parse",
           at \in ToTenant => o.tenant \in Tenants /\ accounts[o.email].exists,
           at \in {"addTenant", "addMember"} => accounts[o.email].named,
           at = "authenticate" => o.kind = "login",
           o.kind # "signedIn",
           at \in {"identity", "byEmail", "link"} <=> o.kind = "signIn",
           o.kind = "signIn" => o.ident \in Identities /\ o.email \in Addresses[o.ident],
           at \in AsMember => o.tenant \in Tenants /\ Contains(members[o.email], o.tenant),
           at = "mint" => plan[o.tenant] # "none",
           at \in {"session", "prefix"} => o.kind \in {"key", "revoke", "publish", "unpublish", "checkout"},
           at = "mark" => o.tenant \in Tenants /\ o.email \in mailed \cup Own,
           at \notin {"bySub", "completed"},
           at \in OfStripe => o.event \in Events /\ PaidFor(o.event.sub, o.tenant),
           \/ at = "setBilling" /\ o.event.type # "completed"
           \/ at \in {"current", "setPlan"}
           => billing[o.tenant] \in Subs
    PROVE  Knows(To(o, at))
  <1>1. /\ To(o, at) \in OpStates /\ To(o, at).at = at /\ ~To(o, at).waiting
        /\ To(o, at).kind = o.kind /\ To(o, at).email = o.email /\ To(o, at).tenant = o.tenant
        /\ To(o, at).ident = o.ident /\ To(o, at).event = o.event
    BY Records DEF Knows
  <1> QED BY <1>1 DEF Knows, Registers, SignsIn, Administers, Bills

LEMMA AfterLookups ==
    ASSUME NEW o, Knows(o), o.at \in Lookups, NEW p \in Plans \cup {"none"},
           p # "none" => plan[o.tenant] # "none"
    PROVE  Knows(AfterLookup(o, p))
  <1>0. /\ o.at \in {"parse", "prefix", "keyLookup", "completed", "current"} /\ o.kind \notin {"signIn", "signedIn"}
        /\ o.at \in {"parse", "prefix", "keyLookup"} => o.email \in Emails
    BY DEF Lookups, Knows, SignsIn, ByEmail, AsMember
  <1>1. CASE o.at = "parse"
    <2>1. o.tenant \in Tenants /\ o.kind \in {"onboard", "registerAll"}
          /\ (o.kind = "onboard" => accounts[o.email].exists)
      BY <1>1 DEF Knows, Registers
    <2>2. CASE p = "none" /\ o.kind = "onboard"
      <3>1. Knows(To(o, "owner"))
        BY <1>0, <1>1, <2>1, <2>2, Moves DEF Points, ToTenant, AsMember, OfStripe
      <3> QED BY <1>1, <2>2, <3>1 DEF AfterLookup, AfterParse
    <2>3. CASE p = "none" /\ o.kind # "onboard"
      <3>1. Knows(To(o, "create"))
        BY <1>0, <1>1, <2>1, <2>3, Records
           DEF Knows, Registers, SignsIn, Administers, Bills, Points, ToTenant, AsMember, OfStripe
      <3> QED BY <1>1, <2>3, <3>1 DEF AfterLookup, AfterParse
    <2>4. CASE p # "none"
      BY <1>1, <2>4, IdleKnows DEF AfterLookup, AfterParse
    <2> QED BY <2>2, <2>3, <2>4
  <1>2. CASE o.at = "prefix"
    <2>1. /\ o.kind \in {"key", "revoke", "publish", "unpublish", "checkout"}
          /\ o.tenant \in Tenants /\ Contains(members[o.email], o.tenant)
      BY <1>2 DEF Knows, Administers, AsMember
    <2>2. \A at \in {"offer", "revoke", "unpublish", "keyLookup"} : Knows(To(o, at))
      BY <1>0, <1>2, <2>1, Moves DEF Points, ToTenant, AsMember, OfStripe
    <2>3. AfterLookup(o, p) = AfterPrefix(o, p)
      BY <1>2 DEF AfterLookup
    <2>4. AfterPrefix(o, p) = Idle \/ \E at \in {"offer", "revoke", "unpublish", "keyLookup"} : AfterPrefix(o, p) = To(o, at)
      BY <2>1 DEF AfterPrefix
    <2> QED BY <2>2, <2>3, <2>4, IdleKnows
  <1>3. CASE o.at = "keyLookup"
    <2>1. o.tenant \in Tenants /\ Contains(members[o.email], o.tenant)
      BY <1>3 DEF Knows, Administers, AsMember
    <2>2. p # "none" => Knows(To(o, "duplicate")) /\ Knows(To(o, "mint"))
      BY <1>0, <1>3, <2>1, Moves DEF Points, ToTenant, AsMember, OfStripe
    <2> QED BY <1>3, <2>2, IdleKnows DEF AfterLookup
  <1>4. CASE o.at = "completed"
    <2>1. o.event \in Events /\ PaidFor(o.event.sub, o.tenant) /\ o.event.type = "completed"
      BY <1>4 DEF Knows, Bills, OfStripe
    <2>2. Knows(To(o, "setBilling"))
      BY <1>0, <2>1, Moves DEF Points, ByEmail, ToTenant, AsMember, OfStripe
    <2> QED BY <1>4, <2>2, IdleKnows DEF AfterLookup
  <1>5. CASE o.at = "current"
    <2>1. o.event \in Events /\ PaidFor(o.event.sub, o.tenant) /\ billing[o.tenant] \in Subs
      BY <1>5 DEF Knows, Bills, OfStripe
    <2>2. Knows(To(o, "setPlan"))
      BY <1>0, <2>1, Moves DEF Points, ByEmail, ToTenant, AsMember, OfStripe
    <2> QED BY <1>5, <2>2, IdleKnows DEF AfterLookup
  <1> QED BY <1>0, <1>1, <1>2, <1>3, <1>4, <1>5

LEMMA OfLookup == ASSUME NEW o, Knows(o), o.at \in Lookups PROVE o.tenant \in Tenants
  BY DEF Knows, Registers, Administers, Bills, PaidFor, Lookups, AsMember, OfStripe

LEMMA CachedComes ==
    ASSUME TablesInv, NEW r \in Requests, Knows(op[r]), Cached(r)
    PROVE  Comes(r)
  <1>1. op[r].tenant \in Tenants /\ op[r].at \in Lookups
    BY OfLookup DEF Cached
  <1>2. /\ cache[op[r].tenant] \in Plans \cup {"none"}
        /\ cache[op[r].tenant] # "none" => plan[op[r].tenant] # "none"
    BY <1>1 DEF Cached, TablesInv, TypeOK
  <1> QED BY <1>1, <1>2, AfterLookups, QuietComes DEF Cached, Quiet

LEMMA AskComes ==
    ASSUME TablesInv, NEW r \in Requests, Knows(op[r]), Ask(r)
    PROVE  Comes(r)
  <1> DEFINE o == op[r]
             q == [o EXCEPT !.waiting = TRUE, !.got = plan[o.tenant]]
  <1>1. o.tenant \in Tenants /\ o.at \in Lookups /\ plan[o.tenant] \in Plans \cup {"none"}
    BY OfLookup DEF Ask, TablesInv, TypeOK
  <1>2. /\ q \in OpStates /\ q.at = o.at /\ q.kind = o.kind /\ q.got = plan[o.tenant]
        /\ q.email = o.email /\ q.tenant = o.tenant /\ q.ident = o.ident /\ q.event = o.event
    BY <1>1 DEF Knows, OpStates
  <1>3. Knows(q)
    BY <1>1, <1>2 DEF Knows, Registers, SignsIn, Administers, Bills
  <1> QED BY <1>3, QuietComes DEF Ask, Quiet

LEMMA ToldComes ==
    ASSUME TablesInv, NEW r \in Requests, Knows(op[r]), Told(r)
    PROVE  Comes(r)
  <1> DEFINE o == op[r]
  <1>1. /\ o.tenant \in Tenants /\ o.at \in Lookups /\ o.got \in Plans \cup {"none"}
        /\ o.got # "none" => plan[o.tenant] # "none"
    BY OfLookup DEF Told, Knows, OpStates
  <1>2. Knows(AfterLookup(o, o.got))
    BY <1>1, AfterLookups
  <1>3. TablesInv'
    BY <1>1 DEF Told, TablesInv, TypeOK, KeysToMembers, PublishedByMembers, MarkedWasMailed, PaidFor, tables, stripe
  <1>4. Grows
    BY DEF Told, Grows, tables, stripe, PaidFor
  <1> QED BY <1>2, <1>3, <1>4, Remembers DEF Comes, Told, Knows

LEMMA KindAt ==
    ASSUME NEW o, Knows(o), o.at # "idle"
    PROVE  /\ o \in OpStates /\ o.kind # "signedIn" /\ (o.at \in ByEmail => o.email \in Emails)
           /\ o.at \notin {"identity", "byEmail", "create", "link"} => o.kind # "signIn"
  BY DEF Knows, SignsIn

LEMMA ReadComes ==
    ASSUME TablesInv, NEW r \in Requests, Knows(op[r]),
           \/ Authenticate(r) \/ FindLinked(r) \/ FindByEmail(r) \/ Owner(r) \/ Duplicate(r)
           \/ OfSession(r) \/ BySub(r) \/ List(r) \/ Fail(r)
    PROVE  Comes(r)
  <1> SUFFICES \E o : Is(r, o) /\ Knows(o) /\ Quiet
    BY QuietComes
  <1> USE DEF Quiet, At, End, Go
  <1> DEFINE o == op[r]
  <1>1. CASE Authenticate(r)
    <2>1. o.email \in Emails
      BY <1>1, KindAt DEF Authenticate, ByEmail
    <2>2. Is(r, Idle) \/ Is(r, [Idle EXCEPT !.kind = "signedIn", !.email = o.email])
      BY <1>1 DEF Authenticate, Session
    <2> QED BY <1>1, <2>1, <2>2, Arrivals, IdleKnows DEF Authenticate
  <1>2. CASE FindLinked(r)
    <2>1. o.email \in Emails /\ o.kind = "signIn" /\ o.ident \in Identities /\ o.email \in Addresses[o.ident]
      BY <1>2, KindAt DEF FindLinked, ByEmail, Knows, SignsIn
    <2>2. CASE identities[o.ident] # Nobody
      <3>1. identities[o.ident] \in Emails
        BY <2>1, <2>2 DEF TablesInv, TypeOK
      <3> QED BY <1>2, <2>2, <3>1, Arrivals DEF FindLinked, Linked, Session
    <2>3. CASE identities[o.ident] = Nobody
      <3>1. Knows(To(o, "byEmail"))
        BY <2>1, Moves DEF Points, ToTenant, AsMember, OfStripe
      <3> QED BY <1>2, <2>3, <3>1 DEF FindLinked, Linked
    <2> QED BY <2>2, <2>3
  <1>3. CASE FindByEmail(r)
    <2>1. o.email \in Emails /\ o.kind = "signIn" /\ o.ident \in Identities /\ o.email \in Addresses[o.ident]
      BY <1>3, KindAt DEF FindByEmail, ByEmail, Knows, SignsIn
    <2>2. Knows(To(o, "link"))
      BY <2>1, Moves DEF Points, ToTenant, AsMember, OfStripe
    <2>3. Knows(To(o, "create"))
      BY <2>1, Records DEF Knows, Registers, SignsIn, Administers, Bills, Points, ToTenant, AsMember, OfStripe
    <2> QED BY <1>3, <2>2, <2>3 DEF FindByEmail
  <1>4. CASE Owner(r)
    <2>1. /\ o.email \in Emails /\ o.kind \notin {"signIn", "signedIn"}
          /\ o.tenant \in Tenants /\ accounts[o.email].exists
      BY <1>4, KindAt DEF Owner, ByEmail, ToTenant, Knows, Registers
    <2>2. Knows(To(o, "profile"))
      BY <2>1, Moves DEF Points, ToTenant, AsMember, OfStripe
    <2> QED BY <1>4, <2>2, IdleKnows DEF Owner
  <1>5. CASE Duplicate(r)
    <2>1. /\ o.email \in Emails /\ o.kind \notin {"signIn", "signedIn"}
          /\ o.tenant \in Tenants /\ Contains(members[o.email], o.tenant)
      BY <1>5, KindAt DEF Duplicate, ByEmail, AsMember, Knows, Administers
    <2>2. Knows(To(o, "insert"))
      BY <2>1, Moves DEF Points, ToTenant, AsMember, OfStripe
    <2> QED BY <1>5, <2>2, IdleKnows DEF Duplicate
  <1>6. CASE OfSession(r)
    <2> DEFINE t == TenantOf(o.email)
               q == [To(o, "prefix") EXCEPT !.tenant = t]
    <2>1. /\ o.at = "session" /\ o.email \in Emails /\ o.kind \in {"key", "revoke", "publish", "unpublish", "checkout"}
          /\ o \in OpStates
      BY <1>6, KindAt DEF OfSession, ByEmail, Knows, Administers
    <2>2. CASE t # Nobody
      <3>1. members[o.email] \in Seq(Tenants) /\ members[o.email] # <<>>
        BY <2>1, <2>2 DEF TenantOf, TablesInv
      <3>2. t \in Tenants /\ Contains(members[o.email], t)
        BY <3>1, Containing DEF TenantOf
      <3>3. /\ To(o, "prefix") \in OpStates /\ To(o, "prefix").at = "prefix" /\ ~To(o, "prefix").waiting
            /\ To(o, "prefix").kind = o.kind /\ To(o, "prefix").email = o.email
        BY <2>1, Records DEF Points, AsMember
      <3>4. /\ q \in OpStates /\ q.at = "prefix" /\ ~q.waiting
            /\ q.kind = o.kind /\ q.email = o.email /\ q.tenant = t
        BY <3>2, <3>3 DEF OpStates
      <3> HIDE DEF q
      <3>5. Knows(q)
        BY <2>1, <3>2, <3>4
           DEF Knows, Registers, SignsIn, Administers, Bills, Points, ByEmail, ToTenant, AsMember, OfStripe
      <3> QED BY <1>6, <2>2, <3>5 DEF OfSession, q
    <2>3. CASE t = Nobody
      BY <1>6, <2>3, IdleKnows DEF OfSession
    <2> QED BY <2>2, <2>3
  <1>7. CASE BySub(r)
    <2>1. /\ o.at = "bySub" /\ o.event \in Events /\ o.event.type = "changed" /\ o \in OpStates
          /\ o.kind \notin {"signIn", "signedIn"}
      BY <1>7, KindAt DEF BySub, Knows, Bills
    <2>2. o.event.sub \in Subs
      BY <2>1, EventFields
    <2>3. ASSUME NEW t \in Tenants, billing[t] = o.event.sub
          PROVE  Knows([To(o, "setBilling") EXCEPT !.tenant = t])
      <3> DEFINE q == [To(o, "setBilling") EXCEPT !.tenant = t]
      <3>1. /\ To(o, "setBilling") \in OpStates /\ To(o, "setBilling").at = "setBilling"
            /\ ~To(o, "setBilling").waiting /\ To(o, "setBilling").kind = o.kind
            /\ To(o, "setBilling").event = o.event
        BY <2>1, Records DEF Points, OfStripe
      <3>2. /\ q \in OpStates /\ q.at = "setBilling" /\ ~q.waiting
            /\ q.kind = o.kind /\ q.event = o.event /\ q.tenant = t
        BY <3>1 DEF OpStates
      <3> HIDE DEF q
      <3>3. PaidFor(q.event.sub, q.tenant) /\ billing[q.tenant] \in Subs
        BY <2>2, <2>3, <3>2 DEF TablesInv
      <3>4. Knows(q)
        BY <2>1, <3>2, <3>3
           DEF Knows, Registers, SignsIn, Administers, Bills, Points, ByEmail, ToTenant, AsMember, OfStripe
      <3> QED BY <3>4 DEF q
    <2>4. \/ Is(r, Idle)
          \/ \E t \in Tenants : billing[t] = o.event.sub /\ Is(r, [To(o, "setBilling") EXCEPT !.tenant = t])
      BY <1>7 DEF BySub
    <2> QED BY <1>7, <2>3, <2>4, IdleKnows DEF BySub
  <1>8. CASE List(r)
    <2>1. PICK due \in SUBSET {e \in Emails : accounts[e].named /\ ~accounts[e].followed} :
             LET rows == {row \in due \X Tenants : Contains(members[row[1]], row[2])}
             IN  IF rows = {} THEN End(r) ELSE Is(r, [o EXCEPT !.at = "note", !.rows = rows])
      BY <1>8 DEF List
    <2> DEFINE rows == {row \in due \X Tenants : Contains(members[row[1]], row[2])}
               q == [o EXCEPT !.at = "note", !.rows = rows]
    <2>2. o \in OpStates /\ o.kind \notin {"signIn", "signedIn"} /\ ~o.waiting
      BY <1>8, KindAt DEF List, Knows, Lookups
    <2>3. rows \in SUBSET (Emails \X Tenants)
      BY <2>1
    <2> HIDE DEF rows
    <2>4. q \in OpStates /\ q.at = "note" /\ ~q.waiting /\ q.kind = o.kind
      BY <2>2, <2>3 DEF OpStates, Points
    <2> HIDE DEF q
    <2>5. Knows(q)
      BY <2>2, <2>4
         DEF Knows, Registers, SignsIn, Administers, Bills, ByEmail, ToTenant, AsMember, OfStripe
    <2>6. Is(r, Idle) \/ Is(r, q)
      BY <2>1 DEF rows, q
    <2> QED BY <1>8, <2>5, <2>6, IdleKnows DEF List
  <1>9. CASE Fail(r)
    BY <1>9, IdleKnows DEF Fail
  <1> QED BY <1>1, <1>2, <1>3, <1>4, <1>5, <1>6, <1>7, <1>8, <1>9

-----------------------------------------------------------------------------
(* Steps that write.                                                       *)
AccountStates == [exists : BOOLEAN, password : BOOLEAN, named : BOOLEAN, followed : BOOLEAN]

\* One account changes, and keeps what it had.
LEMMA AccountWritten ==
    ASSUME TablesInv, NEW e \in Emails, NEW k \in AccountStates, accounts' = [accounts EXCEPT ![e] = k],
           accounts[e].exists => k.exists, accounts[e].named => k.named, k.named => k.exists,
           k.followed => accounts[e].followed \/ e \in mailed \cup Own,
           UNCHANGED <<members, plan, cache, keys, policies, identities, billing, stripe, mailed>>
    PROVE  TablesInv' /\ Grows
  <1>1. /\ accounts' \in [Emails -> AccountStates] /\ accounts'[e] = k
        /\ \A f \in Emails \ {e} : accounts'[f] = accounts[f]
    BY DEF TablesInv, TypeOK, AccountStates
  <1>2. TypeOK'
    BY <1>1 DEF TablesInv, TypeOK, AccountStates
  <1>3. MarkedWasMailed'
    BY <1>1 DEF TablesInv, MarkedWasMailed
  <1>4. TablesInv'
    BY <1>2, <1>3 DEF TablesInv, KeysToMembers, PublishedByMembers, PaidFor, stripe
  <1>5. Grows
    BY <1>1 DEF Grows, PaidFor, stripe
  <1> QED BY <1>4, <1>5

LEMMA CreateComes ==
    ASSUME TablesInv, NEW r \in Requests, Knows(op[r]), Create(r)
    PROVE  Comes(r)
  <1> DEFINE o == op[r]  e == o.email
             k == [accounts[e] EXCEPT !.exists = TRUE, !.password = o.kind # "signIn"]
  <1>0. /\ o.at = "create" /\ e \in Emails /\ o.kind \in {"register", "registerAll", "signIn"}
        /\ o.kind = "registerAll" => o.tenant \in Tenants
        /\ o.kind = "signIn" => o.ident \in Identities /\ e \in Addresses[o.ident]
    BY KindAt DEF Create, ByEmail, Knows, Registers, SignsIn
  <1>1. CASE accounts[e].exists
    BY <1>1, IdleKnows, QuietComes DEF Create, End, Quiet, tables, stripe
  <1>2. CASE ~accounts[e].exists
    <2>1. accounts[e] \in AccountStates
      BY <1>0 DEF TablesInv, TypeOK, AccountStates
    <2>2. /\ k \in AccountStates /\ k.exists /\ k.named = accounts[e].named
          /\ k.followed = accounts[e].followed
      BY <2>1 DEF AccountStates
    <2>3. accounts' = [accounts EXCEPT ![e] = k]
      BY <1>2 DEF Create
    <2> HIDE DEF k
    <2>4. TablesInv' /\ Grows
      BY <1>0, <2>2, <2>3, AccountWritten DEF Create
    <2>5. accounts'[e].exists
      BY <1>0, <2>2, <2>3 DEF TablesInv, TypeOK
    <2>6. CASE o.kind = "register"
      BY <1>2, <2>4, <2>6, IdleKnows, Remembers, Records DEF Create, End, Comes
    <2>7. CASE o.kind = "registerAll"
      <3>1. PICK q \in OpStates : /\ q = To(o, "owner") /\ q.at = "owner" /\ ~q.waiting
                                  /\ q.kind = o.kind /\ q.email = e /\ q.tenant = o.tenant
        BY Records DEF Knows, Points, ToTenant
      <3>2. Knows(q)'
        BY <1>0, <2>5, <2>7, <3>1
           DEF Knows, Registers, SignsIn, Administers, Bills, ByEmail, ToTenant, AsMember, OfStripe
      <3> QED BY <1>2, <2>4, <2>7, <3>1, <3>2 DEF Create, Go, Comes
    <2>8. CASE o.kind = "signIn"
      <3>1. Knows(To(o, "link"))
        BY <1>0, <2>8, Moves DEF Points, ToTenant, AsMember, OfStripe
      <3>2. To(o, "link") \in OpStates
        BY <3>1 DEF Knows
      <3> QED BY <1>2, <2>4, <2>8, <3>1, <3>2, Remembers DEF Create, Go, Comes
    <2> QED BY <1>0, <2>6, <2>7, <2>8
  <1> QED BY <1>1, <1>2

LEMMA LinkComes ==
    ASSUME TablesInv, NEW r \in Requests, Knows(op[r]), Link(r)
    PROVE  Comes(r)
  <1> DEFINE o == op[r]  q == [Idle EXCEPT !.kind = "signedIn", !.email = o.email]
  <1>1. o.email \in Emails /\ o.ident \in Identities /\ o.email \in Addresses[o.ident]
    BY KindAt DEF Link, At, ByEmail, Knows, SignsIn
  <1>2. identities' \in [Identities -> Emails \cup {Nobody}]
    BY <1>1 DEF Link, TablesInv, TypeOK
  <1>3. \A i \in Identities : identities'[i] \in Addresses[i] \cup {Nobody}
    BY <1>1 DEF Link, TablesInv, TypeOK
  <1>4. TablesInv'
    BY <1>2, <1>3 DEF Link, TablesInv, TypeOK, KeysToMembers, PublishedByMembers, MarkedWasMailed, PaidFor, stripe
  <1>5. Grows
    BY DEF Link, Grows, PaidFor, stripe
  <1>6. Knows(q) /\ q \in OpStates
    BY <1>1, Arrivals DEF Knows
  <1> QED BY <1>4, <1>5, <1>6, Remembers DEF Link, Session, Comes

LEMMA UpdateProfileComes ==
    ASSUME TablesInv, NEW r \in Requests, Knows(op[r]), UpdateProfile(r)
    PROVE  Comes(r)
  <1> DEFINE o == op[r]  e == o.email  k == [accounts[e] EXCEPT !.named = TRUE]
  <1>1. /\ o.at = "profile" /\ e \in Emails /\ o.tenant \in Tenants /\ accounts[e].exists
        /\ o.kind \notin {"signIn", "signedIn"}
    BY KindAt DEF UpdateProfile, At, ByEmail, ToTenant, Knows, Registers
  <1>2. accounts[e] \in AccountStates
    BY <1>1 DEF TablesInv, TypeOK, AccountStates
  <1>3. /\ k \in AccountStates /\ k.exists = accounts[e].exists /\ k.named /\ k.followed = accounts[e].followed
    BY <1>2 DEF AccountStates
  <1>4. accounts' = [accounts EXCEPT ![e] = k]
    BY DEF UpdateProfile
  <1> HIDE DEF k
  <1>5. TablesInv' /\ Grows
    BY <1>1, <1>3, <1>4, AccountWritten DEF UpdateProfile
  <1>6. accounts'[e].exists /\ accounts'[e].named
    BY <1>1, <1>3, <1>4 DEF TablesInv, TypeOK
  <1>7. PICK q \in OpStates : /\ q = To(o, "addTenant") /\ q.at = "addTenant" /\ ~q.waiting
                              /\ q.kind = o.kind /\ q.email = e /\ q.tenant = o.tenant
    BY Records DEF Knows, Points, ToTenant
  <1>8. Knows(q)'
    BY <1>1, <1>6, <1>7 DEF Knows, Registers, SignsIn, Administers, Bills, ByEmail, ToTenant, AsMember, OfStripe
  <1> QED BY <1>5, <1>7, <1>8 DEF UpdateProfile, Go, Comes

\* A tenant's row changes and is forgotten here; or another process writes it.
LEMMA PlanWritten ==
    ASSUME TablesInv, NEW t \in Tenants, NEW p \in Plans, plan' = [plan EXCEPT ![t] = p],
           cache' = cache \/ cache' = [cache EXCEPT ![t] = "unknown"],
           UNCHANGED <<tables, billing, stripe>>
    PROVE  TablesInv' /\ Grows
  <1>1. /\ plan' \in [Tenants -> Plans \cup {"none"}] /\ cache' \in [Tenants -> Plans \cup {"none", "unknown"}]
        /\ \A u \in Tenants : /\ plan[u] # "none" => plan'[u] # "none"
                              /\ cache'[u] \in {cache[u], "unknown"}
    BY DEF TablesInv, TypeOK, Plans
  <1>2. TablesInv'
    BY <1>1 DEF TablesInv, TypeOK, KeysToMembers, PublishedByMembers, MarkedWasMailed, PaidFor, tables, stripe
  <1>3. Grows
    BY <1>1 DEF Grows, PaidFor, tables, stripe
  <1> QED BY <1>2, <1>3

LEMMA AddTenantComes ==
    ASSUME TablesInv, NEW r \in Requests, Knows(op[r]), AddTenant(r)
    PROVE  Comes(r)
  <1> DEFINE o == op[r]  t == o.tenant  p == IF plan[t] = "none" THEN "free" ELSE plan[t]
  <1>1. /\ o.at = "addTenant" /\ o.email \in Emails /\ t \in Tenants /\ accounts[o.email].named
        /\ accounts[o.email].exists /\ o.kind \notin {"signIn", "signedIn"}
    BY KindAt DEF AddTenant, At, ByEmail, ToTenant, Knows, Registers
  <1>2. p \in Plans /\ plan' = [plan EXCEPT ![t] = p]
    BY <1>1 DEF AddTenant, TablesInv, TypeOK, Plans
  <1>3. TablesInv' /\ Grows
    BY <1>1, <1>2, PlanWritten DEF AddTenant
  <1>4. Knows(To(o, "addMember"))
    BY <1>1, Moves DEF Points, ToTenant, AsMember, OfStripe
  <1> QED BY <1>3, <1>4, Remembers DEF AddTenant, Go, Comes, Knows

LEMMA AddMemberComes ==
    ASSUME TablesInv, NEW r \in Requests, Knows(op[r]), AddMember(r)
    PROVE  Comes(r)
  <1> DEFINE o == op[r]  e == o.email  t == o.tenant
             m == IF Contains(members[e], t) THEN members[e] ELSE Append(members[e], t)
  <1>1. /\ o.at = "addMember" /\ e \in Emails /\ t \in Tenants /\ accounts[e].named
        /\ o.kind \notin {"signIn", "signedIn"}
    BY KindAt DEF AddMember, At, ByEmail, ToTenant, Knows, Registers
  <1>2. members[e] \in Seq(Tenants)
    BY <1>1 DEF TablesInv
  <1>3. m \in Seq(Tenants) /\ Contains(m, t) /\ \A u : Contains(members[e], u) => Contains(m, u)
    BY <1>1, <1>2, Containing
  <1>4. members' = [members EXCEPT ![e] = m]
    BY DEF AddMember
  <1> HIDE DEF m
  <1>5. /\ members' \in [Emails -> Seq(Tenants)] /\ members'[e] = m
        /\ \A f \in Emails : f # e => members'[f] = members[f]
    BY <1>1, <1>3, <1>4 DEF TablesInv
  <1>6. \A f \in Emails : \A u : Contains(members[f], u) => Contains(members'[f], u)
    BY <1>3, <1>5
  <1>7. TypeOK'
    BY <1>1, <1>5 DEF AddMember, TablesInv, TypeOK
  <1>8. KeysToMembers'
    <2>1. \A k \in keys : k[1] \in Tenants /\ k[2] \in Emails
      BY DEF TablesInv, TypeOK
    <2> QED BY <1>6, <2>1 DEF AddMember, TablesInv, KeysToMembers
  <1>9. PublishedByMembers'
    <2>1. \A i \in DOMAIN policies : policies[i] \in Tenants \X Emails
      BY DEF TablesInv
    <2> QED BY <1>6, <2>1 DEF AddMember, TablesInv, PublishedByMembers
  <1>10. TablesInv'
    BY <1>5, <1>7, <1>8, <1>9 DEF AddMember, TablesInv, MarkedWasMailed, PaidFor, stripe
  <1>11. Grows
    BY <1>6 DEF AddMember, Grows, PaidFor, stripe
  <1>12. PICK q \in OpStates : /\ q = To(o, "keyLookup") /\ q.at = "keyLookup" /\ ~q.waiting
                               /\ q.kind = o.kind /\ q.email = e /\ q.tenant = t
    BY Records DEF Knows, Points, AsMember
  <1>13. Knows(q)'
    BY <1>1, <1>3, <1>5, <1>12
       DEF Knows, Registers, SignsIn, Administers, Bills, ByEmail, ToTenant, AsMember, OfStripe
  <1> QED BY <1>10, <1>11, <1>12, <1>13 DEF AddMember, Go, Comes

LEMMA EndComes ==
    ASSUME NEW r, End(r), TablesInv', Grows
    PROVE  Comes(r)
  BY IdleKnows, Remembers, Records DEF End, Comes

LEMMA KeyComes ==
    ASSUME TablesInv, NEW r \in Requests, Knows(op[r]), Mint(r) \/ Revoke(r)
    PROVE  Comes(r)
  <1> DEFINE o == op[r]
  <1>1. CASE Mint(r)
    <2>1. /\ o.email \in Emails /\ o.tenant \in Tenants /\ Contains(members[o.email], o.tenant)
          /\ plan[o.tenant] # "none"
      BY <1>1, KindAt DEF Mint, At, ByEmail, AsMember, Knows, Administers
    <2>2. TypeOK'
      BY <1>1, <2>1 DEF Mint, TablesInv, TypeOK
    <2>3. KeysToMembers'
      BY <1>1, <2>1 DEF Mint, TablesInv, KeysToMembers
    <2>4. TablesInv'
      BY <1>1, <2>2, <2>3 DEF Mint, TablesInv, PublishedByMembers, MarkedWasMailed, PaidFor, stripe
    <2>5. Grows
      BY <1>1 DEF Mint, Grows, PaidFor, stripe
    <2> QED BY <1>1, <2>4, <2>5, EndComes DEF Mint
  <1>2. CASE Revoke(r)
    <2>1. keys' \subseteq keys
      BY <1>2 DEF Revoke
    <2>2. TypeOK'
      BY <1>2, <2>1 DEF Revoke, TablesInv, TypeOK
    <2>3. KeysToMembers'
      BY <1>2, <2>1 DEF Revoke, TablesInv, KeysToMembers
    <2>4. TablesInv'
      BY <1>2, <2>2, <2>3 DEF Revoke, TablesInv, PublishedByMembers, MarkedWasMailed, PaidFor, stripe
    <2>5. Grows
      BY <1>2 DEF Revoke, Grows, PaidFor, stripe
    <2> QED BY <1>2, <2>4, <2>5, EndComes DEF Revoke
  <1> QED BY <1>1, <1>2

LEMMA PolicyComes ==
    ASSUME TablesInv, NEW r \in Requests, Knows(op[r]), Insert(r) \/ Unpublish(r)
    PROVE  Comes(r)
  <1> DEFINE o == op[r]
  <1>1. policies \in Seq(Tenants \X Emails)
    BY DEF TablesInv
  <1>2. policies' \in Seq(Tenants \X Emails) /\ PublishedByMembers'
    <2>1. CASE Insert(r)
      <3>1. /\ o.email \in Emails /\ o.tenant \in Tenants /\ Contains(members[o.email], o.tenant)
        BY <2>1, KindAt DEF Insert, At, ByEmail, AsMember, Knows, Administers
      <3>a. <<o.tenant, o.email>> \in Tenants \X Emails
        BY <3>1
      <3>2. PICK p \in Tenants \X Emails : p = <<o.tenant, o.email>>
        BY <3>a
      <3>3. /\ Append(policies, p) \in Seq(Tenants \X Emails)
            /\ \A i \in DOMAIN Append(policies, p) : Append(policies, p)[i] = p \/ (i \in DOMAIN policies /\ Append(policies, p)[i] = policies[i])
        BY <1>1
      <3>4. policies' = Append(policies, p) /\ members' = members
        BY <2>1, <3>2 DEF Insert
      <3> QED BY <3>1, <3>2, <3>3, <3>4 DEF TablesInv, PublishedByMembers
    <2>2. CASE Unpublish(r)
      <3>1. \/ policies' = policies
            \/ \E i \in DOMAIN policies : policies' = RemoveAt(policies, i)
        BY <2>2 DEF Unpublish
      <3>2. /\ policies' \in Seq(Tenants \X Emails)
            /\ \A i \in DOMAIN policies' : \E k \in DOMAIN policies : policies'[i] = policies[k]
        BY <1>1, <3>1, Removing
      <3> QED BY <2>2, <3>2 DEF Unpublish, TablesInv, PublishedByMembers
    <2> QED BY <2>1, <2>2
  <1>a. UNCHANGED <<accounts, members, keys, plan, cache, identities, billing, stripe, mailed, left>>
    BY DEF Insert, Unpublish
  <1>b. TypeOK'
    BY <1>a DEF TablesInv, TypeOK, stripe
  <1>3. TablesInv' /\ Grows
    <2>1. TablesInv'
      BY <1>2, <1>a, <1>b DEF TablesInv, KeysToMembers, MarkedWasMailed, PaidFor, stripe
    <2>2. Grows
      BY <1>a DEF Grows, PaidFor, stripe
    <2> QED BY <2>1, <2>2
  <1> QED BY <1>3, EndComes DEF Insert, Unpublish

LEMMA OfferComes ==
    ASSUME TablesInv, NEW r \in Requests, Knows(op[r]), Offer(r)
    PROVE  Comes(r)
  <1>1. op[r].tenant \in Tenants
    BY DEF Offer, At, AsMember, Knows, Administers
  <1>2. TablesInv' /\ Grows
    BY <1>1 DEF Offer, TablesInv, TypeOK, KeysToMembers, PublishedByMembers, MarkedWasMailed, PaidFor, tables, Grows
  <1> QED BY <1>2, EndComes DEF Offer

LEMMA SetBillingComes ==
    ASSUME TablesInv, NEW r \in Requests, Knows(op[r]), SetBilling(r)
    PROVE  Comes(r)
  <1> DEFINE o == op[r]  t == o.tenant
             at == IF o.event.type = "completed" THEN "setPlan" ELSE "current"
  <1>1. /\ o.at = "setBilling" /\ o.event \in Events /\ PaidFor(o.event.sub, t) /\ o.kind \notin {"signIn", "signedIn"}
        /\ o.event.type # "completed" => billing[t] \in Subs
    BY KindAt DEF SetBilling, Knows, Bills, OfStripe
  <1>2. t \in Tenants /\ o.event.sub \in Subs
    BY <1>1 DEF PaidFor
  <1>3. billing \in [Tenants -> Subs \cup {NoSub}]
    BY DEF TablesInv, TypeOK
  <1>4. /\ billing' \in [Tenants -> Subs \cup {NoSub}] /\ billing'[t] \in Subs
        /\ \A u \in Tenants : billing'[u] = billing[u] \/ (u = t /\ billing'[u] = o.event.sub)
    BY <1>1, <1>2, <1>3 DEF SetBilling, BilledTo
  <1>5. \A u \in Tenants : billing[u] \in Subs => billing'[u] \in Subs
    BY <1>2, <1>4
  <1>6. \A u \in Tenants : billing'[u] \in Subs => PaidFor(billing'[u], u)
    BY <1>1, <1>4 DEF TablesInv
  <1>7. TablesInv'
    BY <1>4, <1>6 DEF SetBilling, TablesInv, TypeOK, KeysToMembers, PublishedByMembers, MarkedWasMailed, PaidFor, tables, stripe
  <1>8. Grows
    BY <1>5 DEF SetBilling, Grows, tables, stripe, PaidFor
  <1>9. PICK q \in OpStates : /\ q = To(o, at) /\ q.at \in {"setPlan", "current"} /\ ~q.waiting
                              /\ q.kind = o.kind /\ q.tenant = t /\ q.event = o.event
    BY Records DEF Knows, Points, OfStripe
  <1>10. Knows(q)'
    BY <1>1, <1>2, <1>4, <1>8, <1>9
       DEF Grows, Knows, Registers, SignsIn, Administers, Bills, ByEmail, ToTenant, AsMember, OfStripe
  <1> QED BY <1>7, <1>8, <1>9, <1>10 DEF SetBilling, Go, Comes

LEMMA SetPlanComes ==
    ASSUME TablesInv, NEW r \in Requests, Knows(op[r]), SetPlan(r)
    PROVE  Comes(r)
  <1> DEFINE o == op[r]  t == o.tenant
             p == IF o.event.type = "completed" THEN "team" ELSE PlanOf(o.event.status)
  <1>1. t \in Tenants /\ p \in Plans
    BY DEF SetPlan, Knows, Bills, PaidFor, OfStripe, PlanOf, Plans
  <1>2. CASE plan[t] = "none"
    BY <1>2, IdleKnows, QuietComes DEF SetPlan, End, Quiet
  <1>3. CASE plan[t] # "none"
    <2>1. plan' = [plan EXCEPT ![t] = p] /\ cache' = [cache EXCEPT ![t] = "unknown"]
      BY <1>3 DEF SetPlan
    <2>2. TablesInv' /\ Grows
      BY <1>1, <2>1, PlanWritten DEF SetPlan
    <2> QED BY <2>2, EndComes DEF SetPlan
  <1> QED BY <1>2, <1>3

\* The rest of the rows, or the end of the run.
LEMMA WithoutKnows ==
    ASSUME NEW o \in OpStates, NEW row, o.kind \notin {"signIn", "signedIn"}, ~o.waiting
    PROVE  Knows(Without(o, row))
  <1> DEFINE q == [o EXCEPT !.at = "note", !.email = Nobody, !.rows = @ \ {row}]
  <1>1. q \in OpStates /\ q.at = "note" /\ ~q.waiting /\ q.kind = o.kind
    BY DEF OpStates, Points
  <1> HIDE DEF q
  <1>2. Knows(q)
    BY <1>1 DEF Knows, Registers, SignsIn, Administers, Bills, ByEmail, ToTenant, AsMember, OfStripe
  <1> QED BY <1>2, IdleKnows DEF Without, q

LEMMA NoteComes ==
    ASSUME TablesInv, NEW r \in Requests, Knows(op[r]), NEW row \in Emails \X Tenants, Note(r, row)
    PROVE  Comes(r)
  <1> DEFINE o == op[r]  marking == [o EXCEPT !.at = "mark", !.email = row[1], !.tenant = row[2]]
  <1>1. o \in OpStates /\ o.kind \notin {"signIn", "signedIn"} /\ ~o.waiting
    BY KindAt DEF Note, Knows, Lookups
  <1>2. row[1] \in Emails /\ row[2] \in Tenants
    OBVIOUS
  <1>3. mailed \subseteq mailed' /\ UNCHANGED <<accounts, members, keys, policies, identities, plan, cache, billing, stripe>>
    BY DEF Note, DeliverMail
  <1>4. TablesInv' /\ Grows
    BY <1>3 DEF TablesInv, TypeOK, KeysToMembers, PublishedByMembers, MarkedWasMailed, PaidFor, stripe, Grows
  <1>a. /\ marking \in OpStates /\ marking.at = "mark" /\ ~marking.waiting /\ marking.kind = o.kind
        /\ marking.email = row[1] /\ marking.tenant = row[2]
    BY <1>1, <1>2 DEF OpStates, Points
  <1>5. PICK q \in OpStates : /\ q = marking /\ q.at = "mark" /\ ~q.waiting /\ q.kind = o.kind
                              /\ q.email = row[1] /\ q.tenant = row[2]
    BY <1>a
  <1>6. \/ Is(r, marking) /\ row[1] \in mailed' \cup Own
        \/ Is(r, Without(o, row))
    BY DEF Note, DeliverMail
  <1>7. CASE Is(r, marking) /\ row[1] \in mailed' \cup Own
    <2>1. Knows(q)'
      BY <1>1, <1>2, <1>5, <1>7
         DEF Knows, Registers, SignsIn, Administers, Bills, ByEmail, ToTenant, AsMember, OfStripe
    <2> QED BY <1>4, <1>5, <1>7, <2>1 DEF Comes
  <1>8. CASE Is(r, Without(o, row))
    <2>1. Knows(Without(o, row)) /\ Without(o, row) \in OpStates
      BY <1>1, WithoutKnows DEF Knows
    <2> QED BY <1>4, <1>8, <2>1, Remembers DEF Comes
  <1> QED BY <1>6, <1>7, <1>8

LEMMA MarkComes ==
    ASSUME TablesInv, NEW r \in Requests, Knows(op[r]), Mark(r)
    PROVE  Comes(r)
  <1> DEFINE o == op[r]  e == o.email  k == [accounts[e] EXCEPT !.followed = TRUE]
             p == [o EXCEPT !.tenant = Nobody]
  <1>1. /\ o \in OpStates /\ o.kind \notin {"signIn", "signedIn"} /\ ~o.waiting
        /\ e \in Emails /\ e \in mailed \cup Own
    BY KindAt DEF Mark, Knows, Lookups, ByEmail, Administers
  <1>2. accounts[e] \in AccountStates
    BY <1>1 DEF TablesInv, TypeOK, AccountStates
  <1>3. k \in AccountStates /\ k.exists = accounts[e].exists /\ k.named = accounts[e].named
    BY <1>2 DEF AccountStates
  <1>4. accounts' = [accounts EXCEPT ![e] = k]
    BY DEF Mark
  <1> HIDE DEF k
  <1>5. accounts[e].named => accounts[e].exists
    BY <1>1 DEF TablesInv, TypeOK
  <1>6. TablesInv' /\ Grows
    BY <1>1, <1>3, <1>4, <1>5, AccountWritten DEF Mark
  <1>7. p \in OpStates /\ p.kind = o.kind /\ ~p.waiting
    BY <1>1 DEF OpStates
  <1> HIDE DEF p
  <1>8. Knows(Without(p, <<e, o.tenant>>)) /\ Without(p, <<e, o.tenant>>) \in OpStates
    BY <1>1, <1>7, WithoutKnows DEF Knows
  <1>9. Is(r, Without(p, <<e, o.tenant>>))
    BY DEF Mark, p
  <1> QED BY <1>6, <1>8, <1>9, Remembers DEF Comes

\* What happens beside the portal: a cached answer expires, the operator, and Stripe.
LEMMA BesideGrows ==
    ASSUME TablesInv,
           \/ \E t \in Tenants : Expire(t) \/ \E p \in Plans : Administer(t, p)
           \/ \E s \in Subs : \/ \E t \in Tenants : Pay(t, s)
                              \/ \E status \in {"active", "unpaid", "canceled"} : ChangeSub(s, status)
    PROVE  TablesInv' /\ Grows /\ op' = op
  <1>1. ASSUME NEW t \in Tenants, Expire(t) PROVE TablesInv' /\ Grows /\ op' = op
    <2>1. /\ cache' \in [Tenants -> Plans \cup {"none", "unknown"}]
          /\ \A u \in Tenants : cache'[u] \in {cache[u], "unknown"}
      BY <1>1 DEF Expire, TablesInv, TypeOK
    <2> QED BY <1>1, <2>1 DEF Expire, TablesInv, TypeOK, KeysToMembers, PublishedByMembers, MarkedWasMailed, PaidFor, tables,
                              stripe, Grows
  <1>2. ASSUME NEW t \in Tenants, NEW p \in Plans, Administer(t, p) PROVE TablesInv' /\ Grows /\ op' = op
    BY <1>2, PlanWritten DEF Administer
  <1>3. ASSUME NEW s \in Subs, NEW t \in Tenants, Pay(t, s) PROVE TablesInv' /\ Grows /\ op' = op
    <2>1. /\ subs' \in [Subs -> [tenant : Tenants \cup {Nobody}, status : Statuses]]
          /\ subs'[s].tenant = t /\ subs'[s].status = "active" /\ subs[s].status = "none"
          /\ \A u \in Subs : u # s => subs'[u] = subs[u]
      BY <1>3 DEF Pay, TablesInv, Statuses
    <2>2. PaidFor(s, t)' /\ \A u \in Subs, v \in Tenants : PaidFor(u, v) => PaidFor(u, v)'
      BY <2>1 DEF PaidFor
    <2>3. events' \subseteq Events /\ \A e \in events' : e \in events \/ e = Completed(t, s)
      BY <1>3, EventFields DEF Pay, TablesInv
    <2>4. \A e \in events' : e.type = "completed" => PaidFor(e.sub, e.tenant)'
      <3> SUFFICES ASSUME NEW e \in events', e.type = "completed" PROVE PaidFor(e.sub, e.tenant)'
        OBVIOUS
      <3>1. CASE e = Completed(t, s)
        BY <2>2, <3>1, EventFields
      <3>2. CASE e \in events
        <4>1. PaidFor(e.sub, e.tenant) /\ e.sub \in Subs /\ e.tenant \in Tenants
          BY <3>2 DEF TablesInv, PaidFor
        <4> QED BY <2>2, <4>1
      <3> QED BY <2>3, <3>1, <3>2
    <2>5. \A u \in Tenants : billing[u] \in Subs => PaidFor(billing[u], u)'
      BY <1>3, <2>2 DEF Pay, TablesInv
    <2>6. TablesInv'
      BY <1>3, <2>1, <2>3, <2>4, <2>5 DEF Pay, TablesInv, TypeOK, KeysToMembers, PublishedByMembers, MarkedWasMailed, tables
    <2> QED BY <1>3, <2>2, <2>6 DEF Pay, Grows, tables
  <1>4. ASSUME NEW s \in Subs, NEW status \in {"active", "unpaid", "canceled"}, ChangeSub(s, status)
        PROVE  TablesInv' /\ Grows /\ op' = op
    <2>1. /\ subs' \in [Subs -> [tenant : Tenants \cup {Nobody}, status : Statuses]]
          /\ \A u \in Subs : /\ subs'[u].tenant = subs[u].tenant
                             /\ subs[u].status # "none" => subs'[u].status # "none"
      BY <1>4 DEF ChangeSub, TablesInv, Statuses
    <2>2. \A u \in Subs, v \in Tenants : PaidFor(u, v) => PaidFor(u, v)'
      BY <2>1 DEF PaidFor
    <2>3. events' \subseteq Events /\ \A e \in events' : e \in events \/ e.type = "changed"
      BY <1>4, EventFields DEF ChangeSub, TablesInv, Statuses
    <2>4. \A e \in events' : e.type = "completed" => PaidFor(e.sub, e.tenant)'
      <3> SUFFICES ASSUME NEW e \in events', e.type = "completed" PROVE PaidFor(e.sub, e.tenant)'
        OBVIOUS
      <3>1. PaidFor(e.sub, e.tenant) /\ e.sub \in Subs /\ e.tenant \in Tenants
        BY <2>3 DEF TablesInv, PaidFor
      <3> QED BY <2>2, <3>1
    <2>5. \A u \in Tenants : billing[u] \in Subs => PaidFor(billing[u], u)'
      BY <1>4, <2>2 DEF ChangeSub, TablesInv
    <2>6. TablesInv'
      BY <1>4, <2>1, <2>3, <2>4, <2>5 DEF ChangeSub, TablesInv, TypeOK, KeysToMembers, PublishedByMembers, MarkedWasMailed, tables
    <2> QED BY <1>4, <2>2, <2>6 DEF ChangeSub, Grows, tables
  <1> QED BY <1>1, <1>2, <1>3, <1>4

-----------------------------------------------------------------------------
LEMMA StepComes ==
    ASSUME TablesInv, NEW r \in Requests, Knows(op[r]), Arrive(r) \/ Step(r)
    PROVE  Comes(r)
  BY ArriveComes, CachedComes, AskComes, ToldComes, ReadComes, CreateComes, LinkComes, UpdateProfileComes,
     AddTenantComes, AddMemberComes, KeyComes, PolicyComes, OfferComes, SetBillingComes, SetPlanComes,
     NoteComes, MarkComes DEF Step

LEMMA PortalInvInit == Init => PortalInv
  <1> SUFFICES ASSUME Init PROVE PortalInv
    OBVIOUS
  <1>0. PICK e \in Emails, t \in Tenants, s \in Subs, start \in {"empty", "free", "team"} :
          LET Some(domain, x, v, other) ==
                  [y \in domain |-> IF y = x /\ start # "empty" THEN v ELSE other]
          IN  /\ accounts = Some(Emails, e, Named, NoAccount)
              /\ members = Some(Emails, e, <<t>>, <<>>)
              /\ plan = Some(Tenants, t, start, "none")
              /\ keys = IF start = "empty" THEN {} ELSE {<<t, e>>}
              /\ policies = <<>>
              /\ billing = [u \in Tenants |-> IF u = t /\ start = "team" THEN s ELSE NoSub]
              /\ subs = [u \in Subs |-> IF u = s /\ start = "team" THEN [tenant |-> t, status |-> "active"]
                                        ELSE [tenant |-> Nobody, status |-> "none"]]
              /\ events = IF start = "team" THEN {Completed(t, s)} ELSE {}
              /\ cache = [u \in Tenants |-> "unknown"]
              /\ identities = [i \in Identities |-> Nobody]
              /\ offered = {} /\ mailed = {}
              /\ op = [r \in Requests |-> Idle] /\ left = MaxRequests
    BY Zenon DEF Init
  <1>1. /\ accounts = [y \in Emails |-> IF y = e /\ start # "empty" THEN Named ELSE NoAccount]
        /\ members = [y \in Emails |-> IF y = e /\ start # "empty" THEN <<t>> ELSE <<>>]
        /\ plan = [y \in Tenants |-> IF y = t /\ start # "empty" THEN start ELSE "none"]
        /\ keys = IF start = "empty" THEN {} ELSE {<<t, e>>}
        /\ policies = <<>>
        /\ billing = [u \in Tenants |-> IF u = t /\ start = "team" THEN s ELSE NoSub]
        /\ subs = [u \in Subs |-> IF u = s /\ start = "team" THEN [tenant |-> t, status |-> "active"]
                                  ELSE [tenant |-> Nobody, status |-> "none"]]
        /\ events = IF start = "team" THEN {Completed(t, s)} ELSE {}
        /\ cache = [u \in Tenants |-> "unknown"]
        /\ identities = [i \in Identities |-> Nobody]
        /\ offered = {} /\ mailed = {}
        /\ op = [r \in Requests |-> Idle]
    BY <1>0, Zenon
  <1>2. /\ accounts \in [Emails -> AccountStates]
        /\ \A f \in Emails : ~accounts[f].followed /\ (accounts[f].named => accounts[f].exists)
    BY <1>1 DEF AccountStates, Named, NoAccount
  <1>3. /\ members \in [Emails -> Seq(Tenants)] /\ policies \in Seq(Tenants \X Emails)
        /\ \A f \in Emails : members[f] # <<>> => accounts[f].named
    BY <1>1 DEF Named
  <1>4. /\ plan \in [Tenants -> Plans \cup {"none"}] /\ cache \in [Tenants -> Plans \cup {"none", "unknown"}]
        /\ keys \subseteq Tenants \X Emails
        /\ identities \in [Identities -> Emails \cup {Nobody}] /\ billing \in [Tenants -> Subs \cup {NoSub}]
    BY <1>1 DEF Plans
  <1>5. TypeOK
    BY <1>2, <1>3, <1>4 DEF TypeOK, AccountStates
  <1>6. KeysToMembers
    <2>1. CASE start = "empty"
      BY <1>1, <2>1 DEF KeysToMembers
    <2>2. CASE start # "empty"
      <3>1. members[e] = <<t>> /\ plan[t] = start
        BY <1>1, <2>2
      <3>2. Contains(<<t>>, t)
        BY DEF Contains
      <3> QED BY <1>1, <2>2, <3>1, <3>2 DEF KeysToMembers
    <2> QED BY <2>1, <2>2
  <1>7. /\ subs \in [Subs -> [tenant : Tenants \cup {Nobody}, status : Statuses]]
        /\ start = "team" => PaidFor(s, t)
    BY <1>1 DEF Statuses, PaidFor
  <1>8. events \subseteq Events /\ \A x \in events : x.type = "completed" => PaidFor(x.sub, x.tenant)
    BY <1>1, <1>7, EventFields
  <1>9. \A u \in Tenants : billing[u] \in Subs => PaidFor(billing[u], u)
    BY <1>1, <1>7, PortalAssumption DEF NoSub
  <1>10. TablesInv
    BY <1>1, <1>2, <1>3, <1>5, <1>6, <1>7, <1>8, <1>9 DEF TablesInv, PublishedByMembers, MarkedWasMailed
  <1> QED BY <1>1, <1>10, Records, IdleKnows DEF PortalInv

LEMMA PortalInvNext == PortalInv /\ [Next]_vars => PortalInv'
  <1> SUFFICES ASSUME PortalInv, [Next]_vars PROVE PortalInv'
    OBVIOUS
  <1>1. ASSUME NEW r \in Requests, Arrive(r) \/ Step(r) PROVE PortalInv'
    <2>1. Comes(r)
      BY <1>1, StepComes DEF PortalInv
    <2>2. PICK q \in OpStates : op' = [op EXCEPT ![r] = q] /\ Knows(q)'
      BY <2>1 DEF Comes, Is
    <2>3. op' \in [Requests -> OpStates] /\ op'[r] = q /\ \A b \in Requests : b # r => op'[b] = op[b]
      BY <2>2 DEF PortalInv
    <2>4. \A b \in Requests : b # r => Knows(op[b])'
      <3> SUFFICES ASSUME NEW b \in Requests, b # r PROVE Knows(op[b])'
        OBVIOUS
      <3>1. PICK o : o = op[b]
        OBVIOUS
      <3>2. Knows(o)'
        BY <2>1, <3>1, Remembers DEF PortalInv, Comes
      <3> QED BY <2>3, <3>1, <3>2
    <2>5. Knows(op[r])'
      BY <2>2, <2>3
    <2> QED BY <2>1, <2>3, <2>4, <2>5 DEF PortalInv, Comes
  <1>2. ASSUME TablesInv', Grows, op' = op PROVE PortalInv'
    <2> SUFFICES ASSUME NEW b \in Requests PROVE Knows(op[b])'
      BY <1>2 DEF PortalInv
    <2>1. PICK o : o = op[b]
      OBVIOUS
    <2>2. Knows(o)'
      BY <1>2, <2>1, Remembers DEF PortalInv
    <2> QED BY <1>2, <2>1, <2>2
  <1>3. CASE UNCHANGED vars
    <2>1. TablesInv'
      BY <1>3 DEF PortalInv, TablesInv, TypeOK, KeysToMembers, PublishedByMembers, MarkedWasMailed, PaidFor, vars, tables, stripe
    <2>2. Grows /\ op' = op
      BY <1>3 DEF Grows, PaidFor, vars, tables, stripe
    <2> QED BY <1>2, <2>1, <2>2
  <1> QED BY <1>1, <1>2, <1>3, BesideGrows DEF Next, PortalInv

-----------------------------------------------------------------------------
(* Theorems.                                                               *)
LEMMA PortalInvariant == Spec => []PortalInv
  BY PortalInvInit, PortalInvNext, PTL DEF Spec

(***************************************************************************)
(* Wherever a request or the job stopped, and whoever else is registering: *)
(* every key and every published policy is of an account that is a member  *)
(* of the tenant, and an account marked as followed up had its note        *)
(* accepted (onboard, addPolicy, sendFollowUps).                           *)
(***************************************************************************)
THEOREM TablesAgree == Spec => []AccountsAgree
  <1>1. PortalInv => AccountsAgree
    BY DEF PortalInv, TablesInv, AccountsAgree
  <1> QED BY <1>1, PortalInvariant, PTL

(***************************************************************************)
(* The webhook moves a tenant to the team plan only for a subscription     *)
(* that a checkout of this tenant made, and only once its billing row      *)
(* names one, whatever the order of Stripe's events (handleStripeEvent).   *)
(***************************************************************************)
THEOREM TeamIsPaid == Spec => TeamWasPaid
  <1>1. ASSUME PortalInv, [Next]_vars, NEW r \in Requests, NEW t \in Tenants,
               At(r, "setPlan"), op'[r] # op[r], plan[t] # "team", plan'[t] = "team"
        PROVE  billing[t] \in Subs /\ subs[billing[t]].tenant = t /\ subs[op[r].event.sub].tenant = t
    <2>1. op[r].tenant \in Tenants /\ PaidFor(op[r].event.sub, op[r].tenant) /\ billing[op[r].tenant] \in Subs
      BY <1>1 DEF PortalInv, Knows, Bills, PaidFor, OfStripe, At
    <2>2. SetPlan(r)
      <3>1. op' # op
        BY <1>1
      <3>2. PICK q \in Requests : Arrive(q) \/ Step(q)
        BY <1>1, <3>1 DEF Next, Expire, Administer, Pay, ChangeSub, vars
      <3>3. \E o : op' = [op EXCEPT ![q] = o]
        BY <1>1, <3>2, StepComes DEF PortalInv, Comes, Is
      <3>4. q = r
        BY <1>1, <3>3 DEF PortalInv
      <3>5. ~Arrive(r)
        BY <1>1 DEF Arrive, At, Begin, Register, Login, NewKey, RevokeKey, PublishPolicy, RemovePolicy, Checkout, Wanted,
                    RegisterAll, Onboard, SignIn, Webhook, FollowUps
      <3>6. plan' # plan
        BY <1>1
      <3> QED BY <1>1, <3>2, <3>4, <3>5, <3>6
             DEF Step, At, Lookups, Cached, Ask, Told, Fail, Create, Authenticate, FindLinked, FindByEmail, Link,
                 Owner, UpdateProfile, AddTenant, AddMember, Mint, Revoke, Duplicate, Insert, Unpublish,
                 OfSession, Offer, BySub, SetBilling, List, Mark, Note
    <2>3. t = op[r].tenant
      BY <1>1, <2>1, <2>2 DEF SetPlan, PortalInv, TablesInv, TypeOK
    <2> QED BY <1>1, <2>1, <2>3 DEF PortalInv, TablesInv, PaidFor
  <1>2. PortalInv /\ [Next]_vars =>
          [\A r \in Requests, t \in Tenants :
              At(r, "setPlan") /\ op'[r] # op[r] /\ plan[t] # "team" /\ plan'[t] = "team" =>
                  billing[t] \in Subs /\ subs[billing[t]].tenant = t /\ subs[op[r].event.sub].tenant = t]_vars
    BY <1>1
  <1> QED BY <1>2, PortalInvariant, PTL DEF Spec, TeamWasPaid

\* Only a sign-in signs in: every other step keeps what was asked, or ends.
LEMMA KeepsKind ==
    ASSUME PortalInv, NEW r \in Requests, Arrive(r) \/ Step(r),
           ~Authenticate(r), ~FindLinked(r), ~Link(r), op[r].kind # "signedIn"
    PROVE  op'[r].kind # "signedIn"
  <1> DEFINE o == op[r]
             Unsigned(q) == q.kind # "signedIn"
  <1>1. Unsigned(Idle) /\ o \in OpStates /\ op \in [Requests -> OpStates]
    BY Records DEF PortalInv
  <1>2. \A q \in OpStates, at \in Points : Unsigned(q) => Unsigned(To(q, at))
    BY Records
  <1>3. \A q : Is(r, q) => op'[r] = q
    BY <1>1 DEF Is
  <1> SUFFICES \E q : Is(r, q) /\ Unsigned(q)
    BY <1>3
  <1> HIDE DEF Unsigned
  <1>4. CASE Arrive(r)
    <2>1. \A k, at, e, t : k # "signedIn" =>
             /\ Unsigned([Idle EXCEPT !.kind = k, !.at = at])
             /\ Unsigned([Idle EXCEPT !.kind = k, !.at = at, !.email = e])
             /\ Unsigned([Idle EXCEPT !.kind = k, !.at = at, !.event = e])
             /\ Unsigned([Idle EXCEPT !.kind = k, !.at = at, !.event = e, !.tenant = t])
      BY DEF Unsigned, Idle
    <2>2. ASSUME NEW e \in Emails, Register(r, e) \/ Login(r, e)
          PROVE  \E q : Is(r, q) /\ Unsigned(q)
      BY <2>1, <2>2 DEF Register, Login, Begin
    <2>3. ASSUME NEW e \in Emails, NEW kind \in {"key", "revoke", "publish", "unpublish", "checkout"}, Wanted(r, e, kind)
          PROVE  \E q : Is(r, q) /\ Unsigned(q)
      BY <2>1, <2>3 DEF Wanted, Begin
    <2>4. ASSUME NEW e \in Emails, NEW t \in Tenants, RegisterAll(r, e, t) \/ Onboard(r, e, t)
          PROVE  \E q : Is(r, q) /\ Unsigned(q)
      <3>1. /\ Unsigned([Idle EXCEPT !.kind = "registerAll", !.at = "parse", !.email = e, !.tenant = t])
            /\ Unsigned([Idle EXCEPT !.kind = "onboard", !.at = "parse", !.email = e, !.tenant = t])
        BY DEF Unsigned, Idle
      <3> QED BY <2>4, <3>1 DEF RegisterAll, Onboard, Begin
    <2>5. ASSUME NEW i \in Identities, SignIn(r, i)
          PROVE  \E q : Is(r, q) /\ Unsigned(q)
      <3>1. \A e : Unsigned([Idle EXCEPT !.kind = "signIn", !.at = "identity", !.email = e, !.ident = i])
        BY DEF Unsigned, Idle
      <3> QED BY <2>5, <3>1 DEF SignIn, Begin
    <2>6. ASSUME NEW e \in events, Webhook(r, e)
          PROVE  \E q : Is(r, q) /\ Unsigned(q)
      BY <2>1, <2>6 DEF Webhook, Begin
    <2>7. CASE FollowUps(r)
      BY <2>1, <2>7 DEF FollowUps, Begin
    <2> QED BY <1>4, <2>2, <2>3, <2>4, <2>5, <2>6, <2>7 DEF Arrive, NewKey, RevokeKey, PublishPolicy, RemovePolicy, Checkout
  <1>5. CASE Cached(r) \/ Told(r)
    <2>1. PICK p : Is(r, AfterLookup(o, p)) /\ o.at \in Lookups
      BY <1>5 DEF Cached, Told
    <2>2. AfterLookup(o, p) = Idle \/ \E at \in Points : AfterLookup(o, p) = To(o, at)
      <3>1. CASE o.at = "prefix"
        <4>1. o.kind \in {"key", "revoke", "publish", "unpublish", "checkout"}
          BY <3>1 DEF PortalInv, Knows, Administers
        <4>2. AfterPrefix(o, p) = Idle \/ \E at \in AsMember : AfterPrefix(o, p) = To(o, at)
          BY <4>1 DEF AfterPrefix, AsMember
        <4> QED BY <3>1, <4>2 DEF AfterLookup, Points
      <3>2. CASE o.at # "prefix"
        BY <2>1, <3>2 DEF AfterLookup, AfterParse, Lookups, Points, ToTenant, AsMember, OfStripe
      <3> QED BY <3>1, <3>2
    <2> QED BY <1>1, <1>2, <2>1, <2>2 DEF Unsigned
  <1>6. CASE Ask(r)
    <2>1. Unsigned([o EXCEPT !.waiting = TRUE, !.got = plan[o.tenant]])
      BY <1>1 DEF OpStates, Unsigned
    <2> QED BY <1>6, <2>1 DEF Ask
  <1>7. CASE OfSession(r) \/ BySub(r)
    <2>1. \A at \in Points : \A t : Unsigned([To(o, at) EXCEPT !.tenant = t])
      BY <1>1 DEF To, OpStates, Unsigned
    <2> QED BY <1>1, <1>7, <2>1 DEF OfSession, BySub, End, Points, AsMember, OfStripe
  <1>8. CASE List(r) \/ Mark(r) \/ \E row \in Emails \X Tenants : Note(r, row)
    <2>1. \A row : Unsigned(Without(o, row)) /\ Unsigned(Without([o EXCEPT !.tenant = Nobody], row))
      BY <1>1 DEF Without, OpStates, Unsigned
    <2>2. \A rows : Unsigned([o EXCEPT !.at = "note", !.rows = rows])
      BY <1>1 DEF OpStates, Unsigned
    <2>3. \A row : Unsigned([o EXCEPT !.at = "mark", !.email = row[1], !.tenant = row[2]])
      BY <1>1 DEF OpStates, Unsigned
    <2>4. CASE List(r)
      BY <1>1, <2>2, <2>4 DEF List, End
    <2>5. CASE Mark(r)
      BY <2>1, <2>5 DEF Mark
    <2>6. ASSUME NEW row \in Emails \X Tenants, Note(r, row)
          PROVE  \E q : Is(r, q) /\ Unsigned(q)
      BY <2>1, <2>3, <2>6 DEF Note
    <2> QED BY <1>8, <2>4, <2>5, <2>6
  <1>9. CASE \/ Fail(r) \/ Create(r) \/ FindByEmail(r) \/ Owner(r) \/ UpdateProfile(r) \/ AddTenant(r) \/ AddMember(r)
             \/ Mint(r) \/ Revoke(r) \/ Duplicate(r) \/ Insert(r) \/ Unpublish(r) \/ Offer(r)
             \/ SetBilling(r) \/ SetPlan(r)
    <2>1. Unsigned(o)
      BY DEF Unsigned
    <2>2. End(r) \/ \E at \in Points : Go(r, at)
      <3> USE DEF Points, ToTenant, AsMember, OfStripe
      <3>1. CASE Create(r)
        <4>1. o.kind \in {"register", "registerAll", "signIn"}
          BY <3>1 DEF Create, PortalInv, Knows, Registers
        <4> QED BY <3>1, <4>1 DEF Create
      <3>2. CASE FindByEmail(r) \/ SetBilling(r)
        BY <3>2 DEF FindByEmail, SetBilling
      <3> QED BY <1>9, <3>1, <3>2 DEF Fail, Owner, UpdateProfile, AddTenant, AddMember, Mint, Revoke,
                  Duplicate, Insert, Unpublish, Offer, SetPlan
    <2> QED BY <1>1, <1>2, <2>1, <2>2 DEF End, Go
  <1> QED BY <1>4, <1>5, <1>6, <1>7, <1>8, <1>9 DEF Step

(***************************************************************************)
(* A provider's sign-in opens only an account whose address that identity  *)
(* has verified, and a password only one that was registered with it       *)
(* (findOrCreateOAuthUser, authenticateUser).                              *)
(***************************************************************************)
THEOREM SessionsAreOfTheirOwn == Spec => SignedInAs
  <1>1. ASSUME PortalInv, [Next]_vars, NEW r \in Requests, op'[r].kind = "signedIn", op[r].kind # "signedIn"
        PROVE  op'[r].email \in IF op[r].kind = "signIn" THEN Addresses[op[r].ident]
                                ELSE {e \in Emails : accounts[e].password}
    <2> DEFINE o == op[r]
               Opened(e) == [Idle EXCEPT !.kind = "signedIn", !.email = e]
    <2>1. op' # op /\ op \in [Requests -> OpStates]
      BY <1>1 DEF PortalInv
    <2>2. PICK q \in Requests : Arrive(q) \/ Step(q)
      BY <1>1, <2>1 DEF Next, Expire, Administer, Pay, ChangeSub, vars
    <2>3. \E x : op' = [op EXCEPT ![q] = x]
      BY <1>1, <2>2, StepComes DEF PortalInv, Comes, Is
    <2>4. q = r
      BY <1>1, <2>1, <2>3
    <2>5. Authenticate(r) \/ FindLinked(r) \/ Link(r)
      BY <1>1, <2>2, <2>4, KeepsKind
    <2>6. \A e : Opened(e).email = e
      BY DEF Idle
    <2>7. CASE Authenticate(r)
      <3>1. o.kind = "login" /\ o.email \in Emails
        BY <1>1, <2>7, KindAt DEF Authenticate, At, PortalInv, Knows, SignsIn, ByEmail
      <3>2. op'[r] = IF CheckPassword(o.email) THEN Opened(o.email) ELSE Idle
        BY <2>1, <2>7 DEF Authenticate, Session, End, Is
      <3> QED BY <1>1, <2>6, <3>1, <3>2, Records DEF CheckPassword
    <2>8. CASE FindLinked(r) \/ Link(r)
      <3>1. o.kind = "signIn" /\ o.ident \in Identities /\ o.email \in Addresses[o.ident] /\ o.email \in Emails /\ o \in OpStates
        BY <1>1, <2>8, KindAt DEF FindLinked, Link, At, PortalInv, Knows, SignsIn, ByEmail
      <3>2. CASE Link(r)
        <4>1. op'[r] = Opened(o.email)
          BY <2>1, <3>2 DEF Link, Session, Is
        <4> QED BY <2>6, <3>1, <4>1
      <3>3. CASE FindLinked(r)
        <4>1. op'[r] = IF identities[o.ident] # Nobody THEN Opened(identities[o.ident]) ELSE To(o, "byEmail")
          BY <2>1, <3>3 DEF FindLinked, Linked, Session, Go, Is
        <4>2. To(o, "byEmail").kind = "signIn"
          BY <3>1, Records DEF Points
        <4>3. identities[o.ident] # Nobody
          BY <1>1, <4>1, <4>2
        <4> QED BY <1>1, <2>6, <3>1, <4>1, <4>3 DEF PortalInv, TablesInv
      <3> QED BY <2>8, <3>2, <3>3
    <2> QED BY <2>5, <2>7, <2>8
  <1>2. PortalInv /\ [Next]_vars =>
          [\A r \in Requests : op'[r].kind = "signedIn" /\ op[r].kind # "signedIn" =>
              op'[r].email \in IF op[r].kind = "signIn" THEN Addresses[op[r].ident]
                               ELSE {e \in Emails : accounts[e].password}]_vars
    BY <1>1
  <1> QED BY <1>2, PortalInvariant, PTL DEF Spec, SignedInAs
================================================================================
