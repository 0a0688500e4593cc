SPECIFICATION Spec
CONSTANTS
    alice = alice
    bob = bob
    a1 = a1
    a2 = a2
    t1 = t1
    t2 = t2
    Principals = {alice, bob}
    Agents = {a1, a2}
    Trusted = {alice}
    Tools = {t1, t2}
    Times <- MCTimes
    NoKey = NoKey
    MaxDepth = 2
    Precommit = {t2}
    Contents = {c1}
    Logs = {l1, l2}
    Home = l1
    Asked <- MCAsked
    Issuer = Issuer
    Upstream = Upstream
    Stripe = Stripe
    GitHub = GitHub
    VouchedBy <- MCVouchedBy
    None = None
    MaxGrants = 3
    MaxCalls = 2
INVARIANTS GrantsNarrow IssuedVerifies AcceptedWasGranted AcceptedIsOneCall
CHECK_DEADLOCK FALSE
