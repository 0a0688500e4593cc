SPECIFICATION Spec
SYMMETRY Symmetry
CONSTANTS
    u1 = u1
    u2 = u2
    Emails = {u1, u2}
    Own = {u2}
    Tenants = {t1}
    Identities <- MCIdentities
    Addresses <- MCAddresses
    Subs = {s1, s2}
    Requests = {r1, r2}
    MaxRequests = 3
INVARIANTS AccountsAgree
PROPERTIES TeamWasPaid SignedInAs
CHECK_DEADLOCK FALSE
