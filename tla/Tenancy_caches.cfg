SPECIFICATION Spec
SYMMETRY Symmetry
CONSTANTS
    Tenants = {t1}
    Tokens = {k1}
    Instances = {p1, p2}
    Servers = {p1}
    Requests = {r1, r2}
    Admins = {a1}
    TenantTTL = 1
    TokenTTL = 1
    QuotaTTL = 1
    Allowance = 1
    Burst = 2
    Rate = 1
    MaxQuery = 1
    MaxTime = 3
    MaxLeaves = 2
PROPERTIES  QuotaBites LimiterPays
CHECK_DEADLOCK FALSE
