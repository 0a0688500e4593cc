----------------------------- MODULE MCHostedLog -----------------------------
EXTENDS HostedLog

CONSTANTS a, b, i1, i2, i3, r1

==============================================================================
