----------------------------- MODULE MCPingProbe -----------------------------
EXTENDS PingProbe, TLC

CONSTANTS n1, n2

Symm == Permutations({n1, n2})
=============================================================================
