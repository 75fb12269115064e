----------------------------- MODULE MCNameNode -----------------------------
EXTENDS NameNode, TLC

CONSTANTS n1, n2, root, f1

\* One command of each kind the namenode treats differently.
MCCmds == {"mkdir", "getattr", "read"}
MonCmds == {"mkdir", "getattr"}
Symm == Permutations({n1, n2})
=============================================================================
