---------------------------- MODULE MCCorefsServer ----------------------------
EXTENDS CorefsServer, TLC

\* The two that send data, the one that may ask again, and one that answers for
\* all the others, which differ in the type of their reply only.
SomeOps == {do_write, do_setxattr, do_readdir, do_getxattr(0)}
Symm == Permutations(Clients)

\* Bound: the more clients are connected the fewer requests have been sent.
FewCalls ==
  LET connected == Cardinality({c \in Clients : conn[c] # "none"}) IN
  calls <= IF connected <= 2 THEN 3 ELSE IF connected = 3 THEN 2 ELSE 1
=============================================================================
