---------------------------- MODULE MCClientCalls ----------------------------
EXTENDS ClientCalls

CONSTANT c1

\* An operation that joins its receiver and one that does not.
Getattr == {my_getattr, xmp_access}
\* The one that overruns its buffer, and joins, and the one that reads a spent
\* buffer without harm.
Mkdir == {xmp_mkdir, xmp_readdir}
Access == {xmp_access}
=============================================================================
