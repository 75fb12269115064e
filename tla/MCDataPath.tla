----------------------------- MODULE MCDataPath -----------------------------
EXTENDS DataPath, TLC

CONSTANTS n1, n2, root, d, x, g, none, v1, v2

\* The directory d with x in it; g is d with a size appended.
MCPaths == {root, d, x, g, none}
MCParent == (d :> root) @@ (x :> d) @@ (g :> root) @@ (none :> root)
MCGlued == (root :> none) @@ (d :> g) @@ (x :> none) @@ (g :> none)
Symm == Permutations({n1, n2})
\* getattr, access and chmod do here what open does, without recording a home.
SomeOps == Operations \ {"getattr", "access", "chmod"}
=============================================================================
