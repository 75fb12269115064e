------------------------------ MODULE MCDirTree ------------------------------
EXTENDS DirTree

CONSTANTS a, b

\* One path of each kind: home, a folder in home, one in a folder, one that does
\* not start at home, and one that leads back to it.
MCPaths == {<<home>>, <<home, a>>, <<home, a, b>>, <<b>>, <<home, b, home>>}
=============================================================================
