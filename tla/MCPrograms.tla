----------------------------- MODULE MCPrograms -----------------------------
EXTENDS Programs, TLC

CONSTANTS nn, d0, t0, d1, t1, c1, h0, h1

\* On the namenode's host a datanode and a tool, on the other those and a client.
MCHost == (nn :> h0) @@ (d0 :> h0) @@ (t0 :> h0) @@ (d1 :> h1) @@ (t1 :> h1) @@ (c1 :> h1)
=============================================================================
