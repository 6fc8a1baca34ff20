----------------------------- MODULE MCHashConn -----------------------------
(* Five descriptors over two slots: lists of up to three nodes, so heads,  *)
(* middles and tails are deleted, and freed addresses come back elsewhere. *)
EXTENDS HashConn

CONSTANTS c1, c2, c3, c4, c5
MCFd == 4 .. 8
MCConn == {c1, c2, c3, c4, c5}
Addresses == Permutations(MCConn)
=============================================================================
