----------------------------- MODULE MCRecvBuffer -----------------------------
(* RecvBuffer for TLC: the configurations bound the sizes.                 *)
EXTENDS RecvBuffer
===============================================================================
