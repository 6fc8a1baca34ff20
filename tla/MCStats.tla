-------------------------------- MODULE MCStats --------------------------------
(* Stats for TLC: the distribution is shown in halves, and with a third cut *)
(* from Fine intervals on.                                                  *)
EXTENDS Stats

Halves == <<2, 4>>
ThreeParts == <<2, 3, 4>>
===============================================================================
