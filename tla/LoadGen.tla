------------------------------- MODULE LoadGen -------------------------------
(***************************************************************************)
(* What the program promises its user: a closed-loop load generator.  Each *)
(* of the connections sends a request, waits for its response, counts it   *)
(* and sends the next; a connection may be replaced at any time, which     *)
(* gives its request up; the run may end at any time.                      *)
(***************************************************************************)
EXTENDS Naturals

CONSTANTS Fd,    \* the connections
          Wrap   \* the counters count modulo Wrap
VARIABLES phase,    \* of each connection: "idle", "waiting" or "answered"
          sent,     \* requests sent
          counted,  \* responses counted
          over      \* the run has ended

loadVars == <<phase, sent, counted, over>>

LoadInit ==
  /\ phase = [fd \in Fd |-> "idle"]
  /\ sent = 0 /\ counted = 0
  /\ over = FALSE

Becomes(fd, from, to) ==
  /\ ~over /\ UNCHANGED over
  /\ phase[fd] = from
  /\ phase' = [phase EXCEPT ![fd] = to]

Request(fd) ==
  Becomes(fd, "idle", "waiting") /\ sent' = (sent + 1) % Wrap /\ UNCHANGED counted
Response(fd) ==
  Becomes(fd, "waiting", "answered") /\ UNCHANGED <<sent, counted>>
Count(fd) ==
  Becomes(fd, "answered", "idle") /\ counted' = (counted + 1) % Wrap /\ UNCHANGED sent
Replace(fd) ==
  \E p \in {"waiting", "answered"} : Becomes(fd, p, "idle") /\ UNCHANGED <<sent, counted>>
End == ~over /\ over' = TRUE /\ UNCHANGED <<phase, sent, counted>>

LoadNext ==
  \/ \E fd \in Fd : Request(fd) \/ Response(fd) \/ Count(fd) \/ Replace(fd)
  \/ End

LoadSpec == LoadInit /\ [][LoadNext]_loadVars
=============================================================================
