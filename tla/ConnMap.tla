------------------------------- MODULE ConnMap -------------------------------
(***************************************************************************)
(* What the connection table promises to the event loop: a map from socket *)
(* descriptors to connection records.  An added descriptor is found again  *)
(* under the record it was given, until it is deleted; the table is thrown *)
(* away once, at the end.                                                  *)
(***************************************************************************)
CONSTANTS Fd,    \* socket descriptors
          Conn,  \* addresses of connection records (conn_t)
          NULL   \* the null pointer
VARIABLES map,   \* the record of each registered descriptor, NULL otherwise
          gone   \* TRUE once the table has been thrown away

mapVars == <<map, gone>>

MapInit == map = [fd \in Fd |-> NULL] /\ gone = FALSE

MapAdd(fd, c) ==
  /\ ~gone
  /\ map[fd] = NULL
  /\ \A other \in Fd : map[other] # c
  /\ map' = [map EXCEPT ![fd] = c]
  /\ UNCHANGED gone

MapDelete(fd) ==
  /\ ~gone
  /\ map[fd] # NULL
  /\ map' = [map EXCEPT ![fd] = NULL]
  /\ UNCHANGED gone

MapFree == ~gone /\ gone' = TRUE /\ UNCHANGED map

MapNext ==
  \/ \E fd \in Fd, c \in Conn : MapAdd(fd, c)
  \/ \E fd \in Fd : MapDelete(fd)
  \/ MapFree

MapSpec == MapInit /\ [][MapNext]_mapVars
=============================================================================
