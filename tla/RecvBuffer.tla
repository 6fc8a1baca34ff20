------------------------------ MODULE RecvBuffer ------------------------------
(***************************************************************************)
(* The receive buffer of one connection, counted in bytes: conn_t's        *)
(* offset and capacity, and the loop of recieve_response (networking.c)    *)
(* that reads until EAGAIN, doubles the buffer when it is full, and hands  *)
(* all of it to the parser.  The peer sends one response at a time, in     *)
(* pieces, and may close the connection.  That a response is parsed to its *)
(* last byte and no further is the subject of HttpParser.                  *)
(***************************************************************************)
EXTENDS Integers

CONSTANTS RECV_BUFFER_SIZE,  \* the first capacity of a buffer
          IntMax,            \* the largest int, 2^31 - 1 in the code
          ResponseMax        \* bound: bytes of a response

ASSUME SizesAssumption ==
  /\ RECV_BUFFER_SIZE \in Nat \ {0}
  /\ IntMax \in Nat /\ RECV_BUFFER_SIZE <= IntMax
  /\ ResponseMax \in Nat \ {0}

VARIABLES pc,        \* "idle", "recv" (in the loop) or "exit"
          capacity,  \* of recv_buffer, and its allocated size
          offset,    \* bytes kept from earlier calls
          bytes,     \* bytes read by this call
          length,    \* of the response under way, 0 when there is none
          unsent,    \* bytes of it the peer has not sent
          queued,    \* bytes of it waiting in the socket
          fin        \* the peer has closed

conn == <<capacity, offset>>
peer == <<length, unsent, queued, fin>>
vars == <<pc, capacity, offset, bytes, length, unsent, queued, fin>>

Room == capacity - offset - bytes

Init ==
  /\ pc = "idle"
  /\ capacity = RECV_BUFFER_SIZE /\ offset = 0 /\ bytes = 0
  /\ length = 0 /\ unsent = 0 /\ queued = 0 /\ fin = FALSE

-----------------------------------------------------------------------------
(* The peer.                                                               *)

StartResponse ==
  /\ length = 0 /\ pc = "idle" /\ ~fin
  /\ \E n \in 1 .. ResponseMax : length' = n /\ unsent' = n
  /\ UNCHANGED <<pc, conn, bytes, queued, fin>>

SendPiece ==
  /\ ~fin
  /\ \E n \in 1 .. unsent : unsent' = unsent - n /\ queued' = queued + n
  /\ UNCHANGED <<pc, conn, bytes, length, fin>>

Close ==
  /\ fin' = TRUE
  /\ UNCHANGED <<pc, conn, bytes, length, unsent, queued>>

-----------------------------------------------------------------------------
(* recieve_response.                                                       *)

\* EPOLLIN; it is also reported when the peer has closed.
BeginReceive ==
  /\ pc = "idle" /\ (queued > 0 \/ fin)
  /\ pc' = "recv"
  /\ bytes' = 0
  /\ UNCHANGED <<conn, peer>>

\* recv(2) returns n bytes and leaves room in the buffer.
RecvSome ==
  /\ pc = "recv"
  /\ \E n \in 1 .. queued :
       /\ n < Room
       /\ bytes' = bytes + n
       /\ queued' = queued - n
  /\ UNCHANGED <<pc, conn, length, unsent, fin>>

\* Mutants: doubled only when over-full; grown by four; without a limit.
RecvFull_late ==
  /\ pc = "recv" /\ queued >= Room /\ Room > 0
  /\ bytes' = bytes + Room
  /\ queued' = queued - Room
  /\ UNCHANGED <<pc, conn, length, unsent, fin>>
RecvFull_grows(factor) ==
  /\ pc = "recv" /\ queued >= Room /\ Room > 0
  /\ bytes' = bytes + Room
  /\ queued' = queued - Room
  /\ capacity' = factor * capacity
  /\ UNCHANGED <<pc, offset, length, unsent, fin>>
RecvFull_eager == RecvFull_grows(4)
RecvFull_unlimited == RecvFull_grows(2)

\* recv(2) fills the buffer: it is doubled at once.  Beyond IntMax the
\* product is negative, realloc fails and ASSERT_ALLOCATE exits.
RecvFull ==
  /\ pc = "recv" /\ queued >= Room /\ Room > 0
  /\ bytes' = bytes + Room
  /\ queued' = queued - Room
  /\ IF 2 * capacity > IntMax
     THEN pc' = "exit" /\ UNCHANGED capacity
     ELSE capacity' = 2 * capacity /\ UNCHANGED pc
  /\ UNCHANGED <<offset, length, unsent, fin>>

\* recv(2) returns 0: the peer has closed, or no room was offered.  What was
\* read is dropped; close_connection and reconnect make a new conn_t.
RecvZero ==
  /\ pc = "recv"
  /\ (queued = 0 /\ fin) \/ Room = 0
  /\ pc' = "idle"
  /\ capacity' = RECV_BUFFER_SIZE /\ offset' = 0 /\ bytes' = 0
  /\ length' = 0 /\ unsent' = 0 /\ queued' = 0 /\ fin' = FALSE

\* Mutant: offset is not reset behind a complete response.
RecvAgain_keeps ==
  /\ pc = "recv" /\ queued = 0 /\ ~fin /\ Room > 0
  /\ pc' = "idle"
  /\ offset' = offset + bytes
  /\ length' = IF offset + bytes >= length THEN 0 ELSE length
  /\ bytes' = 0
  /\ UNCHANGED <<capacity, unsent, queued, fin>>

\* EAGAIN: the parser runs over offset + bytes bytes.  A complete response
\* clears the buffer, which keeps its capacity; otherwise the bytes stay.
RecvAgain ==
  /\ pc = "recv" /\ queued = 0 /\ ~fin /\ Room > 0
  /\ pc' = "idle"
  /\ bytes' = 0
  /\ IF offset + bytes >= length
     THEN offset' = 0 /\ length' = 0
     ELSE offset' = offset + bytes /\ UNCHANGED length
  /\ UNCHANGED <<capacity, unsent, queued, fin>>

Receive == BeginReceive \/ RecvSome \/ RecvFull \/ RecvZero \/ RecvAgain
Next == StartResponse \/ SendPiece \/ Close \/ Receive
Spec == Init /\ [][Next]_vars

-----------------------------------------------------------------------------
TypeOK ==
  /\ pc \in {"idle", "recv", "exit"}
  /\ capacity \in RECV_BUFFER_SIZE .. IntMax
  /\ offset \in Nat /\ bytes \in Nat
  /\ length \in 0 .. ResponseMax
  /\ unsent \in Nat /\ queued \in Nat
  /\ fin \in BOOLEAN

(* recv(2) is never asked for zero bytes, whose answer 0 would be taken    *)
(* for the end of the connection, and never for more than the buffer       *)
(* has left (networking.c:58, 73-80).                                      *)
RoomToReceive == pc # "exit" => Room \in 1 .. capacity

(* The buffer holds exactly what has arrived of the response under way:    *)
(* nothing of it is lost and nothing is left from an earlier one; between  *)
(* two calls offset alone says how much that is (networking.c:84-102).     *)
BufferIsResponse ==
  /\ offset + bytes + queued + unsent = length
  /\ pc = "idle" => bytes = 0

(* Doubling stops in time: a buffer that has grown is at most twice the    *)
(* longest response.                                                       *)
GrowthBounded == capacity = RECV_BUFFER_SIZE \/ capacity <= 2 * ResponseMax

(* A connection is given up only if its peer closed it, however long the   *)
(* response and wherever it was cut (networking.c:69).                     *)
OnlyClosedIsDropped == [][length > 0 /\ length' = 0 /\ ~fin => offset + bytes = length]_vars

(* The inductive invariant.                                                *)
IInv == TypeOK /\ RoomToReceive /\ BufferIsResponse /\ GrowthBounded
===============================================================================
