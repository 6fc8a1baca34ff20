--------------------------- MODULE RecvBuffer_proofs ---------------------------
(***************************************************************************)
(* The receive buffer is safe for every buffer size and response length.   *)
(* RoomToReceive is not inductive by itself: that doubling a full buffer   *)
(* leaves room needs its capacity to be positive (TypeOK), and the bound   *)
(* on its growth needs the bytes in it to be bytes of one response.        *)
(***************************************************************************)
EXTENDS RecvBuffer, TLAPS

USE DEF Room

LEMMA Initial == Init => IInv
<1> SUFFICES ASSUME Init PROVE IInv
  OBVIOUS
<1>1. fin \in BOOLEAN
  BY Zenon DEF Init
<1>2. capacity = RECV_BUFFER_SIZE /\ capacity \in RECV_BUFFER_SIZE .. IntMax
  BY SizesAssumption DEF Init
<1> QED
  BY <1>1, <1>2, SizesAssumption
  DEF Init, IInv, TypeOK, RoomToReceive, BufferIsResponse, GrowthBounded

LEMMA PeerKeeps ==
  ASSUME IInv, StartResponse \/ SendPiece \/ Close
  PROVE  IInv'
<1> USE SizesAssumption DEF IInv, TypeOK, RoomToReceive, BufferIsResponse, GrowthBounded,
                            conn, peer
<1>1. CASE StartResponse
  <2>1. length = 0 /\ offset = 0 /\ bytes = 0 /\ queued = 0 /\ unsent = 0
    BY <1>1 DEF StartResponse
  <2>2. PICK n \in 1 .. ResponseMax : length' = n /\ unsent' = n
    BY <1>1 DEF StartResponse
  <2> QED  BY <1>1, <2>1, <2>2 DEF StartResponse
<1>2. CASE SendPiece
  <2>1. PICK n \in 1 .. unsent : unsent' = unsent - n /\ queued' = queued + n
    BY <1>2 DEF SendPiece
  <2> QED  BY <1>2, <2>1 DEF SendPiece
<1>3. CASE Close
  BY <1>3 DEF Close
<1> QED  BY <1>1, <1>2, <1>3

LEMMA ReceiveKeeps ==
  ASSUME IInv, Receive
  PROVE  IInv'
<1> USE SizesAssumption DEF IInv, TypeOK, RoomToReceive, BufferIsResponse, GrowthBounded,
                            conn, peer
<1>1. CASE BeginReceive
  BY <1>1 DEF BeginReceive
<1>2. CASE RecvSome
  <2>1. PICK n \in 1 .. queued : n < Room /\ bytes' = bytes + n /\ queued' = queued - n
    BY <1>2 DEF RecvSome
  <2> QED  BY <1>2, <2>1 DEF RecvSome
<1>3. CASE RecvFull
  <2>1. Room \in 1 .. capacity /\ Room <= queued
    BY <1>3 DEF RecvFull
  <2>2. offset + (bytes + Room) = capacity /\ capacity <= length
    BY <2>1
  <2>3. CASE 2 * capacity > IntMax
    BY <1>3, <2>1, <2>2, <2>3 DEF RecvFull
  <2>4. CASE 2 * capacity <= IntMax
    <3>1. capacity' = 2 * capacity /\ pc' = pc
      BY <1>3, <2>4 DEF RecvFull
    <3>2. Room' = capacity
      BY <1>3, <2>2, <3>1 DEF RecvFull
    <3> QED  BY <1>3, <2>1, <2>2, <2>4, <3>1, <3>2 DEF RecvFull
  <2> QED  BY <2>3, <2>4
<1>4. CASE RecvZero
  <2>1. fin' \in BOOLEAN
    BY <1>4, Zenon DEF RecvZero
  <2>2. pc' = "idle" /\ capacity' = RECV_BUFFER_SIZE /\ offset' = 0 /\ bytes' = 0
    BY <1>4 DEF RecvZero
  <2>3. length' = 0 /\ unsent' = 0 /\ queued' = 0
    BY <1>4 DEF RecvZero
  <2> QED  BY <2>1, <2>2, <2>3
<1>5. CASE RecvAgain
  BY <1>5 DEF RecvAgain
<1> QED  BY <1>1, <1>2, <1>3, <1>4, <1>5 DEF Receive

(* Every reachable state satisfies the inductive invariant.                *)
THEOREM Invariance == Spec => []IInv
<1>1. IInv /\ UNCHANGED vars => IInv'
  BY DEF IInv, TypeOK, RoomToReceive, BufferIsResponse, GrowthBounded, vars, conn, peer
<1>2. IInv /\ [Next]_vars => IInv'
  BY <1>1, PeerKeeps, ReceiveKeeps DEF Next
<1> QED  BY Initial, <1>2, PTL DEF Spec

(* Every variable has its type, and the capacity never leaves int           *)
(* (networking.c:56-82).                                                    *)
THEOREM Types == Spec => []TypeOK
<1>1. IInv => TypeOK
  BY DEF IInv
<1> QED  BY Invariance, <1>1, PTL

(* The buffer is what has arrived of the response under way, however it was *)
(* cut and however often the buffer doubled (networking.c:56-106).          *)
THEOREM NothingMixed == Spec => []BufferIsResponse
<1>1. IInv => BufferIsResponse
  BY DEF IInv
<1> QED  BY Invariance, <1>1, PTL

(* The buffer of every connection always has room for the next recv(2)     *)
(* (networking.c:58).                                                      *)
THEOREM AlwaysRoom == Spec => []RoomToReceive
<1>1. IInv => RoomToReceive
  BY DEF IInv
<1> QED  BY Invariance, <1>1, PTL

(* No doubling goes past twice the longest response (networking.c:75-79).  *)
THEOREM Growth == Spec => []GrowthBounded
<1>1. IInv => GrowthBounded
  BY DEF IInv
<1> QED  BY Invariance, <1>1, PTL

(* A response whose peer stays is received to its last byte: recv(2) never *)
(* answers 0 for want of room (networking.c:69).                           *)
THEOREM NothingDropped == Spec => OnlyClosedIsDropped
<1>1. ASSUME IInv, [Next]_vars, length > 0, length' = 0, ~fin
      PROVE  offset + bytes = length
  <2> USE SizesAssumption DEF IInv, TypeOK, RoomToReceive, BufferIsResponse, conn, peer
  <2>1. CASE StartResponse
    BY <1>1, <2>1 DEF StartResponse
  <2>2. CASE SendPiece \/ Close \/ BeginReceive \/ RecvSome \/ RecvFull
    BY <1>1, <2>2 DEF SendPiece, Close, BeginReceive, RecvSome, RecvFull
  <2>3. CASE RecvZero
    BY <1>1, <2>3 DEF RecvZero
  <2>4. CASE RecvAgain
    BY <1>1, <2>4 DEF RecvAgain
  <2>5. CASE UNCHANGED vars
    BY <1>1, <2>5 DEF vars
  <2> QED  BY <1>1, <2>1, <2>2, <2>3, <2>4, <2>5 DEF Next, Receive
<1> QED  BY Invariance, <1>1, PTL DEF Spec, OnlyClosedIsDropped
===============================================================================
