--------------------------- MODULE EventLoop_proofs ---------------------------
(***************************************************************************)
(* The event loop, for any number of connections, any length of request,   *)
(* size of send buffer and number of events a call.                        *)
(***************************************************************************)
EXTENDS EventLoop, SequenceTheorems, TLAPS

Busy == pc \in {"dispatch", "recv", "send"}

NoRepeat(list) == \A i, j \in 1 .. Len(list) : list[i] = list[j] => i = j
OneEventEach(events) == \A i, j \in 1 .. Len(events) : events[i].fd = events[j].fd => i = j

-----------------------------------------------------------------------------
(* Any environment.                                                        *)

(* No descriptor is twice on the ready list or twice in a batch; there is   *)
(* a batch exactly while its events are handled; an event speaks of what    *)
(* its descriptor still asks for, because a registration changes only when  *)
(* the event of its descriptor is done.                                     *)
QueueInv ==
  /\ NoRepeat(rdlist) /\ OneEventEach(batch)
  /\ Running => (Busy <=> batch # <<>>)
  /\ Running => (acc # "empty" => pc = "recv")
  /\ pc \in {"recv", "send"} => Current \in Fd
  /\ \A i \in 1 .. Len(batch) :
       batch[i].fd \in Fd => batch[i].events \subseteq Asked(sock[batch[i].fd].interest)

-----------------------------------------------------------------------------
(* The lists of the loop.                                                  *)

(* Putting a descriptor on the ready list adds it, once (Wake).             *)
LEMMA QueuedFacts ==
  ASSUME NEW S, NEW list \in Seq(S), NEW x \in S
  PROVE  /\ Queued(list, x) \in Seq(S)
         /\ NoRepeat(list) => NoRepeat(Queued(list, x))
         /\ \A y : Contains(Queued(list, x), y) <=> Contains(list, y) \/ y = x
<1>1. CASE Contains(list, x)
  BY <1>1 DEF Queued
<1>2. CASE ~Contains(list, x)
  <2>1. Len(list) \in Nat
    OBVIOUS
  <2>2. /\ Append(list, x) \in Seq(S) /\ Len(Append(list, x)) = Len(list) + 1
        /\ \A i \in 1 .. Len(list) : Append(list, x)[i] = list[i]
        /\ Append(list, x)[Len(list) + 1] = x
    BY AppendProperties
  <2>3. \A y : Contains(Append(list, x), y) <=> Contains(list, y) \/ y = x
    BY <2>1, <2>2 DEF Contains
  <2> QED BY <1>2, <2>1, <2>2, <2>3 DEF Queued, Contains, NoRepeat
<1> QED BY <1>1, <1>2

(* Taking one off leaves the others, once each (epoll_wait and close).      *)
LEMMA RemoveFacts ==
  ASSUME NEW S, NEW list \in Seq(S), NEW k \in 1 .. Len(list)
  PROVE  /\ RemoveAt(list, k) \in Seq(S)
         /\ NoRepeat(list) =>
              /\ NoRepeat(RemoveAt(list, k))
              /\ \A y : Contains(RemoveAt(list, k), y) <=> Contains(list, y) /\ y # list[k]
<1> DEFINE front == SubSeq(list, 1, k - 1)
           back == SubSeq(list, k + 1, Len(list))
<1>1. Len(list) \in Nat /\ k \in Nat /\ \A i \in 1 .. Len(list) : list[i] \in S
  BY LenProperties, ElementOfSeq
<1>2. /\ front \in Seq(S) /\ Len(front) = k - 1
      /\ \A i \in 1 .. k - 1 : front[i] = list[i]
  BY <1>1, SubSeqProperties
<1>3. /\ back \in Seq(S) /\ Len(back) = Len(list) - k
      /\ \A i \in 1 .. Len(list) - k : back[i] = list[k + i]
  <2>1. /\ SubSeq(list, k + 1, Len(list)) \in Seq(S)
        /\ Len(SubSeq(list, k + 1, Len(list))) =
              IF k + 1 <= Len(list) THEN Len(list) - (k + 1) + 1 ELSE 0
        /\ \A i \in 1 .. Len(list) - (k + 1) + 1 :
              SubSeq(list, k + 1, Len(list))[i] = list[k + 1 + i - 1]
    BY <1>1, SubSeqProperties
  <2> QED BY <2>1, <1>1
<1> HIDE DEF front, back
<1>4. /\ front \o back \in Seq(S) /\ Len(front \o back) = Len(list) - 1
      /\ \A i \in 1 .. Len(list) - 1 :
           (front \o back)[i] = IF i <= k - 1 THEN front[i] ELSE back[i - (k - 1)]
  <2>1. front \in Seq(S) /\ back \in Seq(S)
    BY <1>2, <1>3
  <2>2. /\ front \o back \in Seq(S)
        /\ Len(front \o back) = Len(front) + Len(back)
        /\ \A i \in 1 .. Len(front) + Len(back) :
             (front \o back)[i] = IF i <= Len(front) THEN front[i] ELSE back[i - Len(front)]
    BY <2>1, ConcatProperties
  <2> QED BY <1>1, <1>2, <1>3, <2>2
<1>5. \A i \in 1 .. Len(list) - 1 : (front \o back)[i] = list[IF i < k THEN i ELSE i + 1]
  BY <1>1, <1>2, <1>3, <1>4
<1>6. RemoveAt(list, k) = front \o back
  BY DEF RemoveAt, front, back
<1>7. ASSUME NoRepeat(list)
      PROVE  NoRepeat(front \o back)
             /\ \A y : Contains(front \o back, y) <=> Contains(list, y) /\ y # list[k]
  <2> DEFINE at(i) == IF i < k THEN i ELSE i + 1
  <2>0. \A i \in 1 .. Len(list) - 1 :
          at(i) \in 1 .. Len(list) /\ at(i) # k /\ (front \o back)[i] = list[at(i)]
    <3>1. ASSUME NEW i \in 1 .. Len(list) - 1 PROVE at(i) \in 1 .. Len(list) /\ at(i) # k
      BY <1>1
    <3> QED BY <1>5, <3>1
  <2>1. NoRepeat(front \o back)
    <3>1. SUFFICES ASSUME NEW i \in 1 .. Len(list) - 1, NEW j \in 1 .. Len(list) - 1,
                          (front \o back)[i] = (front \o back)[j]
                   PROVE  i = j
      BY <1>4 DEF NoRepeat
    <3>2. list[at(i)] = list[at(j)]
      BY <2>0, <3>1
    <3>3. at(i) = at(j)
      BY <1>7, <2>0, <3>2 DEF NoRepeat
    <3> QED BY <1>1, <3>3
  <2>2. ASSUME NEW y, Contains(front \o back, y)
        PROVE  Contains(list, y) /\ y # list[k]
    <3>1. PICK i \in 1 .. Len(list) - 1 : (front \o back)[i] = y
      BY <1>4, <2>2 DEF Contains
    <3>2. at(i) \in 1 .. Len(list) /\ at(i) # k /\ y = list[at(i)]
      BY <2>0, <3>1
    <3> HIDE DEF at
    <3> QED BY <1>7, <3>2 DEF Contains, NoRepeat
  <2>3. ASSUME NEW y, Contains(list, y), y # list[k]
        PROVE  Contains(front \o back, y)
    <3>1. PICK i \in 1 .. Len(list) : list[i] = y
      BY <2>3 DEF Contains
    <3>2. i < k \/ i > k
      BY <1>1, <2>3, <3>1
    <3>3. PICK j \in 1 .. Len(list) - 1 : i = IF j < k THEN j ELSE j + 1
      <4>1. CASE i < k
        <5>1. i \in 1 .. Len(list) - 1 /\ i = IF i < k THEN i ELSE i + 1
          BY <1>1, <4>1
        <5> QED BY <5>1
      <4>2. CASE i > k
        <5>1. i - 1 \in 1 .. Len(list) - 1 /\ i = IF i - 1 < k THEN i - 1 ELSE i - 1 + 1
          BY <1>1, <4>2
        <5> QED BY <5>1
      <4> QED BY <3>2, <4>1, <4>2
    <3> QED BY <1>4, <1>5, <3>1, <3>3 DEF Contains
  <2> QED BY <2>1, <2>2, <2>3
<1> QED BY <1>4, <1>6, <1>7

(* Closing a descriptor takes it, and it only, off the ready list.          *)
LEMMA UnqueuedFacts ==
  ASSUME NEW S, NEW list \in Seq(S), NEW x, NoRepeat(list)
  PROVE  /\ Unqueued(list, x) \in Seq(S)
         /\ NoRepeat(Unqueued(list, x))
         /\ \A y : Contains(Unqueued(list, x), y) <=> Contains(list, y) /\ y # x
<1>1. CASE Contains(list, x)
  <2> DEFINE k == CHOOSE i \in DOMAIN list : list[i] = x
  <2>1. k \in 1 .. Len(list) /\ list[k] = x
    BY <1>1 DEF Contains
  <2>2. Unqueued(list, x) = RemoveAt(list, k)
    BY <1>1 DEF Unqueued
  <2> HIDE DEF k
  <2> QED BY <2>1, <2>2, RemoveFacts
<1>2. CASE ~Contains(list, x)
  BY <1>2 DEF Unqueued
<1> QED BY <1>1, <1>2

(* epoll_wait leaves on the ready list what it does not return.             *)
LEMMA RestFacts ==
  ASSUME NEW S, NEW list \in Seq(S), NEW n \in 0 .. Len(list)
  PROVE  /\ SubSeq(list, n + 1, Len(list)) \in Seq(S)
         /\ NoRepeat(list) => NoRepeat(SubSeq(list, n + 1, Len(list)))
         /\ \A i \in n + 1 .. Len(list) : Contains(SubSeq(list, n + 1, Len(list)), list[i])
<1> DEFINE rest == SubSeq(list, n + 1, Len(list))
<1>1. Len(list) \in Nat /\ n \in Nat /\ \A i \in 1 .. Len(list) : list[i] \in S
  BY LenProperties, ElementOfSeq
<1>2. /\ SubSeq(list, n + 1, Len(list)) \in Seq(S)
      /\ Len(SubSeq(list, n + 1, Len(list))) =
            IF n + 1 <= Len(list) THEN Len(list) - (n + 1) + 1 ELSE 0
      /\ \A i \in 1 .. Len(list) - (n + 1) + 1 :
            SubSeq(list, n + 1, Len(list))[i] = list[n + 1 + i - 1]
  BY <1>1, SubSeqProperties
<1>3. rest \in Seq(S) /\ Len(rest) = Len(list) - n
      /\ \A i \in 1 .. Len(list) - n : rest[i] = list[n + i]
  BY <1>1, <1>2
<1> HIDE DEF rest
<1>4. ASSUME NoRepeat(list) PROVE NoRepeat(rest)
  <2>1. SUFFICES ASSUME NEW i \in 1 .. Len(list) - n, NEW j \in 1 .. Len(list) - n, rest[i] = rest[j]
                 PROVE  i = j
    BY <1>3 DEF NoRepeat
  <2>2. n + i \in 1 .. Len(list) /\ n + j \in 1 .. Len(list) /\ list[n + i] = list[n + j]
    BY <1>1, <1>3, <2>1
  <2>3. n + i = n + j
    BY <1>4, <2>2 DEF NoRepeat
  <2> QED BY <1>1, <2>3
<1>5. ASSUME NEW i \in n + 1 .. Len(list) PROVE Contains(rest, list[i])
  <2>1. i - n \in 1 .. Len(list) - n /\ rest[i - n] = list[i]
    BY <1>1, <1>3
  <2> QED BY <1>3, <2>1 DEF Contains
<1>6. rest = SubSeq(list, n + 1, Len(list))
  BY DEF rest
<1> QED BY <1>3, <1>4, <1>5, <1>6

-----------------------------------------------------------------------------
(* The batch.                                                              *)

SafeInv == TypeOK /\ QueueInv /\ NoStaleEvent

LEMMA HeadFacts ==
  ASSUME batch \in Seq(Event), batch # <<>>
  PROVE  /\ Head(batch) = batch[1] /\ Len(batch) \in Nat \ {0} /\ 1 \in 1 .. Len(batch)
         /\ Current = batch[1].fd /\ Current \in Fd \cup {timerfd} /\ InBatch(Current)
<1>1. Len(batch) \in Nat \ {0} /\ DOMAIN batch = 1 .. Len(batch) /\ Head(batch) = batch[1]
  BY EmptySeq, LenProperties
<1>2. batch[1] \in Event
  BY <1>1, ElementOfSeq
<1>3. batch[1].fd \in Fd \cup {timerfd}
  BY <1>2 DEF Event
<1> QED BY <1>1, <1>3 DEF Current, InBatch

(* The next event of the batch: the one handled is gone, its descriptor is  *)
(* in no other, and the thread is between two handlers.                     *)
LEMMA NextEventFacts ==
  ASSUME batch \in Seq(Event), batch # <<>>, OneEventEach(batch), NextEvent
  PROVE  /\ batch' \in Seq(Event) /\ OneEventEach(batch')
         /\ Len(batch') = Len(batch) - 1
         /\ \A i \in 1 .. Len(batch') :
              i + 1 \in 1 .. Len(batch) /\ batch'[i] = batch[i + 1] /\ batch'[i].fd # Current
         /\ acc' = "empty"
         /\ pc' \in {"wait", "dispatch"} /\ (pc' = "dispatch" <=> batch' # <<>>)
         /\ \A fd : InBatch(fd)' <=> InBatch(fd) /\ fd # Current
<1>1. /\ Len(batch) \in Nat \ {0} /\ 1 \in 1 .. Len(batch) /\ Current = batch[1].fd
      /\ DOMAIN batch = 1 .. Len(batch)
  BY HeadFacts, LenProperties
<1>2. /\ batch' \in Seq(Event) /\ Len(batch') = Len(batch) - 1
      /\ \A i \in 1 .. Len(batch') : batch'[i] = batch[i + 1]
  BY HeadTailProperties DEF NextEvent
<1>3. DOMAIN batch' = 1 .. Len(batch')
  BY <1>2, LenProperties
<1>4. ASSUME NEW i \in 1 .. Len(batch')
      PROVE  i + 1 \in 1 .. Len(batch) /\ batch'[i] = batch[i + 1] /\ batch'[i].fd # Current
  <2>1. i + 1 \in 1 .. Len(batch) /\ i + 1 # 1
    BY <1>1, <1>2
  <2> QED BY <1>1, <1>2, <2>1 DEF OneEventEach
<1>5. OneEventEach(batch')
  <2>1. SUFFICES ASSUME NEW i \in 1 .. Len(batch'), NEW j \in 1 .. Len(batch'),
                        batch'[i].fd = batch'[j].fd
                 PROVE  i = j
    BY DEF OneEventEach
  <2>2. i + 1 = j + 1
    BY <1>4, <2>1 DEF OneEventEach
  <2> QED BY <2>2
<1>6. acc' = "empty" /\ pc' \in {"wait", "dispatch"} /\ (pc' = "dispatch" <=> batch' # <<>>)
  <2>1. batch' # <<>> <=> Len(batch') # 0
    BY <1>2, EmptySeq
  <2> QED BY <1>1, <1>2, <2>1 DEF NextEvent
<1>7. ASSUME NEW fd PROVE InBatch(fd)' <=> InBatch(fd) /\ fd # Current
  <2>1. ASSUME InBatch(fd)' PROVE InBatch(fd) /\ fd # Current
    <3>1. PICK i \in 1 .. Len(batch') : batch'[i].fd = fd
      BY <1>3, <2>1 DEF InBatch
    <3> QED BY <1>1, <1>4, <3>1 DEF InBatch
  <2>2. ASSUME InBatch(fd), fd # Current PROVE InBatch(fd)'
    <3>1. PICK i \in 1 .. Len(batch) : batch[i].fd = fd
      BY <1>1, <2>2 DEF InBatch
    <3>2. i - 1 \in 1 .. Len(batch') /\ (i - 1) + 1 = i
      BY <1>1, <1>2, <2>2, <3>1
    <3>3. batch'[i - 1].fd = fd
      BY <1>2, <3>1, <3>2
    <3> QED BY <1>3, <3>2, <3>3 DEF InBatch
  <2> QED BY <2>1, <2>2
<1> QED BY <1>2, <1>4, <1>5, <1>6, <1>7

-----------------------------------------------------------------------------
(* Types.                                                                  *)

LEMMA FdFacts == timerfd \notin Fd /\ Fd \subseteq Nat
BY SizesAssumption DEF Fd, timerfd

LEMMA FreshTypes ==
  /\ FreshConn \in Connection /\ FreshConn # NULL
  /\ NoSocket \in Socket /\ ConnectOutcomes \subseteq Socket
<1>1. FreshConn \in Connection /\ FreshConn # NULL
  <2>1. FreshConn \in Connection
    BY SizesAssumption DEF FreshConn, Connection
  <2> QED BY <2>1, NullAssumption
<1>2. <<>> \in Seq(Piece) /\ 0 \in 0 .. SndBuf
  BY SizesAssumption, EmptySeq
<1>3. NoSocket \in Socket
  BY <1>2 DEF NoSocket, Socket
<1>4. ConnectOutcomes \subseteq Socket
  BY <1>2 DEF ConnectOutcomes, NoSocket, Socket
<1> QED BY <1>1, <1>3, <1>4

-----------------------------------------------------------------------------
(* SafeInv is kept.                                                        *)

Ready == rdlist \in Seq(Fd \cup {timerfd}) /\ NoRepeat(rdlist)

(* Steps that leave the batch alone.                                        *)
LEMMA StayKeeps ==
  ASSUME SafeInv, Running, batch' = batch, fresh' = fresh, UNCHANGED <<totals, balance>>,
         timer' \in {"none", "armed", "expired"},
         pc' = pc \/ (Busy /\ pc' \in {"recv", "send"} /\ Current \in Fd),
         \/ acc' = "empty" \/ (acc' = acc /\ pc' = pc)
         \/ pc' = "recv" /\ acc' \in {"empty", "partial", "bad", "complete", "nothing"},
         conn' \in [Fd -> Connection \cup {NULL}],
         \A fd \in Fd : conn[fd] # NULL => conn'[fd] # NULL,
         sock' \in [Fd -> Socket], \A fd \in Fd : sock'[fd].interest = sock[fd].interest,
         got' \in [Fd -> 0 .. ReqLen], Ready'
  PROVE  SafeInv'
<1>1. /\ pc' \in {"start", "wait", "dispatch", "recv", "send", "exit", "returned"} /\ Running'
      /\ pc' # "start" => pc # "start"
      /\ Busy' <=> Busy
  BY DEF SafeInv, TypeOK, Busy, Running
<1>2. TypeOK'
  <2>1. pc' # "start" => \A fd \in Fd : conn'[fd] # NULL
    BY <1>1 DEF SafeInv, TypeOK
  <2>2. acc' \in {"empty", "partial", "bad", "complete", "nothing"}
    BY DEF SafeInv, TypeOK
  <2> QED BY <1>1, <2>1, <2>2 DEF SafeInv, TypeOK, totals, Ready
<1>3. QueueInv'
  <2>1. Running' => (acc' # "empty" => pc' = "recv")
    BY DEF SafeInv, QueueInv
  <2>2. Current' = Current /\ (pc' \in {"recv", "send"} => Current' \in Fd)
    BY DEF SafeInv, QueueInv, Current
  <2> QED BY <1>1, <2>1, <2>2 DEF SafeInv, QueueInv, Ready
<1>4. NoStaleEvent'
  BY DEF SafeInv, NoStaleEvent
<1> QED BY <1>2, <1>3, <1>4 DEF SafeInv

(* Steps that end the handling of an event.                                 *)
LEMMA TurnKeeps ==
  ASSUME SafeInv, Running, Busy, NextEvent, timer' = timer,
         total_requests' \in 0 .. Wrap - 1, total_responses' \in 0 .. Wrap - 1,
         conn' \in [Fd -> Connection \cup {NULL}], \A fd \in Fd : conn'[fd] # NULL,
         sock' \in [Fd -> Socket],
         \A fd \in Fd \ {Current} : sock'[fd].interest = sock[fd].interest,
         got' \in [Fd -> 0 .. ReqLen], balance' \in [Fd -> Int], Ready',
         fresh' \subseteq Fd, fresh' \subseteq fresh \cup {Current}
  PROVE  SafeInv'
<1>0. batch \in Seq(Event) /\ batch # <<>> /\ OneEventEach(batch)
  BY DEF SafeInv, TypeOK, QueueInv
<1>1. /\ batch' \in Seq(Event) /\ OneEventEach(batch')
      /\ \A i \in 1 .. Len(batch') :
           i + 1 \in 1 .. Len(batch) /\ batch'[i] = batch[i + 1] /\ batch'[i].fd # Current
      /\ acc' = "empty"
      /\ pc' \in {"wait", "dispatch"} /\ (pc' = "dispatch" <=> batch' # <<>>)
  BY <1>0, NextEventFacts
<1>2. TypeOK'
  BY <1>1 DEF SafeInv, TypeOK, Ready
<1>3. QueueInv'
  <2>1. Busy' <=> batch' # <<>>
    BY <1>1 DEF Busy
  <2>2. ASSUME NEW i \in 1 .. Len(batch'), batch'[i].fd \in Fd
        PROVE  batch'[i].events \subseteq Asked(sock'[batch'[i].fd].interest)
    <3>1. sock'[batch'[i].fd].interest = sock[batch'[i].fd].interest
      BY <1>1, <2>2
    <3>2. i + 1 \in 1 .. Len(batch) /\ batch[i + 1] = batch'[i]
      BY <1>1
    <3>3. batch[i + 1].events \subseteq Asked(sock[batch[i + 1].fd].interest)
      BY <2>2, <3>2 DEF SafeInv, QueueInv
    <3> QED BY <3>1, <3>2, <3>3
  <2> QED BY <1>1, <2>1, <2>2 DEF QueueInv, Ready
<1>4. NoStaleEvent'
  <2>1. DOMAIN batch = 1 .. Len(batch) /\ DOMAIN batch' = 1 .. Len(batch')
    BY <1>0, <1>1, LenProperties
  <2> QED BY <1>1, <2>1 DEF SafeInv, NoStaleEvent
<1> QED BY <1>2, <1>3, <1>4 DEF SafeInv

LEMMA ExitKeeps == ASSUME SafeInv, Exit PROVE SafeInv'
<1>1. pc' = "exit" /\ UNCHANGED <<conn, sock, got, rdlist, batch, acc, timer, totals, balance, fresh>>
  BY DEF Exit
<1>2. TypeOK'
  BY <1>1 DEF SafeInv, TypeOK, Running, totals
<1>3. QueueInv'
  BY <1>1 DEF SafeInv, QueueInv, Running
<1>4. NoStaleEvent'
  BY <1>1 DEF SafeInv, NoStaleEvent
<1> QED BY <1>2, <1>3, <1>4 DEF SafeInv

LEMMA WaitFailsKeeps == ASSUME SafeInv, WaitFails PROVE SafeInv'
<1>1. pc' = "returned" /\ UNCHANGED <<conn, sock, got, rdlist, batch, acc, timer, totals, balance, fresh>>
  BY DEF WaitFails
<1>2. TypeOK'
  BY <1>1 DEF SafeInv, TypeOK, Running, totals
<1>3. QueueInv'
  BY <1>1 DEF SafeInv, QueueInv, Running
<1>4. NoStaleEvent'
  BY <1>1 DEF SafeInv, NoStaleEvent
<1> QED BY <1>2, <1>3, <1>4 DEF SafeInv

LEMMA OpenTypes ==
  ASSUME TypeOK, NEW fd \in Fd, OpenConnection(fd)
  PROVE  /\ conn' \in [Fd -> Connection \cup {NULL}] /\ sock' \in [Fd -> Socket]
         /\ got' \in [Fd -> 0 .. ReqLen] /\ balance' \in [Fd -> Int]
         /\ conn'[fd] = FreshConn /\ sock'[fd] \in ConnectOutcomes /\ got'[fd] = 0 /\ balance'[fd] = 0
         /\ \A f \in Fd \ {fd} : /\ conn'[f] = conn[f] /\ sock'[f] = sock[f]
                                 /\ got'[f] = got[f] /\ balance'[f] = balance[f]
<1>1. PICK s \in ConnectOutcomes : sock' = [sock EXCEPT ![fd] = s]
  BY DEF OpenConnection
<1>2. s \in Socket /\ FreshConn \in Connection
  BY FreshTypes
<1>3. 0 \in 0 .. ReqLen /\ 0 \in Int
  BY SizesAssumption
<1> QED BY <1>1, <1>2, <1>3 DEF TypeOK, OpenConnection

LEMMA StartConnectionKeeps == ASSUME SafeInv, StartConnection PROVE SafeInv'
<1>1. PICK fd \in Fd :
        \/ OpenConnection(fd) /\ UNCHANGED <<pc, rdlist, batch, acc, timer, totals, fresh>>
        \/ Exit
  BY DEF StartConnection
<1>2. CASE Exit
  BY <1>2, ExitKeeps
<1>3. CASE OpenConnection(fd) /\ UNCHANGED <<pc, rdlist, batch, acc, timer, totals, fresh>>
  <2>1. /\ conn' \in [Fd -> Connection \cup {NULL}] /\ sock' \in [Fd -> Socket]
        /\ got' \in [Fd -> 0 .. ReqLen] /\ balance' \in [Fd -> Int]
    BY <1>3, OpenTypes DEF SafeInv
  <2>2. pc = "start" /\ Running /\ batch = <<>> /\ Len(batch) = 0
    BY EmptySeq DEF StartConnection, SafeInv, QueueInv, Running, Busy
  <2>3. TypeOK'
    BY <1>3, <2>1, <2>2 DEF SafeInv, TypeOK, totals, Running
  <2>4. QueueInv'
    BY <1>3, <2>2 DEF SafeInv, QueueInv, Running, Busy
  <2>5. NoStaleEvent'
    BY <1>3 DEF SafeInv, NoStaleEvent
  <2> QED BY <2>3, <2>4, <2>5 DEF SafeInv
<1> QED BY <1>1, <1>2, <1>3

LEMMA EnterLoopKeeps == ASSUME SafeInv, EnterLoop PROVE SafeInv'
<1>1. /\ pc = "start" /\ pc' = "wait" /\ timer' \in {"none", "armed", "expired"}
      /\ \A fd \in Fd : conn[fd] # NULL
      /\ UNCHANGED <<conn, sock, got, rdlist, batch, acc, totals, balance, fresh>>
  BY DEF EnterLoop
<1>2. TypeOK'
  BY <1>1 DEF SafeInv, TypeOK, Running, totals
<1>3. QueueInv'
  BY <1>1 DEF SafeInv, QueueInv, Running, Busy
<1>4. NoStaleEvent'
  BY <1>1 DEF SafeInv, NoStaleEvent
<1> QED BY <1>2, <1>3, <1>4 DEF SafeInv

LEMMA EpollDropKeeps == ASSUME SafeInv, EpollDrop PROVE SafeInv'
<1>1. PICK i \in DOMAIN rdlist : rdlist' = RemoveAt(rdlist, i)
  BY DEF EpollDrop
<1>2. i \in 1 .. Len(rdlist) /\ rdlist \in Seq(Fd \cup {timerfd}) /\ NoRepeat(rdlist)
  BY LenProperties DEF SafeInv, TypeOK, QueueInv
<1>3. Ready'
  BY <1>1, <1>2, RemoveFacts DEF Ready
<1>4. pc = "wait" /\ UNCHANGED <<pc, conn, sock, got, batch, acc, timer, totals, balance, fresh>>
  BY DEF EpollDrop
<1> QED BY <1>3, <1>4, StayKeeps DEF SafeInv, TypeOK, Running

LEMMA ReportedFacts ==
  ASSUME TypeOK, NEW fd \in Fd \cup {timerfd}
  PROVE  /\ Reported(fd) \subseteq {"IN", "OUT", "RDHUP", "ERR"}
         /\ fd \in Fd => Reported(fd) = Poll(fd) \cap Asked(sock[fd].interest)
         /\ fd = timerfd => Reported(fd) = IF timer = "expired" THEN {"IN"} ELSE {}
<1>1. CASE fd = timerfd
  BY <1>1, FdFacts DEF Reported, Poll
<1>2. CASE fd \in Fd
  <2>1. fd # timerfd /\ sock[fd].interest \in {"none", "connect", "read", "write"}
    BY <1>2, FdFacts DEF TypeOK, Socket
  <2>2. Asked(sock[fd].interest) \subseteq {"IN", "OUT", "RDHUP", "ERR"}
    BY <2>1 DEF Asked
  <2> QED BY <1>2, <2>1, <2>2 DEF Reported
<1> QED BY <1>1, <1>2

LEMMA EpollWaitFacts ==
  ASSUME SafeInv, EpollWait
  PROVE  \E n \in 1 .. Len(rdlist) :
           /\ \A i \in 1 .. n : Reported(rdlist[i]) # {}
           /\ batch' \in Seq(Event) /\ Len(batch') = n /\ DOMAIN batch' = 1 .. n
           /\ \A i \in 1 .. n : batch'[i] = [fd |-> rdlist[i], events |-> Reported(rdlist[i])]
           /\ rdlist' = SubSeq(rdlist, n + 1, Len(rdlist))
<1> DEFINE n == Smaller(Len(rdlist), MaxEvents)
           events == [i \in 1 .. n |-> [fd |-> rdlist[i], events |-> Reported(rdlist[i])]]
<1>1. rdlist \in Seq(Fd \cup {timerfd}) /\ rdlist # <<>>
  BY DEF SafeInv, TypeOK, EpollWait
<1>2. Len(rdlist) \in Nat \ {0}
  BY <1>1, EmptySeq
<1>3. n \in 1 .. Len(rdlist)
  BY <1>2, SizesAssumption DEF Smaller
<1>4. /\ \A i \in 1 .. n : Reported(rdlist[i]) # {}
      /\ batch' = events
      /\ rdlist' = SubSeq(rdlist, n + 1, Len(rdlist))
  BY DEF EpollWait
<1> HIDE DEF n
<1>5. \A i \in 1 .. n : [fd |-> rdlist[i], events |-> Reported(rdlist[i])] \in Event
  <2>1. SUFFICES ASSUME NEW i \in 1 .. n
                 PROVE  [fd |-> rdlist[i], events |-> Reported(rdlist[i])] \in Event
    OBVIOUS
  <2>2. i \in 1 .. Len(rdlist)
    BY <1>2, <1>3
  <2>3. rdlist[i] \in Fd \cup {timerfd}
    BY <1>1, <2>2, ElementOfSeq
  <2>4. Reported(rdlist[i]) \subseteq {"IN", "OUT", "RDHUP", "ERR"}
    BY <2>3, ReportedFacts DEF SafeInv
  <2> QED BY <2>3, <2>4 DEF Event
<1>6. n \in Nat
  BY <1>2, <1>3
<1>7. events \in Seq(Event) /\ Len(events) = n
  BY <1>5, <1>6
<1> QED BY <1>3, <1>4, <1>7

LEMMA EpollWaitKeeps == ASSUME SafeInv, EpollWait PROVE SafeInv'
<1>1. PICK n \in 1 .. Len(rdlist) :
        /\ batch' \in Seq(Event) /\ Len(batch') = n /\ DOMAIN batch' = 1 .. n
        /\ \A i \in 1 .. n : batch'[i] = [fd |-> rdlist[i], events |-> Reported(rdlist[i])]
        /\ rdlist' = SubSeq(rdlist, n + 1, Len(rdlist))
  BY EpollWaitFacts
<1>2. /\ rdlist \in Seq(Fd \cup {timerfd}) /\ NoRepeat(rdlist) /\ Len(rdlist) \in Nat
      /\ \A i \in 1 .. Len(rdlist) : rdlist[i] \in Fd \cup {timerfd}
  BY LenProperties, ElementOfSeq DEF SafeInv, TypeOK, QueueInv
<1>3. /\ pc' = "dispatch" /\ fresh' = {}
      /\ UNCHANGED <<conn, sock, got, acc, timer, totals, balance>> /\ pc = "wait"
  BY DEF EpollWait
<1>4. Ready'
  <2>1. n \in 0 .. Len(rdlist)
    BY <1>1, <1>2
  <2> QED BY <1>1, <1>2, <2>1, RestFacts DEF Ready
<1>5. TypeOK'
  BY <1>1, <1>3, <1>4 DEF SafeInv, TypeOK, totals, Running, Ready
<1>6. \A i \in 1 .. n : i \in 1 .. Len(rdlist) /\ batch'[i].fd = rdlist[i] /\ batch'[i].events = Reported(rdlist[i])
  BY <1>1, <1>2
<1>7. QueueInv'
  <2>1. OneEventEach(batch')
    BY <1>1, <1>2, <1>6 DEF OneEventEach, NoRepeat
  <2>2. batch' # <<>>
    BY <1>1, EmptySeq
  <2>3. acc' = "empty"
    BY <1>3 DEF SafeInv, QueueInv, Running
  <2>4. ASSUME NEW i \in 1 .. Len(batch'), batch'[i].fd \in Fd
        PROVE  batch'[i].events \subseteq Asked(sock'[batch'[i].fd].interest)
    <3>1. Reported(rdlist[i]) = Poll(rdlist[i]) \cap Asked(sock[rdlist[i]].interest)
      BY <1>1, <1>6, <2>4, ReportedFacts DEF SafeInv
    <3> QED BY <1>1, <1>3, <1>6, <3>1
  <2> QED BY <1>3, <1>4, <2>1, <2>2, <2>3, <2>4 DEF QueueInv, Ready, Busy
<1>8. NoStaleEvent'
  BY <1>3 DEF NoStaleEvent
<1> QED BY <1>5, <1>7, <1>8 DEF SafeInv

(* A connection is replaced only in the middle of its own event.            *)
LEMMA RecycleKeeps ==
  ASSUME SafeInv, Running, Busy, Current \in Fd, Recycle(Current)
  PROVE  SafeInv'
<1>1. CASE Exit
  BY <1>1, ExitKeeps
<1>2. CASE /\ OpenConnection(Current)
           /\ rdlist' = Unqueued(rdlist, Current)
           /\ fresh' = fresh \cup {Current}
           /\ NextEvent
           /\ UNCHANGED <<timer, totals>>
  <2> DEFINE fd == Current
  <2>1. fd \in Fd
    OBVIOUS
  <2> HIDE DEF fd
  <2>2. /\ conn' \in [Fd -> Connection \cup {NULL}] /\ sock' \in [Fd -> Socket]
        /\ got' \in [Fd -> 0 .. ReqLen] /\ balance' \in [Fd -> Int]
        /\ conn'[fd] = FreshConn
        /\ \A f \in Fd \ {fd} : conn'[f] = conn[f] /\ sock'[f] = sock[f]
    <3>1. OpenConnection(fd)
      BY <1>2 DEF fd
    <3> QED BY <2>1, <3>1, OpenTypes DEF SafeInv
  <2>3. \A f \in Fd : conn'[f] # NULL
    BY <2>2, FreshTypes DEF SafeInv, TypeOK, Busy
  <2>4. Ready'
    BY <1>2, UnqueuedFacts DEF Ready, SafeInv, TypeOK, QueueInv
  <2>5. fresh' \subseteq Fd /\ fresh' \subseteq fresh \cup {Current}
    BY <1>2 DEF SafeInv, TypeOK
  <2>6. total_requests' \in 0 .. Wrap - 1 /\ total_responses' \in 0 .. Wrap - 1 /\ timer' = timer
    BY <1>2 DEF SafeInv, TypeOK, totals
  <2>7. \A f \in Fd \ {Current} : sock'[f].interest = sock[f].interest
    BY <2>2 DEF fd
  <2> QED BY <1>2, <2>2, <2>3, <2>4, <2>5, <2>6, <2>7, TurnKeeps
<1> QED BY <1>1, <1>2 DEF Recycle

LEMMA HandlingFacts ==
  ASSUME SafeInv, NEW fd, Handling(fd)
  PROVE  Running /\ Busy /\ Current = fd /\ batch # <<>> /\ pc = "dispatch"
         /\ Head(batch) = batch[1] /\ 1 \in 1 .. Len(batch)
<1>1. Running /\ Busy /\ Current = fd /\ batch # <<>> /\ pc = "dispatch"
  BY DEF Handling, Running, Busy, Current, SafeInv, QueueInv
<1> QED BY <1>1, HeadFacts DEF SafeInv, TypeOK

LEMMA HandlerKeeps == ASSUME SafeInv, NEW fd \in Fd, Handler(fd) PROVE SafeInv'
<1>0. Handling(fd)
  BY DEF Handler, OnRdhup, OnErr, OnIn, OnOut
<1>1. Running /\ Busy /\ Current = fd /\ pc = "dispatch" /\ conn[fd] # NULL
  <2>1. Running /\ Busy /\ Current = fd /\ pc = "dispatch"
    BY <1>0, HandlingFacts
  <2> QED BY <2>1 DEF SafeInv, TypeOK
<1>2. CASE Recycle(fd)
  BY <1>1, <1>2, RecycleKeeps
<1>3. CASE Exit
  BY <1>3, ExitKeeps
<1>4. CASE OnIn(fd)
  <2>1. /\ pc' = "recv" /\ acc' = conn[fd].buf
        /\ UNCHANGED <<conn, sock, got, rdlist, batch, timer, totals, balance, fresh>>
    BY <1>4 DEF OnIn
  <2>2. conn[fd] \in Connection
    BY <1>1 DEF SafeInv, TypeOK
  <2>3. acc' \in {"empty", "partial", "bad", "complete", "nothing"}
    BY <2>1, <2>2 DEF Connection
  <2>4. Ready'
    BY <2>1 DEF Ready, SafeInv, TypeOK, QueueInv
  <2> QED BY <1>1, <2>1, <2>3, <2>4, StayKeeps DEF SafeInv, TypeOK
<1>5. CASE /\ conn' = [conn EXCEPT ![fd].connected = TRUE]
           /\ pc' = "send"
           /\ UNCHANGED <<sock, got, rdlist, batch, acc, timer, totals, balance, fresh>>
  <2>1. conn[fd] \in Connection /\ conn'[fd] = [conn[fd] EXCEPT !.connected = TRUE]
    BY <1>1, <1>5 DEF SafeInv, TypeOK
  <2>2. conn'[fd] \in Connection
    BY <2>1 DEF Connection
  <2>3. conn' \in [Fd -> Connection \cup {NULL}] /\ \A f \in Fd : conn[f] # NULL => conn'[f] # NULL
    BY <1>5, <2>2, NullAssumption DEF SafeInv, TypeOK
  <2>4. Ready' /\ acc' = "empty"
    BY <1>1, <1>5 DEF Ready, SafeInv, TypeOK, QueueInv
  <2> QED BY <1>1, <1>5, <2>3, <2>4, StayKeeps DEF SafeInv, TypeOK
<1> QED BY <1>2, <1>3, <1>4, <1>5 DEF Handler, OnRdhup, OnErr, OnOut

LEMMA InHandFacts ==
  ASSUME SafeInv, pc \in {"recv", "send"}
  PROVE  /\ Running /\ Busy /\ Current \in Fd /\ batch # <<>>
         /\ conn[Current] \in Connection /\ sock[Current] \in Socket
         /\ \A fd \in Fd : conn[fd] # NULL
<1>1. Running /\ Busy /\ Current \in Fd /\ batch # <<>>
  BY DEF Running, Busy, SafeInv, QueueInv
<1>2. conn[Current] # NULL /\ \A fd \in Fd : conn[fd] # NULL
  BY <1>1 DEF SafeInv, TypeOK
<1> QED BY <1>1, <1>2 DEF SafeInv, TypeOK

LEMMA ModifyTypes ==
  ASSUME SafeInv, NEW fd \in Fd, NEW type \in {"read", "write"}, ModifyEvent(fd, type)
  PROVE  /\ Ready' /\ sock' \in [Fd -> Socket]
         /\ sock' = [sock EXCEPT ![fd] = [sock[fd] EXCEPT !.interest = type]]
<1>1. sock[fd] \in Socket /\ sock' = [sock EXCEPT ![fd] = [sock[fd] EXCEPT !.interest = type]]
  BY DEF ModifyEvent, SafeInv, TypeOK
<1>2. [sock[fd] EXCEPT !.interest = type] \in Socket
  BY <1>1 DEF Socket
<1>3. rdlist' = rdlist \/ rdlist' = Queued(rdlist, fd)
  BY DEF ModifyEvent
<1>4. Ready'
  BY <1>3, QueuedFacts DEF Ready, SafeInv, TypeOK, QueueInv
<1> QED BY <1>1, <1>2, <1>4 DEF SafeInv, TypeOK

(* What RecvData does to the pieces of the response.                        *)
LEMMA RecvDataFacts ==
  ASSUME SafeInv, RecvData
  PROVE  /\ Current \in Fd
         /\ Head(sock[Current].rx) = sock[Current].rx[1] /\ sock[Current].rx[1] \in Piece
         /\ Len(sock[Current].rx) \in Nat \ {0}
         /\ sock' = [sock EXCEPT ![Current] = [sock[Current] EXCEPT !.rx = Tail(sock[Current].rx)]]
         /\ sock' \in [Fd -> Socket]
         /\ Len(Tail(sock[Current].rx)) = Len(sock[Current].rx) - 1
         /\ \A i \in 1 .. Len(sock[Current].rx) - 1 : Tail(sock[Current].rx)[i] = sock[Current].rx[i + 1]
<1>1. Current \in Fd /\ sock[Current] \in Socket
  BY InHandFacts DEF RecvData
<1> DEFINE rx == sock[Current].rx
<1>2. rx \in Seq(Piece) /\ rx # <<>>
  BY <1>1 DEF RecvData, Socket
<1> HIDE DEF rx
<1>3. /\ Tail(rx) \in Seq(Piece) /\ Len(Tail(rx)) = Len(rx) - 1 /\ Len(rx) \in Nat \ {0}
      /\ \A i \in 1 .. Len(Tail(rx)) : Tail(rx)[i] = rx[i + 1]
      /\ Head(rx) \in Piece /\ Head(rx) = rx[1]
  BY <1>2, HeadTailProperties, EmptySeq
<1>4. sock' = [sock EXCEPT ![Current] = [sock[Current] EXCEPT !.rx = Tail(rx)]]
  BY <1>1 DEF RecvData, rx, SafeInv, TypeOK
<1>5. [sock[Current] EXCEPT !.rx = Tail(rx)] \in Socket
  BY <1>1, <1>3 DEF Socket
<1>6. sock' \in [Fd -> Socket]
  BY <1>1, <1>4, <1>5 DEF SafeInv, TypeOK
<1> QED BY <1>1, <1>3, <1>4, <1>6 DEF rx

LEMMA RecvDataKeeps == ASSUME SafeInv, RecvData PROVE SafeInv'
<1>1. /\ pc = "recv" /\ UNCHANGED <<pc, conn, got, rdlist, batch, timer, totals, balance, fresh>>
      /\ acc' = Parse(acc, Head(sock[Current].rx))
  BY DEF RecvData
<1>2. /\ sock' \in [Fd -> Socket] /\ Head(sock[Current].rx) \in Piece
      /\ \A fd \in Fd : sock'[fd].interest = sock[fd].interest
  <2>1. /\ Current \in Fd /\ sock' \in [Fd -> Socket] /\ Head(sock[Current].rx) \in Piece
        /\ sock' = [sock EXCEPT ![Current] = [sock[Current] EXCEPT !.rx = Tail(sock[Current].rx)]]
    BY RecvDataFacts
  <2>2. sock[Current] \in Socket
    BY <2>1 DEF SafeInv, TypeOK
  <2> HIDE DEF Current
  <2> QED BY <2>1, <2>2 DEF SafeInv, TypeOK, Socket
<1>3. acc' \in {"empty", "partial", "bad", "complete", "nothing"}
  <2>1. acc \in {"empty", "partial", "bad", "complete", "nothing"}
    BY DEF SafeInv, TypeOK
  <2> QED BY <1>1, <1>2, <2>1 DEF Parse, Piece
<1>4. Ready'
  BY <1>1 DEF Ready, SafeInv, TypeOK, QueueInv
<1> QED BY <1>1, <1>2, <1>3, <1>4, StayKeeps DEF SafeInv, TypeOK, Running

LEMMA CounterFacts == \A n \in 0 .. Wrap - 1 : (n + 1) % Wrap \in 0 .. Wrap - 1
BY SizesAssumption

LEMMA ResponseCompleteKeeps == ASSUME SafeInv, ResponseComplete PROVE SafeInv'
<1>1. /\ pc = "recv" /\ ModifyEvent(Current, "write") /\ NextEvent
      /\ conn' = [conn EXCEPT ![Current].buf = "empty"]
      /\ total_responses' = (total_responses + 1) % Wrap
      /\ balance' = [balance EXCEPT ![Current] = @ - 1]
      /\ UNCHANGED <<got, timer, total_requests, fresh>>
  BY DEF ResponseComplete, RecvDone
<1>2. /\ Running /\ Busy /\ Current \in Fd /\ conn[Current] \in Connection
      /\ \A fd \in Fd : conn[fd] # NULL
  BY <1>1, InHandFacts
<1> DEFINE fd == Current
<1> HIDE DEF fd
<1>3. /\ Ready' /\ sock' \in [Fd -> Socket]
      /\ \A f \in Fd \ {Current} : sock'[f].interest = sock[f].interest
  <2>1. fd \in Fd /\ ModifyEvent(fd, "write")
    BY <1>1, <1>2 DEF fd
  <2>2. /\ Ready' /\ sock' \in [Fd -> Socket]
        /\ sock' = [sock EXCEPT ![fd] = [sock[fd] EXCEPT !.interest = "write"]]
    BY <2>1, ModifyTypes
  <2> QED BY <2>1, <2>2 DEF fd, SafeInv, TypeOK
<1>4. conn' \in [Fd -> Connection \cup {NULL}] /\ \A f \in Fd : conn'[f] # NULL
  <2>1. fd \in Fd /\ conn[fd] \in Connection /\ conn' = [conn EXCEPT ![fd] = [conn[fd] EXCEPT !.buf = "empty"]]
    BY <1>1, <1>2 DEF fd, SafeInv, TypeOK
  <2>2. [conn[fd] EXCEPT !.buf = "empty"] \in Connection
    BY <2>1 DEF Connection
  <2> QED BY <1>2, <2>1, <2>2, NullAssumption DEF SafeInv, TypeOK
<1>5. balance' \in [Fd -> Int] /\ total_responses' \in 0 .. Wrap - 1
  BY <1>1, <1>2, CounterFacts DEF SafeInv, TypeOK
<1> QED BY <1>1, <1>2, <1>3, <1>4, <1>5, TurnKeeps DEF SafeInv, TypeOK

LEMMA ResponsePartialKeeps == ASSUME SafeInv, ResponsePartial PROVE SafeInv'
<1>1. /\ pc = "recv" /\ NextEvent /\ acc \in {"partial", "bad"}
      /\ conn' = [conn EXCEPT ![Current].buf = acc]
      /\ UNCHANGED <<sock, got, rdlist, timer, totals, balance, fresh>>
  BY DEF ResponsePartial, RecvDone
<1>2. /\ Running /\ Busy /\ Current \in Fd /\ conn[Current] \in Connection
      /\ \A fd \in Fd : conn[fd] # NULL
  BY <1>1, InHandFacts
<1> DEFINE fd == Current
<1> HIDE DEF fd
<1>3. conn' \in [Fd -> Connection \cup {NULL}] /\ \A f \in Fd : conn'[f] # NULL
  <2>1. fd \in Fd /\ conn[fd] \in Connection /\ conn' = [conn EXCEPT ![fd] = [conn[fd] EXCEPT !.buf = acc]]
    BY <1>1, <1>2 DEF fd, SafeInv, TypeOK
  <2>2. [conn[fd] EXCEPT !.buf = acc] \in Connection
    BY <1>1, <2>1 DEF Connection
  <2> QED BY <1>2, <2>1, <2>2, NullAssumption DEF SafeInv, TypeOK
<1>4. Ready'
  BY <1>1 DEF Ready, SafeInv, TypeOK, QueueInv
<1>5. total_requests' \in 0 .. Wrap - 1 /\ total_responses' \in 0 .. Wrap - 1
  BY <1>1 DEF SafeInv, TypeOK, totals
<1> QED BY <1>1, <1>2, <1>3, <1>4, <1>5, TurnKeeps DEF SafeInv, TypeOK

LEMMA ReceiveKeeps == ASSUME SafeInv, Receive PROVE SafeInv'
<1>1. CASE ReceiveFails
  <2>1. pc = "recv" /\ Recycle(Current)
    BY <1>1 DEF ReceiveFails, RecvDone
  <2> QED BY <2>1, InHandFacts, RecycleKeeps
<1> QED BY <1>1, RecvDataKeeps, ResponseCompleteKeeps, ResponsePartialKeeps DEF Receive

(* What send(2) takes is no more than there is room for or left to send.    *)
LEMMA SendDataFacts ==
  ASSUME SafeInv, SendData
  PROVE  \E n \in Nat :
           LET s == sock[Current]
               c == conn[Current]
           IN  /\ s.state = "open" /\ s.tx + n \in 0 .. SndBuf
               /\ c.sendoffset + n \in 0 .. ReqLen
               /\ c.sendoffset < ReqLen => n > 0
               /\ \/ /\ c.sendoffset + n < ReqLen
                     /\ conn' = [conn EXCEPT ![Current] = [c EXCEPT !.sendoffset = c.sendoffset + n]]
                     /\ sock' = [sock EXCEPT ![Current] = [s EXCEPT !.tx = s.tx + n]]
                     /\ UNCHANGED <<pc, rdlist, batch, acc, total_requests, balance>>
                  \/ /\ c.sendoffset + n = ReqLen
                     /\ conn' = [conn EXCEPT ![Current] = [c EXCEPT !.sendoffset = 0]]
                     /\ sock' = [sock EXCEPT ![Current] = [s EXCEPT !.tx = s.tx + n, !.interest = "read"]]
                     /\ rdlist' = (IF Poll(Current) \cap Asked("read") # {}
                                   THEN Queued(rdlist, Current) ELSE rdlist)
                     /\ total_requests' = (total_requests + 1) % Wrap
                     /\ balance' = [balance EXCEPT ![Current] = balance[Current] + 1]
                     /\ NextEvent
<1> DEFINE fd == Current
           n == Smaller(SndBuf - sock[fd].tx, ReqLen - conn[fd].sendoffset)
<1>1. /\ pc = "send" /\ sock[fd].state = "open" /\ sock[fd].tx < SndBuf
      /\ \/ /\ conn[fd].sendoffset + n < ReqLen
            /\ conn' = [conn EXCEPT ![fd].sendoffset = conn[fd].sendoffset + n]
            /\ sock' = [sock EXCEPT ![fd].tx = @ + n]
            /\ UNCHANGED <<pc, rdlist, batch, acc, total_requests, balance>>
         \/ /\ ~(conn[fd].sendoffset + n < ReqLen)
            /\ conn' = [conn EXCEPT ![fd].sendoffset = 0]
            /\ sock' = [[sock EXCEPT ![fd].tx = @ + n] EXCEPT ![fd].interest = "read"]
            /\ rdlist' = (IF Poll(fd) \cap Asked("read") # {} THEN Queued(rdlist, fd) ELSE rdlist)
            /\ total_requests' = (total_requests + 1) % Wrap
            /\ balance' = [balance EXCEPT ![fd] = @ + 1]
            /\ NextEvent
  BY DEF SendData
<1>2. fd \in Fd /\ conn[fd] \in Connection /\ sock[fd] \in Socket
  BY <1>1, InHandFacts
<1>3. sock[fd].tx \in 0 .. SndBuf /\ conn[fd].sendoffset \in 0 .. ReqLen
  BY <1>2 DEF Socket, Connection
<1>4. conn \in [Fd -> Connection \cup {NULL}] /\ sock \in [Fd -> Socket] /\ balance \in [Fd -> Int]
  BY DEF SafeInv, TypeOK
<1>5. /\ n \in Nat /\ sock[fd].tx + n \in 0 .. SndBuf /\ conn[fd].sendoffset + n \in 0 .. ReqLen
      /\ conn[fd].sendoffset < ReqLen => n > 0
  BY <1>1, <1>3, SizesAssumption DEF Smaller
<1> HIDE DEF fd, n
<1>6. CASE conn[fd].sendoffset + n < ReqLen
  <2>1. /\ conn' = [conn EXCEPT ![fd] = [conn[fd] EXCEPT !.sendoffset = conn[fd].sendoffset + n]]
        /\ sock' = [sock EXCEPT ![fd] = [sock[fd] EXCEPT !.tx = sock[fd].tx + n]]
    BY <1>1, <1>2, <1>4, <1>6
  <2> QED BY <1>1, <1>5, <1>6, <2>1 DEF fd
<1>7. CASE ~(conn[fd].sendoffset + n < ReqLen)
  <2>1. conn[fd].sendoffset + n = ReqLen
    <3> DEFINE sent == conn[fd].sendoffset + n
    <3>1. sent \in 0 .. ReqLen /\ ~(sent < ReqLen)
      BY <1>5, <1>7
    <3> HIDE DEF sent
    <3>2. sent = ReqLen
      BY <3>1, SizesAssumption
    <3> QED BY <3>2 DEF sent
  <2>2. conn' = [conn EXCEPT ![fd] = [conn[fd] EXCEPT !.sendoffset = 0]]
    BY <1>1, <1>2, <1>4, <1>7
  <2>3. balance' = [balance EXCEPT ![fd] = balance[fd] + 1]
    BY <1>1, <1>2, <1>4, <1>7
  <2>4. sock' = [sock EXCEPT ![fd] = [sock[fd] EXCEPT !.tx = sock[fd].tx + n, !.interest = "read"]]
    BY <1>1, <1>2, <1>4, <1>7
  <2> QED BY <1>1, <1>5, <1>7, <2>1, <2>2, <2>3, <2>4 DEF fd
<1> QED BY <1>6, <1>7

LEMMA SendDataKeeps == ASSUME SafeInv, SendData PROVE SafeInv'
<1> DEFINE fd == Current
           s == sock[fd]
           c == conn[fd]
<1>1. PICK n \in Nat :
        /\ s.tx + n \in 0 .. SndBuf /\ c.sendoffset + n \in 0 .. ReqLen
        /\ \/ /\ conn' = [conn EXCEPT ![fd] = [c EXCEPT !.sendoffset = c.sendoffset + n]]
              /\ sock' = [sock EXCEPT ![fd] = [s EXCEPT !.tx = s.tx + n]]
              /\ UNCHANGED <<pc, rdlist, batch, acc, total_requests, balance>>
           \/ /\ conn' = [conn EXCEPT ![fd] = [c EXCEPT !.sendoffset = 0]]
              /\ sock' = [sock EXCEPT ![fd] = [s EXCEPT !.tx = s.tx + n, !.interest = "read"]]
              /\ rdlist' = (IF Poll(fd) \cap Asked("read") # {} THEN Queued(rdlist, fd) ELSE rdlist)
              /\ total_requests' = (total_requests + 1) % Wrap
              /\ balance' = [balance EXCEPT ![fd] = balance[fd] + 1]
              /\ NextEvent
  BY SendDataFacts
<1>2. pc = "send" /\ UNCHANGED <<got, timer, total_responses, fresh>>
  BY DEF SendData
<1>3. /\ Running /\ Busy /\ fd \in Fd /\ c \in Connection /\ s \in Socket
      /\ \A f \in Fd : conn[f] # NULL
  BY <1>2, InHandFacts
<1>4. fd = Current /\ s = sock[fd] /\ c = conn[fd]
  OBVIOUS
<1> HIDE DEF fd, s, c
<1>5. CASE /\ conn' = [conn EXCEPT ![fd] = [c EXCEPT !.sendoffset = c.sendoffset + n]]
           /\ sock' = [sock EXCEPT ![fd] = [s EXCEPT !.tx = s.tx + n]]
           /\ UNCHANGED <<pc, rdlist, batch, acc, total_requests, balance>>
  <2>1. [c EXCEPT !.sendoffset = c.sendoffset + n] \in Connection
    BY <1>1, <1>3 DEF Connection
  <2>2. [s EXCEPT !.tx = s.tx + n] \in Socket /\ [s EXCEPT !.tx = s.tx + n].interest = s.interest
    BY <1>1, <1>3 DEF Socket
  <2>3. conn' \in [Fd -> Connection \cup {NULL}] /\ \A f \in Fd : conn'[f] # NULL
    BY <1>3, <1>5, <2>1, NullAssumption DEF SafeInv, TypeOK
  <2>4. sock' \in [Fd -> Socket] /\ \A f \in Fd : sock'[f].interest = sock[f].interest
    BY <1>3, <1>4, <1>5, <2>2 DEF SafeInv, TypeOK
  <2>5. Ready'
    BY <1>5 DEF Ready, SafeInv, TypeOK, QueueInv
  <2> QED BY <1>2, <1>3, <1>5, <2>3, <2>4, <2>5, StayKeeps DEF SafeInv, TypeOK, totals
<1>6. CASE /\ conn' = [conn EXCEPT ![fd] = [c EXCEPT !.sendoffset = 0]]
           /\ sock' = [sock EXCEPT ![fd] = [s EXCEPT !.tx = s.tx + n, !.interest = "read"]]
           /\ rdlist' = (IF Poll(fd) \cap Asked("read") # {} THEN Queued(rdlist, fd) ELSE rdlist)
           /\ total_requests' = (total_requests + 1) % Wrap
           /\ balance' = [balance EXCEPT ![fd] = balance[fd] + 1]
           /\ NextEvent
  <2>1. [c EXCEPT !.sendoffset = 0] \in Connection
    BY <1>3, SizesAssumption DEF Connection
  <2>2. [s EXCEPT !.tx = s.tx + n, !.interest = "read"] \in Socket
    BY <1>1, <1>3 DEF Socket
  <2>3. conn' \in [Fd -> Connection \cup {NULL}] /\ \A f \in Fd : conn'[f] # NULL
    BY <1>3, <1>6, <2>1, NullAssumption DEF SafeInv, TypeOK
  <2>4. sock' \in [Fd -> Socket] /\ \A f \in Fd \ {Current} : sock'[f].interest = sock[f].interest
    BY <1>3, <1>4, <1>6, <2>2 DEF SafeInv, TypeOK
  <2>5. Ready'
    <3>1. fd \in Fd \cup {timerfd} /\ rdlist \in Seq(Fd \cup {timerfd}) /\ NoRepeat(rdlist)
      BY <1>3 DEF SafeInv, TypeOK, QueueInv
    <3>2. rdlist' = rdlist \/ rdlist' = Queued(rdlist, fd)
      BY <1>6
    <3> QED BY <3>1, <3>2, QueuedFacts DEF Ready
  <2>6. /\ balance' \in [Fd -> Int] /\ total_requests' \in 0 .. Wrap - 1
        /\ total_responses' \in 0 .. Wrap - 1
    BY <1>2, <1>3, <1>6, CounterFacts DEF SafeInv, TypeOK
  <2> QED BY <1>2, <1>3, <1>6, <2>3, <2>4, <2>5, <2>6, TurnKeeps DEF SafeInv, TypeOK
<1> QED BY <1>1, <1>5, <1>6

LEMMA SendAgainKeeps == ASSUME SafeInv, SendAgain PROVE SafeInv'
<1> DEFINE fd == Current
<1>1. pc = "send" /\ ModifyEvent(fd, "write") /\ NextEvent /\ UNCHANGED <<conn, got, timer, totals, balance, fresh>>
  BY DEF SendAgain
<1>2. Running /\ Busy /\ fd \in Fd /\ \A f \in Fd : conn[f] # NULL
  BY <1>1, InHandFacts
<1>3. fd = Current
  OBVIOUS
<1> HIDE DEF fd
<1>4. /\ Ready' /\ sock' \in [Fd -> Socket]
      /\ sock' = [sock EXCEPT ![fd] = [sock[fd] EXCEPT !.interest = "write"]]
  BY <1>1, <1>2, ModifyTypes
<1>5. \A f \in Fd \ {Current} : sock'[f].interest = sock[f].interest
  BY <1>2, <1>3, <1>4 DEF SafeInv, TypeOK
<1> QED BY <1>1, <1>2, <1>4, <1>5, TurnKeeps DEF SafeInv, TypeOK, totals

LEMMA TransmitKeeps == ASSUME SafeInv, Transmit PROVE SafeInv'
<1>1. CASE SendFails
  <2>1. pc = "send" /\ Recycle(Current)
    BY <1>1 DEF SendFails
  <2> QED BY <2>1, InHandFacts, RecycleKeeps
<1> QED BY <1>1, SendDataKeeps, SendAgainKeeps DEF Transmit

(* What the peer, the kernel and the user may do.                           *)
LEMMA PeerFacts ==
  ASSUME SafeInv, NEW fd \in Fd, Running, Serving(fd) \/ Trouble(fd)
  PROVE  /\ UNCHANGED <<pc, conn, batch, acc, timer, totals, balance, fresh>>
         /\ sock' \in [Fd -> Socket] /\ sock'[fd].interest = sock[fd].interest
         /\ got' \in [Fd -> 0 .. ReqLen]
         /\ \A f \in Fd \ {fd} : sock'[f] = sock[f] /\ got'[f] = got[f]
         /\ rdlist' = rdlist \/ rdlist' = Queued(rdlist, fd)
<1> DEFINE s == sock[fd]
<1>1. s \in Socket /\ sock \in [Fd -> Socket] /\ got \in [Fd -> 0 .. ReqLen] /\ 0 \in 0 .. ReqLen
  BY SizesAssumption DEF SafeInv, TypeOK
<1>2. ASSUME NEW state \in {"open", "refused", "failed"}, Settle(fd, state)
      PROVE  /\ sock' = [sock EXCEPT ![fd] = [s EXCEPT !.state = state]]
             /\ [s EXCEPT !.state = state] \in Socket /\ got' = got
             /\ UNCHANGED <<pc, conn, batch, acc, timer, totals, balance, fresh>>
             /\ rdlist' = rdlist \/ rdlist' = Queued(rdlist, fd)
  BY <1>1, <1>2 DEF Settle, Wake, Socket
<1>3. ASSUME NEW piece \in Piece, Arrive(fd, piece)
      PROVE  /\ sock' = [sock EXCEPT ![fd] = [s EXCEPT !.rx = Append(s.rx, piece)]]
             /\ [s EXCEPT !.rx = Append(s.rx, piece)] \in Socket
             /\ UNCHANGED <<pc, conn, batch, acc, timer, totals, balance, fresh>>
             /\ rdlist' = rdlist \/ rdlist' = Queued(rdlist, fd)
  <2>1. s.rx \in Seq(Piece)
    BY <1>1 DEF Socket
  <2>2. Append(s.rx, piece) \in Seq(Piece)
    BY <2>1, AppendProperties
  <2>3. [s EXCEPT !.rx = Append(s.rx, piece)] \in Socket
    BY <1>1, <2>2 DEF Socket
  <2> QED BY <1>1, <1>3, <2>3 DEF Arrive, Wake
<1>4. ASSUME NEW new \in Socket, sock' = [sock EXCEPT ![fd] = new], new.interest = s.interest
      PROVE  /\ sock' \in [Fd -> Socket] /\ sock'[fd].interest = sock[fd].interest
             /\ \A f \in Fd \ {fd} : sock'[f] = sock[f]
  BY <1>1, <1>4
<1>5. CASE PeerAccepts(fd) \/ PeerRefuses(fd) \/ ConnectFails(fd)
  <2>1. PICK state \in {"open", "refused", "failed"} : Settle(fd, state)
    BY <1>5 DEF PeerAccepts, PeerRefuses, ConnectFails
  <2>2. [s EXCEPT !.state = state].interest = s.interest
    BY <1>1 DEF Socket
  <2> QED BY <1>1, <1>2, <1>4, <2>1, <2>2
<1>6. CASE PeerSends(fd) \/ PeerEnds(fd) \/ PeerSendsJunk(fd)
  <2>1. PICK piece \in Piece : Arrive(fd, piece)
    BY <1>6 DEF PeerSends, PeerEnds, PeerSendsJunk, Piece
  <2>2. [s EXCEPT !.rx = Append(s.rx, piece)].interest = s.interest
    BY <1>1 DEF Socket
  <2>3. got' \in [Fd -> 0 .. ReqLen] /\ \A f \in Fd \ {fd} : got'[f] = got[f]
    BY <1>1, <1>6 DEF PeerSends, PeerEnds, PeerSendsJunk
  <2> QED BY <1>3, <1>4, <2>1, <2>2, <2>3
<1>7. CASE PeerReads(fd)
  <2>1. /\ s.tx > 0 /\ got[fd] < ReqLen
        /\ sock' = [sock EXCEPT ![fd] = [s EXCEPT !.tx = s.tx - 1]]
        /\ got' = [got EXCEPT ![fd] = got[fd] + 1]
        /\ UNCHANGED <<pc, conn, batch, acc, timer, totals, balance, fresh>>
        /\ rdlist' = rdlist \/ rdlist' = Queued(rdlist, fd)
    BY <1>1, <1>7 DEF PeerReads, Wake
  <2>2. [s EXCEPT !.tx = s.tx - 1] \in Socket /\ [s EXCEPT !.tx = s.tx - 1].interest = s.interest
    <3>1. s.tx \in 0 .. SndBuf
      BY <1>1 DEF Socket
    <3>2. s.tx - 1 \in 0 .. SndBuf
      BY <2>1, <3>1, SizesAssumption
    <3> HIDE DEF s
    <3> QED BY <1>1, <3>2 DEF Socket
  <2>3. got[fd] + 1 \in 0 .. ReqLen
    BY <1>1, <2>1, SizesAssumption
  <2> HIDE DEF s
  <2> QED BY <1>1, <1>4, <2>1, <2>2, <2>3
<1>8. CASE PeerCloses(fd)
  <2>1. /\ sock' = [sock EXCEPT ![fd] = [s EXCEPT !.fin = TRUE]] /\ got' = got
        /\ UNCHANGED <<pc, conn, batch, acc, timer, totals, balance, fresh>>
        /\ rdlist' = rdlist \/ rdlist' = Queued(rdlist, fd)
    BY <1>1, <1>8 DEF PeerCloses, Wake
  <2>2. [s EXCEPT !.fin = TRUE] \in Socket /\ [s EXCEPT !.fin = TRUE].interest = s.interest
    BY <1>1 DEF Socket
  <2> QED BY <1>1, <1>4, <2>1, <2>2
<1>9. CASE PeerResets(fd)
  <2>1. /\ sock' = [sock EXCEPT ![fd] = [s EXCEPT !.state = "reset"]] /\ got' = got
        /\ UNCHANGED <<pc, conn, batch, acc, timer, totals, balance, fresh>>
        /\ rdlist' = rdlist \/ rdlist' = Queued(rdlist, fd)
    BY <1>1, <1>9 DEF PeerResets, Wake
  <2>2. [s EXCEPT !.state = "reset"] \in Socket /\ [s EXCEPT !.state = "reset"].interest = s.interest
    BY <1>1 DEF Socket
  <2> QED BY <1>1, <1>4, <2>1, <2>2
<1> QED BY <1>5, <1>6, <1>7, <1>8, <1>9 DEF Serving, Trouble

LEMMA EnvironmentKeeps == ASSUME SafeInv, Environment PROVE SafeInv'
<1>1. CASE TimerExpires
  <2>1. /\ timer' = "expired" /\ rdlist' = Queued(rdlist, timerfd) /\ Running
        /\ UNCHANGED <<pc, conn, sock, got, batch, acc, totals, balance, fresh>>
    BY <1>1 DEF TimerExpires, Environment
  <2>2. Ready'
    BY <2>1, QueuedFacts DEF Ready, SafeInv, TypeOK, QueueInv
  <2> QED BY <2>1, <2>2, StayKeeps DEF SafeInv, TypeOK
<1>2. ASSUME NEW fd \in Fd, Serving(fd) \/ Trouble(fd) PROVE SafeInv'
  <2>1. Running
    BY DEF Environment
  <2>2. /\ UNCHANGED <<pc, conn, batch, acc, timer, totals, balance, fresh>>
        /\ sock' \in [Fd -> Socket] /\ \A f \in Fd : sock'[f].interest = sock[f].interest
        /\ got' \in [Fd -> 0 .. ReqLen]
        /\ rdlist' = rdlist \/ rdlist' = Queued(rdlist, fd)
    BY <1>2, <2>1, PeerFacts
  <2>3. Ready'
    BY <2>2, QueuedFacts DEF Ready, SafeInv, TypeOK, QueueInv
  <2> QED BY <2>1, <2>2, <2>3, StayKeeps DEF SafeInv, TypeOK
<1> QED BY <1>1, <1>2 DEF Environment

LEMMA InitSafe == ASSUME Init PROVE SafeInv
<1>1. /\ <<>> \in Seq(Fd \cup {timerfd}) /\ <<>> \in Seq(Event) /\ Len(<<>>) = 0
  BY EmptySeq
<1>2. TypeOK
  BY <1>1, SizesAssumption, FreshTypes DEF Init, TypeOK
<1>3. QueueInv
  BY <1>1 DEF Init, QueueInv, NoRepeat, OneEventEach, Busy, Running
<1>4. NoStaleEvent
  BY DEF Init, NoStaleEvent
<1> QED BY <1>2, <1>3, <1>4 DEF SafeInv

LEMMA StepSafe == ASSUME SafeInv, [Next]_vars PROVE SafeInv'
<1>1. CASE OnTimer
  BY <1>1, ExitKeeps DEF OnTimer
<1>2. CASE Program
  BY <1>1, <1>2, StartConnectionKeeps, EnterLoopKeeps, EpollDropKeeps, EpollWaitKeeps,
     HandlerKeeps, ReceiveKeeps, TransmitKeeps DEF Program
<1>3. CASE Interrupt
  BY <1>3, ExitKeeps DEF Interrupt
<1>4. CASE UNCHANGED vars
  <2>1. TypeOK'
    BY <1>4 DEF SafeInv, TypeOK, vars, totals, Running
  <2>2. QueueInv'
    BY <1>4 DEF SafeInv, QueueInv, vars, totals, Running, Busy, Current
  <2>3. NoStaleEvent'
    BY <1>4 DEF SafeInv, NoStaleEvent, vars
  <2> QED BY <2>1, <2>2, <2>3 DEF SafeInv
<1> QED BY <1>2, <1>3, <1>4, EnvironmentKeeps, WaitFailsKeeps DEF Next

(* Every variable has its type, and the table is full while the loop runs,  *)
(* for every environment (networking.c, ev.c).                              *)
THEOREM Types == Spec => []TypeOK
<1> QED BY InitSafe, StepSafe, PTL DEF Spec, SafeInv

(* No event of a batch is ever about a connection opened after the          *)
(* epoll_wait that returned it, for every environment: a descriptor is      *)
(* closed and opened again only while its own, only, event is handled       *)
(* (ev.c:108-165).                                                          *)
THEOREM NeverStale == Spec => []NoStaleEvent
<1> QED BY InitSafe, StepSafe, PTL DEF Spec, SafeInv

-----------------------------------------------------------------------------
(***************************************************************************)
(* What epoll still owes the loop, in any environment.                     *)
(***************************************************************************)

\* What a socket reports to its registration.
Telling(s) ==
  (CASE s.state = "open" ->
          (IF s.rx # <<>> \/ s.fin THEN {"IN"} ELSE {})
          \cup (IF s.tx < SndBuf THEN {"OUT"} ELSE {})
          \cup (IF s.fin THEN {"RDHUP"} ELSE {})
     [] s.state \in {"refused", "failed", "reset"} -> AnyKind
     [] OTHER -> {})
  \cap Asked(s.interest)

LEMMA TellingIs ==
  ASSUME NEW fd \in Fd
  PROVE  Reported(fd) = Telling(sock[fd]) /\ Reported(fd)' = Telling(sock'[fd])
BY FdFacts DEF Reported, Poll, Telling, Asked, AnyKind

(* The second conjunct is what the property needs where a part of a        *)
(* response stays in the buffer: the registration then asks for data.      *)
DueInv ==
  Running =>
    /\ \A fd \in Fd \cup {timerfd} : Due(fd) # {} => Awaited(fd)
    /\ pc = "recv" => sock[Current].interest \in {"read", "write"}

LEMMA DueStays ==
  ASSUME NEW f \in Fd \cup {timerfd}, timer' = timer \/ f # timerfd,
         f \in Fd => conn'[f] = conn[f] /\ sock'[f] = sock[f]
  PROVE  Due(f)' = Due(f)
<1>1. CASE f = timerfd
  BY <1>1, FdFacts DEF Due, Interrupted, Reported, Poll
<1>2. CASE f \in Fd
  BY <1>2, TellingIs DEF Due, Interrupted
<1> QED BY <1>1, <1>2

LEMMA QueuedKeeps ==
  ASSUME SafeInv, NEW fd \in Fd \cup {timerfd}, rdlist' = rdlist \/ rdlist' = Queued(rdlist, fd)
  PROVE  \A f : Contains(rdlist, f) => Contains(rdlist', f)
<1>1. rdlist \in Seq(Fd \cup {timerfd})
  BY DEF SafeInv, TypeOK
<1> QED BY <1>1, QueuedFacts

(* Steps that leave the batch alone and touch one descriptor.               *)
LEMMA StayDue ==
  ASSUME SafeInv, DueInv, Running, NEW fd \in Fd \cup {timerfd}, batch' = batch,
         timer' = timer \/ fd = timerfd,
         \A f \in Fd \ {fd} : conn'[f] = conn[f] /\ sock'[f] = sock[f],
         \A f : Contains(rdlist, f) => Contains(rdlist', f),
         Due(fd)' # {} => Contains(rdlist', fd) \/ InBatch(fd),
         pc' = "recv" => sock'[Current].interest \in {"read", "write"}
  PROVE  DueInv'
<1>1. Current' = Current /\ \A f : InBatch(f)' <=> InBatch(f)
  BY DEF Current, InBatch
<1>2. ASSUME NEW f \in (Fd \cup {timerfd}) \ {fd}, Due(f)' # {} PROVE Awaited(f)'
  <2>1. Due(f)' = Due(f)
    BY DueStays
  <2> QED BY <1>1, <1>2, <2>1 DEF DueInv, Awaited
<1>3. Due(fd)' # {} => Awaited(fd)'
  BY <1>1 DEF Awaited
<1> QED BY <1>1, <1>2, <1>3 DEF DueInv

(* Steps that end the handling of an event.                                 *)
LEMMA TurnDue ==
  ASSUME SafeInv, DueInv, Running, Busy, NextEvent, timer' = timer,
         NEW fd \in Fd, fd = Current,
         \A f \in Fd \ {fd} : conn'[f] = conn[f] /\ sock'[f] = sock[f],
         \A f \in (Fd \cup {timerfd}) \ {fd} : Contains(rdlist, f) => Contains(rdlist', f),
         Due(fd)' # {} => Contains(rdlist', fd)
  PROVE  DueInv'
<1>1. pc' # "recv" /\ \A f : InBatch(f)' <=> InBatch(f) /\ f # fd
  BY NextEventFacts DEF SafeInv, TypeOK, QueueInv
<1>2. ASSUME NEW f \in (Fd \cup {timerfd}) \ {fd}, Due(f)' # {} PROVE Awaited(f)'
  <2>1. Due(f)' = Due(f)
    BY DueStays
  <2> QED BY <1>1, <1>2, <2>1 DEF DueInv, Awaited
<1>3. Due(fd)' # {} => Awaited(fd)'
  BY DEF Awaited
<1> QED BY <1>1, <1>2, <1>3 DEF DueInv

(* A step of the environment on one connection wakes the descriptor for    *)
(* all it newly reports.                                                   *)
LEMMA PeerWakes ==
  ASSUME TypeOK, NEW fd \in Fd, Serving(fd) \/ Trouble(fd)
  PROVE  \E t \in Socket, kinds \in SUBSET AnyKind :
           /\ sock' = [sock EXCEPT ![fd] = t] /\ t.interest = sock[fd].interest
           /\ Wake(fd, kinds) /\ Telling(t) \subseteq Telling(sock[fd]) \cup kinds
<1> DEFINE s == sock[fd]
<1>0. sock \in [Fd -> Socket] /\ s \in Socket
  BY DEF TypeOK
<1>1. Asked(s.interest) \subseteq AnyKind
  BY <1>0 DEF Asked, AnyKind, Socket
<1>2. ASSUME NEW t \in Socket, t.interest = s.interest PROVE Telling(t) \subseteq AnyKind
  BY <1>1, <1>2 DEF Telling
<1>3. CASE PeerAccepts(fd) \/ PeerRefuses(fd) \/ ConnectFails(fd)
  <2>1. PICK state \in {"open", "refused", "failed"} : Settle(fd, state)
    BY <1>3 DEF PeerAccepts, PeerRefuses, ConnectFails
  <2> DEFINE t == [s EXCEPT !.state = state]
  <2>2. /\ t \in Socket /\ t.interest = s.interest
        /\ sock' = [sock EXCEPT ![fd] = t] /\ Wake(fd, AnyKind)
    BY <1>0, <2>1 DEF Settle, Socket
  <2> HIDE DEF t, s
  <2> QED BY <1>2, <2>2 DEF s
<1>4. CASE PeerCloses(fd) \/ PeerResets(fd)
  <2>1. PICK t \in {[s EXCEPT !.fin = TRUE], [s EXCEPT !.state = "reset"]} :
          sock' = [sock EXCEPT ![fd] = t] /\ Wake(fd, AnyKind)
    BY <1>0, <1>4 DEF PeerCloses, PeerResets
  <2>2. t \in Socket /\ t.interest = s.interest
    BY <1>0, <2>1 DEF Socket
  <2> QED BY <1>2, <2>1, <2>2
<1>5. CASE PeerReads(fd)
  <2> DEFINE t == [s EXCEPT !.tx = s.tx - 1]
  <2>1. /\ s.state = "open" /\ s.tx > 0 /\ sock' = [sock EXCEPT ![fd] = t]
        /\ IF s.tx = SndBuf THEN Wake(fd, {"OUT"}) ELSE rdlist' = rdlist
    BY <1>0, <1>5 DEF PeerReads
  <2>2. /\ t.interest = s.interest /\ t.rx = s.rx /\ t.state = s.state /\ t.fin = s.fin
        /\ s.tx \in 0 .. SndBuf
    BY <1>0 DEF Socket
  <2>3. s.tx - 1 \in 0 .. SndBuf
    BY <2>1, <2>2, SizesAssumption
  <2>4. t \in Socket
    <3> HIDE DEF s
    <3> QED BY <1>0, <2>3 DEF Socket
  <2> HIDE DEF t, s
  <2>5. CASE s.tx = SndBuf
    <3>1. Telling(t) \subseteq Telling(s) \cup {"OUT"}
      BY <2>1, <2>2 DEF Telling
    <3> QED BY <2>1, <2>2, <2>4, <2>5, <3>1 DEF s, AnyKind
  <2>6. CASE s.tx # SndBuf
    <3>1. s.tx < SndBuf
      BY <2>2, <2>6, SizesAssumption
    <3>2. Telling(t) \subseteq Telling(s) \cup {}
      BY <2>1, <2>2, <3>1 DEF Telling
    <3>3. Wake(fd, {})
      BY <2>1, <2>6 DEF Wake
    <3> QED BY <2>1, <2>2, <2>4, <3>2, <3>3 DEF s
  <2> QED BY <2>5, <2>6
<1>6. CASE PeerSends(fd) \/ PeerEnds(fd) \/ PeerSendsJunk(fd)
  <2>1. PICK piece \in Piece : Arrive(fd, piece)
    BY <1>6 DEF PeerSends, PeerEnds, PeerSendsJunk, Piece
  <2> DEFINE t == [s EXCEPT !.rx = Append(s.rx, piece)]
  <2>2. /\ t.interest = s.interest /\ t.tx = s.tx /\ t.state = s.state /\ t.fin = s.fin
        /\ sock' = [sock EXCEPT ![fd] = t] /\ Wake(fd, {"IN"})
    BY <1>0, <2>1 DEF Arrive, Socket
  <2>3. t \in Socket
    <3>1. s.rx \in Seq(Piece)
      BY <1>0 DEF Socket
    <3>2. Append(s.rx, piece) \in Seq(Piece)
      BY <3>1, AppendProperties
    <3> HIDE DEF s
    <3> QED BY <1>0, <3>2 DEF Socket
  <2>4. s.state = "open"
    BY <2>1 DEF Arrive
  <2> HIDE DEF t, s
  <2>5. Telling(t) \subseteq Telling(s) \cup {"IN"}
    BY <2>2, <2>4 DEF Telling
  <2> QED BY <2>2, <2>3, <2>5 DEF s, AnyKind
<1> QED BY <1>3, <1>4, <1>5, <1>6 DEF Serving, Trouble

LEMMA PeerDue ==
  ASSUME SafeInv, DueInv, Running, NEW fd \in Fd, Serving(fd) \/ Trouble(fd)
  PROVE  DueInv'
<1>1. PICK t \in Socket, kinds \in SUBSET AnyKind :
        /\ sock' = [sock EXCEPT ![fd] = t] /\ t.interest = sock[fd].interest
        /\ Wake(fd, kinds) /\ Telling(t) \subseteq Telling(sock[fd]) \cup kinds
  BY PeerWakes DEF SafeInv
<1>2. /\ sock'[fd] = t /\ \A f \in Fd \ {fd} : sock'[f] = sock[f]
      /\ UNCHANGED <<pc, conn, batch, timer>>
      /\ rdlist \in Seq(Fd \cup {timerfd})
  BY <1>1, PeerFacts DEF SafeInv, TypeOK
<1>3. rdlist' = rdlist \/ rdlist' = Queued(rdlist, fd)
  BY <1>1 DEF Wake
<1>4. Due(fd)' # {} => Contains(rdlist', fd) \/ InBatch(fd)
  <2>1. SUFFICES ASSUME NEW e \in Due(fd)' PROVE Contains(rdlist', fd) \/ InBatch(fd)
    OBVIOUS
  <2>2. (Interrupted(fd)' <=> Interrupted(fd)) /\ Reported(fd)' = Telling(t)
    BY <1>1, <1>2, TellingIs DEF Interrupted
  <2>3. e \in Telling(t)
    BY <2>1, <2>2 DEF Due
  <2>4. CASE e \in kinds
    <3>1. e \in Asked(sock[fd].interest)
      BY <1>1, <2>3 DEF Telling
    <3>2. rdlist' = Queued(rdlist, fd)
      BY <1>1, <2>4, <3>1 DEF Wake
    <3> QED BY <1>2, <3>2, QueuedFacts
  <2>5. CASE e \in Telling(sock[fd])
    <3>1. e \in Due(fd)
      BY <2>1, <2>2, <2>5, TellingIs DEF Due
    <3>2. Contains(rdlist, fd) \/ InBatch(fd)
      BY <3>1 DEF DueInv, Awaited
    <3> QED BY <1>3, <3>2, QueuedKeeps
  <2> QED BY <1>1, <2>3, <2>4, <2>5
<1>5. pc' = "recv" => sock'[Current].interest \in {"read", "write"}
  <2>1. pc = "recv" => Current \in Fd /\ sock[Current].interest \in {"read", "write"}
    BY DEF SafeInv, QueueInv, DueInv
  <2> HIDE DEF Current
  <2> QED BY <1>1, <1>2, <2>1
<1>6. \A f : Contains(rdlist, f) => Contains(rdlist', f)
  BY <1>3, QueuedKeeps
<1> QED BY <1>2, <1>4, <1>5, <1>6, StayDue

LEMMA ExitDue == ASSUME pc' \in {"exit", "returned"} PROVE DueInv'
BY DEF DueInv, Running

(* A new connection has nothing to report yet: one in progress is not yet   *)
(* settled, and the others are not registered.                              *)
LEMMA OpenSilent == ASSUME NEW s \in ConnectOutcomes PROVE Telling(s) = {}
<1>1. s.state = "connecting" \/ s.interest = "none"
  BY DEF ConnectOutcomes, NoSocket
<1> QED BY <1>1 DEF Telling, Asked

LEMMA RecycleDue ==
  ASSUME SafeInv, DueInv, Running, Busy, NEW fd \in Fd, fd = Current, Recycle(fd)
  PROVE  DueInv'
<1>1. CASE Exit
  BY <1>1, ExitDue DEF Exit
<1>2. CASE /\ OpenConnection(fd)
           /\ rdlist' = Unqueued(rdlist, fd)
           /\ fresh' = fresh \cup {fd}
           /\ NextEvent
           /\ UNCHANGED <<timer, totals>>
  <2>1. /\ sock'[fd] \in ConnectOutcomes
        /\ \A f \in Fd \ {fd} : conn'[f] = conn[f] /\ sock'[f] = sock[f]
    BY <1>2, OpenTypes DEF SafeInv
  <2>2. Due(fd)' = {}
    BY <2>1, OpenSilent, TellingIs DEF Due
  <2>3. rdlist \in Seq(Fd \cup {timerfd}) /\ NoRepeat(rdlist)
    BY DEF SafeInv, TypeOK, QueueInv
  <2>4. \A f \in (Fd \cup {timerfd}) \ {fd} : Contains(rdlist, f) => Contains(rdlist', f)
    BY <1>2, <2>3, UnqueuedFacts
  <2> QED BY <1>2, <2>1, <2>2, <2>4, TurnDue
<1> QED BY <1>1, <1>2 DEF Recycle

LEMMA HandlerDue == ASSUME SafeInv, DueInv, NEW fd \in Fd, Handler(fd) PROVE DueInv'
<1>0. Handling(fd)
  BY DEF Handler, OnRdhup, OnErr, OnIn, OnOut
<1>1. /\ Running /\ Busy /\ Current = fd /\ pc = "dispatch" /\ batch # <<>>
      /\ Head(batch) = batch[1] /\ 1 \in 1 .. Len(batch) /\ batch[1].fd = fd
      /\ sock[fd] \in Socket /\ InBatch(fd)
  BY <1>0, HandlingFacts, HeadFacts DEF SafeInv, TypeOK, Current
<1>2. CASE Recycle(fd)
  BY <1>1, <1>2, RecycleDue
<1>3. CASE Exit
  BY <1>3, ExitDue DEF Exit
<1>4. CASE OnIn(fd)
  <2>1. "IN" \in Asked(sock[fd].interest)
    BY <1>1, <1>4 DEF OnIn, Has, SafeInv, QueueInv
  <2>2. sock[fd].interest \in {"read", "write"}
    BY <1>1, <2>1 DEF Asked, Socket
  <2>3. UNCHANGED <<conn, sock, rdlist, batch, timer>>
    BY <1>4 DEF OnIn
  <2> HIDE DEF Current
  <2> QED BY <1>1, <2>2, <2>3, StayDue
<1>5. CASE /\ conn' = [conn EXCEPT ![fd].connected = TRUE]
           /\ pc' = "send"
           /\ UNCHANGED <<sock, got, rdlist, batch, acc, timer, totals, balance, fresh>>
  <2>1. \A f \in Fd \ {fd} : conn'[f] = conn[f]
    BY <1>5 DEF SafeInv, TypeOK
  <2> QED BY <1>1, <1>5, <2>1, StayDue
<1> QED BY <1>2, <1>3, <1>4, <1>5 DEF Handler, OnRdhup, OnErr, OnOut

(* ev_modify_event looks at the descriptor once more, so no event is lost   *)
(* that came while the old registration did not ask for it.                 *)
LEMMA RegisteredWakes ==
  ASSUME SafeInv, NEW fd \in Fd, NEW t, NEW type,
         sock'[fd] = t, t.interest = type,
         t.state = sock[fd].state, t.rx = sock[fd].rx, t.fin = sock[fd].fin,
         t.tx = sock[fd].tx \/ type = "read",
         rdlist' = IF Poll(fd) \cap Asked(type) # {} THEN Queued(rdlist, fd) ELSE rdlist
  PROVE  /\ \A f : Contains(rdlist, f) => Contains(rdlist', f)
         /\ Due(fd)' # {} => Contains(rdlist', fd)
<1>1. Telling(t) \subseteq Poll(fd) \cap Asked(type)
  <2>1. fd # timerfd
    BY FdFacts
  <2>2. CASE t.tx = sock[fd].tx
    BY <2>1, <2>2 DEF Telling, Poll, AnyKind
  <2>3. CASE type = "read"
    <3>1. "OUT" \notin Asked(type)
      BY <2>3 DEF Asked
    <3> QED BY <2>1, <3>1 DEF Telling, Poll, AnyKind
  <2> QED BY <2>2, <2>3
<1>2. rdlist \in Seq(Fd \cup {timerfd})
  BY DEF SafeInv, TypeOK
<1>3. Due(fd)' \subseteq Telling(t)
  BY TellingIs DEF Due
<1>4. CASE Poll(fd) \cap Asked(type) # {}
  <2>1. rdlist' = Queued(rdlist, fd)
    BY <1>4
  <2> QED BY <1>2, <2>1, QueuedFacts
<1>5. CASE Poll(fd) \cap Asked(type) = {}
  BY <1>1, <1>3, <1>5
<1> QED BY <1>4, <1>5

(* A registration alone changes.                                            *)
LEMMA ModifyDue ==
  ASSUME SafeInv, DueInv, Running, Busy, NextEvent, timer' = timer,
         NEW fd \in Fd, fd = Current, NEW type \in {"read", "write"}, ModifyEvent(fd, type),
         \A f \in Fd \ {fd} : conn'[f] = conn[f]
  PROVE  DueInv'
<1> DEFINE t == [sock[fd] EXCEPT !.interest = type]
<1>1. sock \in [Fd -> Socket] /\ sock[fd] \in Socket /\ sock' = [sock EXCEPT ![fd] = t]
  BY DEF SafeInv, TypeOK, ModifyEvent
<1>2. /\ t.interest = type /\ t.state = sock[fd].state /\ t.rx = sock[fd].rx
      /\ t.fin = sock[fd].fin /\ t.tx = sock[fd].tx
  BY <1>1 DEF Socket
<1>3. sock'[fd] = t /\ \A f \in Fd \ {fd} : sock'[f] = sock[f]
  BY <1>1
<1> HIDE DEF t
<1>4. /\ \A f : Contains(rdlist, f) => Contains(rdlist', f)
      /\ Due(fd)' # {} => Contains(rdlist', fd)
  BY <1>2, <1>3, RegisteredWakes DEF ModifyEvent
<1> HIDE DEF Current
<1> QED BY <1>3, <1>4, TurnDue

(* While a response is received; all of it that came is read, so only that  *)
(* the request can go on is left to report.                                 *)
LEMMA ReceiveDue == ASSUME SafeInv, DueInv, Receive PROVE DueInv'
<1>1. PICK fd : fd = Current
  OBVIOUS
<1>2. pc = "recv"
  BY DEF Receive, RecvData, ResponseComplete, ResponsePartial, ReceiveFails, RecvDone
<1>3. /\ Running /\ Busy /\ fd \in Fd /\ batch # <<>> /\ batch \in Seq(Event)
      /\ conn \in [Fd -> Connection \cup {NULL}] /\ conn[fd] \in Connection
      /\ sock \in [Fd -> Socket] /\ sock[fd] \in Socket
      /\ sock[fd].interest \in {"read", "write"}
  BY <1>1, <1>2, InHandFacts DEF SafeInv, TypeOK, DueInv
<1>4. CASE RecvData
  <2>1. UNCHANGED <<pc, conn, rdlist, batch, timer>>
    BY <1>4 DEF RecvData
  <2>2. sock' = [sock EXCEPT ![fd] = [sock[fd] EXCEPT !.rx = Tail(sock[fd].rx)]]
    BY <1>1, <1>4, RecvDataFacts
  <2>3. /\ \A f \in Fd \ {fd} : sock'[f] = sock[f]
        /\ sock'[fd].interest = sock[fd].interest
    BY <1>3, <2>2 DEF Socket
  <2>4. InBatch(fd)
    BY <1>1, <1>3, HeadFacts
  <2> HIDE DEF Current
  <2> QED BY <1>1, <1>3, <2>1, <2>3, <2>4, StayDue
<1>5. CASE ResponseComplete
  <2>1. ModifyEvent(fd, "write") /\ NextEvent /\ timer' = timer
    BY <1>1, <1>5 DEF ResponseComplete
  <2>2. \A f \in Fd \ {fd} : conn'[f] = conn[f]
    BY <1>1, <1>3, <1>5 DEF ResponseComplete
  <2> HIDE DEF Current
  <2> QED BY <1>1, <1>3, <2>1, <2>2, ModifyDue
<1>6. CASE ResponsePartial
  <2>1. /\ acc \in {"partial", "bad"} /\ NextEvent
        /\ sock[fd].state = "open" /\ sock[fd].rx = <<>> /\ ~sock[fd].fin
        /\ conn' = [conn EXCEPT ![fd].buf = acc]
        /\ UNCHANGED <<sock, rdlist, timer>>
    BY <1>1, <1>6 DEF ResponsePartial, RecvDone
  <2>2. conn'[fd].buf \in {"partial", "bad"} /\ \A f \in Fd \ {fd} : conn'[f] = conn[f]
    BY <1>3, <2>1 DEF Connection
  <2>3. Telling(sock[fd]) \subseteq {"OUT"}
    BY <2>1 DEF Telling
  <2>4. sock[fd].interest = "read" => Telling(sock[fd]) = {}
    BY <2>3 DEF Telling, Asked
  <2>5. sock[fd].interest = "write" => Interrupted(fd)'
    BY <1>3, <2>1, <2>2 DEF Interrupted
  <2>6. Due(fd)' = {}
    BY <1>3, <2>1, <2>3, <2>4, <2>5, TellingIs DEF Due
  <2> HIDE DEF Current
  <2> QED BY <1>1, <1>3, <2>1, <2>2, <2>6, TurnDue
<1>7. CASE ReceiveFails
  <2>1. Recycle(fd)
    BY <1>1, <1>7 DEF ReceiveFails
  <2> QED BY <1>1, <1>3, <2>1, RecycleDue
<1> QED BY <1>4, <1>5, <1>6, <1>7 DEF Receive

(* While a request is sent.                                                 *)
LEMMA TransmitDue == ASSUME SafeInv, DueInv, Transmit PROVE DueInv'
<1>1. PICK fd : fd = Current
  OBVIOUS
<1>2. pc = "send"
  BY DEF Transmit, SendData, SendAgain, SendFails
<1>3. /\ Running /\ Busy /\ fd \in Fd /\ batch # <<>> /\ batch \in Seq(Event)
      /\ conn \in [Fd -> Connection \cup {NULL}]
      /\ sock \in [Fd -> Socket] /\ sock[fd] \in Socket
  BY <1>1, <1>2, InHandFacts DEF SafeInv, TypeOK
<1>4. CASE SendData
  <2> DEFINE s == sock[fd]
             c == conn[fd]
  <2>1. PICK n \in Nat :
          \/ /\ conn' = [conn EXCEPT ![fd] = [c EXCEPT !.sendoffset = c.sendoffset + n]]
             /\ sock' = [sock EXCEPT ![fd] = [s EXCEPT !.tx = s.tx + n]]
             /\ UNCHANGED <<pc, rdlist, batch>>
          \/ /\ conn' = [conn EXCEPT ![fd] = [c EXCEPT !.sendoffset = 0]]
             /\ sock' = [sock EXCEPT ![fd] = [s EXCEPT !.tx = s.tx + n, !.interest = "read"]]
             /\ rdlist' = (IF Poll(fd) \cap Asked("read") # {} THEN Queued(rdlist, fd) ELSE rdlist)
             /\ NextEvent
    BY <1>1, <1>4, SendDataFacts
  <2>2. timer' = timer
    BY <1>4 DEF SendData
  <2>3. \A f \in Fd \ {fd} : conn'[f] = conn[f] /\ sock'[f] = sock[f]
    BY <1>3, <2>1
  <2>4. CASE UNCHANGED <<pc, rdlist, batch>>
    <3>1. InBatch(fd)
      BY <1>1, <1>3, HeadFacts
    <3> QED BY <1>2, <1>3, <2>2, <2>3, <2>4, <3>1, StayDue
  <2>5. CASE /\ sock' = [sock EXCEPT ![fd] = [s EXCEPT !.tx = s.tx + n, !.interest = "read"]]
             /\ rdlist' = (IF Poll(fd) \cap Asked("read") # {} THEN Queued(rdlist, fd) ELSE rdlist)
             /\ NextEvent
    <3> DEFINE t == [s EXCEPT !.tx = s.tx + n, !.interest = "read"]
    <3>1. t.interest = "read" /\ t.state = s.state /\ t.rx = s.rx /\ t.fin = s.fin
      BY <1>3 DEF Socket
    <3>2. sock'[fd] = t
      BY <1>3, <2>5
    <3> HIDE DEF t
    <3>3. /\ \A f : Contains(rdlist, f) => Contains(rdlist', f)
          /\ Due(fd)' # {} => Contains(rdlist', fd)
      BY <1>3, <2>5, <3>1, <3>2, RegisteredWakes
    <3> HIDE DEF Current, s, c
    <3> QED BY <1>1, <1>3, <2>2, <2>3, <2>5, <3>3, TurnDue
  <2> QED BY <2>1, <2>4, <2>5
<1>5. CASE SendAgain
  <2>1. ModifyEvent(fd, "write") /\ NextEvent /\ UNCHANGED <<conn, timer>>
    BY <1>1, <1>5 DEF SendAgain
  <2> HIDE DEF Current
  <2> QED BY <1>1, <1>3, <2>1, ModifyDue
<1>6. CASE SendFails
  <2>1. Recycle(fd)
    BY <1>1, <1>6 DEF SendFails
  <2> QED BY <1>1, <1>3, <2>1, RecycleDue
<1> QED BY <1>4, <1>5, <1>6 DEF Transmit

LEMMA StartConnectionDue == ASSUME SafeInv, DueInv, StartConnection PROVE DueInv'
<1>1. PICK fd \in Fd :
        \/ OpenConnection(fd) /\ UNCHANGED <<pc, rdlist, batch, acc, timer, totals, fresh>>
        \/ Exit
  BY DEF StartConnection
<1>2. CASE Exit
  BY <1>2, ExitDue DEF Exit
<1>3. CASE OpenConnection(fd) /\ UNCHANGED <<pc, rdlist, batch, acc, timer, totals, fresh>>
  <2>1. pc = "start" /\ Running
    BY DEF StartConnection, Running
  <2>2. /\ sock'[fd] \in ConnectOutcomes
        /\ \A f \in Fd \ {fd} : conn'[f] = conn[f] /\ sock'[f] = sock[f]
    BY <1>3, OpenTypes DEF SafeInv
  <2>3. Due(fd)' = {}
    BY <2>2, OpenSilent, TellingIs DEF Due
  <2> QED BY <1>3, <2>1, <2>2, <2>3, StayDue
<1> QED BY <1>1, <1>2, <1>3

LEMMA EnterLoopDue == ASSUME SafeInv, DueInv, EnterLoop PROVE DueInv'
<1>1. /\ pc = "start" /\ pc' = "wait" /\ Running /\ timer' \in {"none", "armed"}
      /\ UNCHANGED <<conn, sock, rdlist, batch>>
  BY DEF EnterLoop, Running
<1>2. Due(timerfd)' = {}
  BY <1>1 DEF Due, Reported, Poll
<1> QED BY <1>1, <1>2, StayDue

LEMMA TimerExpiresDue == ASSUME SafeInv, DueInv, Running, TimerExpires PROVE DueInv'
<1>1. /\ rdlist' = Queued(rdlist, timerfd)
      /\ UNCHANGED <<pc, conn, sock, batch>>
  BY DEF TimerExpires
<1>2. rdlist \in Seq(Fd \cup {timerfd})
  BY DEF SafeInv, TypeOK
<1>3. Contains(rdlist', timerfd)
  BY <1>1, <1>2, QueuedFacts
<1>4. pc' = "recv" => sock'[Current].interest \in {"read", "write"}
  BY <1>1 DEF DueInv
<1> QED BY <1>1, <1>3, <1>4, QueuedKeeps, StayDue

LEMMA EpollDropDue == ASSUME SafeInv, DueInv, EpollDrop PROVE DueInv'
<1>1. PICK i \in DOMAIN rdlist : Reported(rdlist[i]) = {} /\ rdlist' = RemoveAt(rdlist, i)
  BY DEF EpollDrop
<1>2. pc = "wait" /\ Running /\ UNCHANGED <<pc, conn, sock, batch, timer>>
  BY DEF EpollDrop, Running
<1>3. rdlist \in Seq(Fd \cup {timerfd}) /\ NoRepeat(rdlist) /\ i \in 1 .. Len(rdlist)
  BY LenProperties DEF SafeInv, TypeOK, QueueInv
<1>4. ASSUME NEW f \in Fd \cup {timerfd}, Due(f)' # {} PROVE Awaited(f)'
  <2>1. Due(f)' = Due(f)
    BY <1>2, DueStays
  <2>2. f # rdlist[i] /\ (Contains(rdlist, f) \/ InBatch(f))
    BY <1>1, <1>2, <1>4, <2>1 DEF DueInv, Awaited, Due
  <2> QED BY <1>1, <1>2, <1>3, <2>2, RemoveFacts DEF Awaited, InBatch
<1> QED BY <1>2, <1>4 DEF DueInv

LEMMA EpollWaitDue == ASSUME SafeInv, DueInv, EpollWait PROVE DueInv'
<1>1. PICK n \in 1 .. Len(rdlist) :
        /\ Len(batch') = n /\ DOMAIN batch' = 1 .. n
        /\ \A i \in 1 .. n : batch'[i] = [fd |-> rdlist[i], events |-> Reported(rdlist[i])]
        /\ rdlist' = SubSeq(rdlist, n + 1, Len(rdlist))
  BY EpollWaitFacts
<1>2. /\ pc = "wait" /\ pc' = "dispatch" /\ Running /\ UNCHANGED <<conn, sock, timer>>
  BY DEF EpollWait, Running
<1>3. /\ rdlist \in Seq(Fd \cup {timerfd}) /\ NoRepeat(rdlist) /\ Len(rdlist) \in Nat
      /\ batch = <<>> /\ n \in 0 .. Len(rdlist)
  BY <1>1, <1>2, LenProperties DEF SafeInv, TypeOK, QueueInv, Busy
<1>4. ASSUME NEW f \in Fd \cup {timerfd}, Due(f)' # {} PROVE Awaited(f)'
  <2>1. Due(f)' = Due(f)
    BY <1>2, DueStays
  <2>2. ~InBatch(f)
    BY <1>3, EmptySeq DEF InBatch
  <2>3. PICK i \in 1 .. Len(rdlist) : rdlist[i] = f
    BY <1>2, <1>3, <1>4, <2>1, <2>2 DEF DueInv, Awaited, Contains
  <2>4. CASE i \in 1 .. n
    BY <1>1, <2>3, <2>4 DEF InBatch, Awaited
  <2>5. CASE i \in n + 1 .. Len(rdlist)
    BY <1>1, <1>3, <2>3, <2>5, RestFacts DEF Awaited
  <2> QED BY <1>3, <2>4, <2>5
<1> QED BY <1>2, <1>4 DEF DueInv

LEMMA InitDue == ASSUME Init PROVE DueInv
BY DEF Init, DueInv, Due, Reported, Poll, NoSocket

LEMMA StepDue == ASSUME SafeInv, DueInv, [Next]_vars PROVE DueInv'
<1>1. CASE Program
  <2>1. CASE OnTimer
    BY <2>1, ExitDue DEF OnTimer, Exit
  <2> QED BY <1>1, <2>1, StartConnectionDue, EnterLoopDue, EpollDropDue, EpollWaitDue,
             HandlerDue, ReceiveDue, TransmitDue DEF Program
<1>2. CASE Environment
  BY <1>2, TimerExpiresDue, PeerDue DEF Environment
<1>3. CASE Interrupt \/ WaitFails
  BY <1>3, ExitDue DEF Interrupt, Exit, WaitFails
<1>4. CASE UNCHANGED vars
  <2>1. UNCHANGED <<pc, conn, sock, rdlist, batch, timer>>
    BY <1>4 DEF vars
  <2>2. CASE Running
    <3>1. pc' = "recv" => sock'[Current].interest \in {"read", "write"}
      BY <2>1, <2>2 DEF DueInv
    <3>2. Due(timerfd)' # {} => Contains(rdlist', timerfd) \/ InBatch(timerfd)
      BY <2>1, <2>2, DueStays DEF DueInv, Awaited
    <3> QED BY <2>1, <2>2, <3>1, <3>2, StayDue
  <2>3. CASE ~Running
    BY <2>1, <2>3 DEF DueInv, Running
  <2> QED BY <2>2, <2>3
<1> QED BY <1>1, <1>2, <1>3, <1>4 DEF Next

(* Of what epoll tells once, the loop forgets only that a request can go    *)
(* on, and only until the response that came before its end is complete,    *)
(* for every environment (ev.c:120-165, networking.c:117-146).              *)
THEOREM NoneLost == Spec => []NoLostWakeup
<1>1. Init => SafeInv /\ DueInv
  BY InitSafe, InitDue
<1>2. (SafeInv /\ DueInv) /\ [Next]_vars => (SafeInv /\ DueInv)'
  BY StepSafe, StepDue
<1>3. SafeInv /\ DueInv => NoLostWakeup
  BY DEF DueInv, NoLostWakeup
<1> QED BY <1>1, <1>2, <1>3, PTL DEF Spec

-----------------------------------------------------------------------------
(***************************************************************************)
(* The work of the event loop: what a connection has sent and received,    *)
(* and what it is registered for.  Proved for a peer that answers whole    *)
(* requests, and answers them with HTTP.                                   *)
(***************************************************************************)

(* The peer answers whole requests only, and answers with HTTP.             *)
Polite == Env \cap {"early", "junk"} = {}

Sending(fd) == pc = "send" /\ Current = fd
Complete(fd) == batch # <<>> /\ Current = fd /\ acc = "complete"

(* The record, the socket, the bytes at the peer and the balance of one     *)
(* connection agree.                                                        *)
Agree(c, s, g, b, sending, complete) ==
  /\ b = IF s.interest = "read" THEN 1 ELSE 0
  /\ c.sendoffset < ReqLen
  /\ c.sendoffset > 0 => s.interest = "write" \/ sending
  /\ c.connected <=> s.interest \in {"read", "write"} \/ sending
  /\ c.buf = "empty" \/ (c.buf = "partial" /\ b = 1)
  /\ s.rx # <<>> => b = 1
  /\ \A i \in 1 .. Len(s.rx) : s.rx[i] # "junk"
  /\ c.sendoffset + (IF b = 1 THEN ReqLen ELSE 0)
       = s.tx + g + (IF Contains(s.rx, "end") \/ complete THEN ReqLen ELSE 0)

Unused(fd) == sock[fd] = NoSocket /\ got[fd] = 0 /\ balance[fd] = 0
Linked(fd) ==
  IF conn[fd] = NULL THEN Unused(fd)
  ELSE Agree(conn[fd], sock[fd], got[fd], balance[fd], Sending(fd), Complete(fd))

(* What the thread knows of the connection in hand.                         *)
HandInv ==
  /\ pc = "recv" => balance[Current] = 1 /\ acc \in {"empty", "partial", "complete"}
  /\ pc = "send" => sock[Current].interest \in {"connect", "write"} /\ conn[Current].connected
  /\ \A i \in 1 .. Len(batch) :
       batch[i].fd \in Fd /\ batch[i].events \cap {"IN", "RDHUP", "ERR"} = {"IN"}
         => balance[batch[i].fd] = 1

WorkInv == Running => (\A fd \in Fd : Linked(fd)) /\ HandInv

FullInv == SafeInv /\ WorkInv

-----------------------------------------------------------------------------
(* One connection.                                                         *)

LEMMA ParseFacts ==
  ASSUME NEW state \in {"empty", "partial", "complete"}, NEW piece \in {"part", "end"}
  PROVE  /\ Parse(state, piece) \in {"partial", "complete"}
         /\ Parse(state, piece) = "complete" <=> state = "complete" \/ piece = "end"
<1>1. CASE state = "complete"
  BY <1>1 DEF Parse
<1>2. CASE state \in {"empty", "partial"} /\ piece = "part"
  BY <1>2 DEF Parse
<1>3. CASE state \in {"empty", "partial"} /\ piece = "end"
  BY <1>3 DEF Parse
<1> QED BY <1>1, <1>2, <1>3

(* recv(2) moves the end of a response from the socket to the buffer.       *)
LEMMA AgreeRecv ==
  ASSUME NEW c, NEW s \in Socket, NEW g, NEW b, NEW state \in {"empty", "partial", "complete"},
         s.rx # <<>>, Agree(c, s, g, b, FALSE, state = "complete")
  PROVE  /\ Parse(state, Head(s.rx)) \in {"partial", "complete"}
         /\ Agree(c, [s EXCEPT !.rx = Tail(s.rx)], g, b, FALSE,
                  Parse(state, Head(s.rx)) = "complete")
         /\ Contains(Tail(s.rx), "end") \/ Parse(state, Head(s.rx)) = "complete"
              <=> Contains(s.rx, "end") \/ state = "complete"
<1> DEFINE rx == s.rx
           t == [s EXCEPT !.rx = Tail(s.rx)]
           new == Parse(state, Head(rx))
<1>1. rx \in Seq(Piece)
  BY DEF Socket
<1>2. /\ Len(rx) \in Nat \ {0} /\ Head(rx) = rx[1] /\ rx[1] \in Piece
      /\ Len(Tail(rx)) = Len(rx) - 1
      /\ \A i \in 1 .. Len(rx) - 1 : Tail(rx)[i] = rx[i + 1]
  BY <1>1, HeadTailProperties, EmptySeq
<1>3. t.rx = Tail(rx) /\ t.tx = s.tx /\ t.interest = s.interest
  BY DEF Socket
<1>4. \A i \in 1 .. Len(rx) : rx[i] # "junk"
  BY DEF Agree
<1>5. Head(rx) \in {"part", "end"}
  BY <1>2, <1>4 DEF Piece
<1>6. \A x : Contains(rx, x) <=> x = rx[1] \/ Contains(Tail(rx), x)
  <2>1. ASSUME NEW x, Contains(rx, x), x # rx[1] PROVE Contains(Tail(rx), x)
    <3>1. PICK i \in 1 .. Len(rx) : rx[i] = x
      BY <2>1 DEF Contains
    <3>2. i - 1 \in 1 .. Len(rx) - 1 /\ (i - 1) + 1 = i
      BY <1>2, <2>1, <3>1
    <3> QED BY <1>2, <3>1, <3>2 DEF Contains
  <2>2. ASSUME NEW x, Contains(Tail(rx), x) PROVE Contains(rx, x)
    <3>1. PICK i \in 1 .. Len(rx) - 1 : Tail(rx)[i] = x
      BY <1>2, <2>2 DEF Contains
    <3>2. i + 1 \in 1 .. Len(rx) /\ rx[i + 1] = x
      BY <1>2, <3>1
    <3> QED BY <3>2 DEF Contains
  <2>3. Contains(rx, rx[1])
    BY <1>2 DEF Contains
  <2> QED BY <2>1, <2>2, <2>3
<1>7. new \in {"partial", "complete"} /\ (new = "complete" <=> state = "complete" \/ Head(rx) = "end")
  BY <1>5, ParseFacts
<1>8. Contains(Tail(rx), "end") \/ new = "complete" <=> Contains(rx, "end") \/ state = "complete"
  BY <1>2, <1>6, <1>7
<1>9. \A i \in 1 .. Len(t.rx) : t.rx[i] # "junk"
  BY <1>2, <1>3, <1>4
<1> HIDE DEF t, new
<1>10. Agree(c, t, g, b, FALSE, new = "complete")
  BY <1>3, <1>8, <1>9 DEF Agree
<1> QED BY <1>7, <1>8, <1>10 DEF t, new

(* send(2) moves bytes of the request from the program to the socket; with  *)
(* the last one the response is awaited.                                    *)
LEMMA AgreeSend ==
  ASSUME NEW c \in Connection, NEW s \in Socket, NEW g \in 0 .. ReqLen, NEW b, NEW n \in Nat,
         Agree(c, s, g, b, TRUE, FALSE), s.interest \in {"connect", "write"}, c.connected
  PROVE  /\ c.sendoffset + n < ReqLen =>
              Agree([c EXCEPT !.sendoffset = c.sendoffset + n], [s EXCEPT !.tx = s.tx + n],
                    g, b, TRUE, FALSE)
         /\ c.sendoffset + n = ReqLen =>
              Agree([c EXCEPT !.sendoffset = 0],
                    [s EXCEPT !.tx = s.tx + n, !.interest = "read"], g, b + 1, FALSE, FALSE)
<1>1. /\ c.sendoffset \in Nat /\ c.sendoffset < ReqLen /\ s.tx \in Nat /\ g \in Nat
      /\ s.rx = <<>> /\ b = 0 /\ c.buf = "empty" /\ c.sendoffset = s.tx + g
      /\ ~Contains(s.rx, "end")
  <2>1. b = 0 /\ s.rx = <<>> /\ c.buf = "empty"
    BY DEF Agree
  <2>2. ~Contains(s.rx, "end")
    BY <2>1, EmptySeq DEF Contains
  <2> QED BY <2>1, <2>2, SizesAssumption DEF Agree, Connection, Socket
<1>2. ReqLen \in Nat \ {0}
  BY SizesAssumption
<1>3. ASSUME c.sendoffset + n < ReqLen
      PROVE  Agree([c EXCEPT !.sendoffset = c.sendoffset + n], [s EXCEPT !.tx = s.tx + n],
                   g, b, TRUE, FALSE)
  <2> DEFINE d == [c EXCEPT !.sendoffset = c.sendoffset + n]
             t == [s EXCEPT !.tx = s.tx + n]
  <2>1. /\ d.sendoffset = c.sendoffset + n /\ d.connected = c.connected /\ d.buf = c.buf
        /\ t.tx = s.tx + n /\ t.interest = s.interest /\ t.rx = s.rx
    BY DEF Connection, Socket
  <2> HIDE DEF d, t
  <2>2. Agree(d, t, g, b, TRUE, FALSE)
    BY <1>1, <1>2, <1>3, <2>1 DEF Agree
  <2> QED BY <2>2 DEF d, t
<1>4. ASSUME c.sendoffset + n = ReqLen
      PROVE  Agree([c EXCEPT !.sendoffset = 0],
                   [s EXCEPT !.tx = s.tx + n, !.interest = "read"], g, b + 1, FALSE, FALSE)
  <2> DEFINE d == [c EXCEPT !.sendoffset = 0]
             t == [s EXCEPT !.tx = s.tx + n, !.interest = "read"]
  <2>1. /\ d.sendoffset = 0 /\ d.connected = c.connected /\ d.buf = c.buf
        /\ t.tx = s.tx + n /\ t.interest = "read" /\ t.rx = s.rx
    BY DEF Connection, Socket
  <2> HIDE DEF d, t
  <2>2. Agree(d, t, g, b + 1, FALSE, FALSE)
    BY <1>1, <1>2, <1>4, <2>1 DEF Agree
  <2> QED BY <2>2 DEF d, t
<1> QED BY <1>3, <1>4

(* The rest of a request awaits room, or a counted response makes the       *)
(* connection write again.                                                  *)
LEMMA AgreeWrite ==
  ASSUME NEW c \in Connection, NEW s \in Socket, NEW g \in 0 .. ReqLen, NEW b
  PROVE  /\ Agree(c, s, g, b, TRUE, FALSE) /\ s.interest \in {"connect", "write"} =>
              Agree(c, [s EXCEPT !.interest = "write"], g, b, FALSE, FALSE)
         /\ Agree(c, s, g, b, FALSE, TRUE) /\ b = 1 /\ s.rx = <<>> =>
              Agree([c EXCEPT !.buf = "empty"], [s EXCEPT !.interest = "write"], g, b - 1, FALSE, FALSE)
<1> DEFINE d == [c EXCEPT !.buf = "empty"]
           t == [s EXCEPT !.interest = "write"]
<1>1. /\ t.interest = "write" /\ t.rx = s.rx /\ t.tx = s.tx
      /\ d.buf = "empty" /\ d.sendoffset = c.sendoffset /\ d.connected = c.connected
  BY DEF Connection, Socket
<1>2. /\ c.sendoffset \in Nat /\ s.tx \in Nat /\ g \in Nat /\ ReqLen \in Nat \ {0}
      /\ c.connected \in BOOLEAN
  BY SizesAssumption DEF Connection, Socket
<1> HIDE DEF d, t
<1>3. ASSUME Agree(c, s, g, b, TRUE, FALSE), s.interest \in {"connect", "write"}
      PROVE  Agree(c, t, g, b, FALSE, FALSE)
  BY <1>1, <1>2, <1>3 DEF Agree
<1>4. ASSUME Agree(c, s, g, b, FALSE, TRUE), b = 1, s.rx = <<>>
      PROVE  Agree(d, t, g, b - 1, FALSE, FALSE)
  <2>1. ~Contains(s.rx, "end") /\ Len(s.rx) = 0
    BY <1>4, EmptySeq DEF Contains
  <2>2. c.sendoffset = 0 /\ c.connected
    BY <1>2, <1>4 DEF Agree
  <2> QED BY <1>1, <1>2, <1>4, <2>1, <2>2 DEF Agree
<1> QED BY <1>3, <1>4 DEF d, t

(* A new connection.                                                        *)
LEMMA AgreeOpen ==
  ASSUME NEW s \in ConnectOutcomes
  PROVE  Agree(FreshConn, s, 0, 0, FALSE, FALSE)
<1>1. s.rx = <<>> /\ s.tx = 0 /\ s.interest \in {"none", "connect"}
  BY DEF ConnectOutcomes, NoSocket
<1>2. ~Contains(s.rx, "end") /\ Len(s.rx) = 0
  BY <1>1, EmptySeq DEF Contains
<1> QED BY <1>1, <1>2, SizesAssumption DEF Agree, FreshConn

(* The peer reads a byte of the request.                                    *)
LEMMA AgreeRead ==
  ASSUME NEW c \in Connection, NEW s \in Socket, NEW g \in 0 .. ReqLen, NEW b,
         NEW sending \in BOOLEAN, NEW complete \in BOOLEAN,
         Agree(c, s, g, b, sending, complete), s.tx > 0
  PROVE  Agree(c, [s EXCEPT !.tx = s.tx - 1], g + 1, b, sending, complete)
<1> DEFINE t == [s EXCEPT !.tx = s.tx - 1]
<1>1. t.tx = s.tx - 1 /\ t.rx = s.rx /\ t.interest = s.interest
  BY DEF Socket
<1>2. c.sendoffset \in Nat /\ s.tx \in Nat /\ g \in Nat /\ ReqLen \in Nat \ {0}
  BY SizesAssumption DEF Connection, Socket
<1> HIDE DEF t
<1>3. Agree(c, t, g + 1, b, sending, complete)
  <2> DEFINE paid == IF Contains(s.rx, "end") \/ complete THEN ReqLen ELSE 0
             owed == IF b = 1 THEN ReqLen ELSE 0
  <2>1. paid \in Nat /\ owed \in Nat /\ c.sendoffset + owed = s.tx + g + paid
    BY <1>2 DEF Agree
  <2>2. paid = IF Contains(t.rx, "end") \/ complete THEN ReqLen ELSE 0
    BY <1>1
  <2> HIDE DEF paid, owed
  <2>3. c.sendoffset + owed = t.tx + (g + 1) + paid
    BY <1>1, <1>2, <2>1
  <2> QED BY <1>1, <2>2, <2>3 DEF Agree, owed
<1> QED BY <1>3 DEF t

(* A peer that has read the request owes its response.                      *)
LEMMA AgreeOwes ==
  ASSUME NEW c \in Connection, NEW s \in Socket, NEW g \in 0 .. ReqLen, NEW b,
         NEW sending, NEW complete,
         Agree(c, s, g, b, sending, complete), g = ReqLen
  PROVE  b = 1 /\ ~(Contains(s.rx, "end") \/ complete)
<1> DEFINE answered == Contains(s.rx, "end") \/ complete
<1>1. c.sendoffset \in Nat /\ c.sendoffset < ReqLen /\ s.tx \in Nat /\ ReqLen \in Nat \ {0}
  BY SizesAssumption DEF Connection, Socket, Agree
<1>2. c.sendoffset + (IF b = 1 THEN ReqLen ELSE 0) = s.tx + g + (IF answered THEN ReqLen ELSE 0)
  BY DEF Agree
<1> HIDE DEF answered
<1>3. b = 1 /\ ~answered
  BY <1>1, <1>2
<1> QED BY <1>3 DEF answered

(* A piece of the response arrives; its end settles what is owed.           *)
LEMMA AgreeArrive ==
  ASSUME NEW c \in Connection, NEW s \in Socket, NEW g \in 0 .. ReqLen, NEW b,
         NEW sending, NEW complete,
         Agree(c, s, g, b, sending, complete), g = ReqLen,
         NEW piece \in {"part", "end"}, NEW t,
         t.rx = Append(s.rx, piece), t.tx = s.tx, t.interest = s.interest
  PROVE  Agree(c, t, IF piece = "part" THEN g ELSE 0, b, sending, complete)
<1>1. c.sendoffset \in Nat /\ c.sendoffset < ReqLen /\ s.tx \in Nat /\ ReqLen \in Nat \ {0}
  BY SizesAssumption DEF Connection, Socket, Agree
<1>2. b = 1 /\ ~(Contains(s.rx, "end") \/ complete)
  BY AgreeOwes
<1>3. s.rx \in Seq(Piece) /\ piece \in Piece
  BY DEF Socket, Piece
<1>4. /\ Len(t.rx) = Len(s.rx) + 1 /\ Len(s.rx) \in Nat
      /\ \A i \in 1 .. Len(s.rx) : t.rx[i] = s.rx[i]
      /\ t.rx[Len(s.rx) + 1] = piece
  BY <1>3, AppendProperties, LenProperties
<1>5. Contains(t.rx, "end") <=> piece = "end"
  BY <1>2, <1>4 DEF Contains
<1>6. \A i \in 1 .. Len(t.rx) : t.rx[i] # "junk"
  BY <1>2, <1>4 DEF Agree
<1>7. Agree(c, t, IF piece = "part" THEN g ELSE 0, b, sending, complete)
  BY <1>1, <1>2, <1>5, <1>6 DEF Agree
<1> QED BY <1>7

-----------------------------------------------------------------------------
(* The connections a step leaves alone.                                    *)

LEMMA LinkedStays ==
  ASSUME NEW f \in Fd, conn'[f] = conn[f], sock'[f] = sock[f], got'[f] = got[f],
         balance'[f] = balance[f], Sending(f)' <=> Sending(f), Complete(f)' <=> Complete(f),
         Linked(f)
  PROVE  Linked(f)'
BY DEF Linked, Unused, Agree

(* Steps that leave the batch alone and touch one connection.               *)
LEMMA StayWork ==
  ASSUME FullInv, Running, NEW fd \in Fd, batch' = batch, balance' = balance, timer' = timer,
         \A f \in Fd \ {fd} : conn'[f] = conn[f] /\ sock'[f] = sock[f] /\ got'[f] = got[f],
         (pc' = pc /\ acc' = acc) \/ (Busy /\ fd = Current),
         Linked(fd)',
         pc' = "recv" => balance[Current] = 1 /\ acc' \in {"empty", "partial", "complete"},
         pc' = "send" => sock'[Current].interest \in {"connect", "write"} /\ conn'[Current].connected
  PROVE  WorkInv'
<1>1. (\A f \in Fd : Linked(f)) /\ HandInv
  BY DEF FullInv, WorkInv
<1>2. Current' = Current
  BY DEF Current
<1>3. ASSUME NEW f \in Fd \ {fd} PROVE Linked(f)'
  <2>1. (Sending(f)' <=> Sending(f)) /\ (Complete(f)' <=> Complete(f))
    BY <1>2 DEF Sending, Complete
  <2> QED BY <1>1, <2>1, LinkedStays
<1>4. HandInv'
  <2>1. \A i \in 1 .. Len(batch') :
          batch'[i].fd \in Fd /\ batch'[i].events \cap {"IN", "RDHUP", "ERR"} = {"IN"}
            => balance'[batch'[i].fd] = 1
    BY <1>1 DEF HandInv
  <2> QED BY <1>2, <2>1 DEF HandInv
<1> QED BY <1>3, <1>4 DEF WorkInv

(* Steps that end the handling of an event.                                 *)
LEMMA TurnWork ==
  ASSUME FullInv, Running, Busy, NextEvent, timer' = timer,
         NEW fd \in Fd, fd = Current,
         \A f \in Fd \ {fd} :
           /\ conn'[f] = conn[f] /\ sock'[f] = sock[f] /\ got'[f] = got[f]
           /\ balance'[f] = balance[f],
         conn'[fd] # NULL,
         Agree(conn'[fd], sock'[fd], got'[fd], balance'[fd], FALSE, FALSE)
  PROVE  WorkInv'
<1>1. (\A f \in Fd : Linked(f)) /\ HandInv
  BY DEF FullInv, WorkInv
<1>2. /\ \A i \in 1 .. Len(batch') :
           i + 1 \in 1 .. Len(batch) /\ batch'[i] = batch[i + 1] /\ batch'[i].fd # fd
      /\ acc' = "empty" /\ pc' \in {"wait", "dispatch"}
  BY NextEventFacts DEF FullInv, SafeInv, TypeOK, QueueInv
<1>3. \A f : ~Sending(f)' /\ ~Complete(f)'
  BY <1>2 DEF Sending, Complete
<1>4. \A f : f # fd => ~Sending(f) /\ ~Complete(f)
  BY DEF Sending, Complete
<1>5. Linked(fd)'
  BY <1>3 DEF Linked, Agree
<1>7. ASSUME NEW f \in Fd \ {fd} PROVE Linked(f)'
  BY <1>1, <1>3, <1>4, LinkedStays
<1>8. HandInv'
  <2>1. ASSUME NEW i \in 1 .. Len(batch'), batch'[i].fd \in Fd,
               batch'[i].events \cap {"IN", "RDHUP", "ERR"} = {"IN"}
        PROVE  balance'[batch'[i].fd] = 1
    <3>1. i + 1 \in 1 .. Len(batch) /\ batch'[i] = batch[i + 1] /\ batch'[i].fd # fd
      BY <1>2
    <3>2. balance[batch[i + 1].fd] = 1
      BY <1>1, <2>1, <3>1 DEF HandInv
    <3> QED BY <2>1, <3>1, <3>2
  <2> QED BY <1>2, <2>1 DEF HandInv
<1> QED BY <1>5, <1>7, <1>8 DEF WorkInv

-----------------------------------------------------------------------------
(* The peer and the kernel.                                                *)

(* A step of the environment on one connection.                             *)
LEMMA PeerWork ==
  ASSUME FullInv, Running, NEW fd \in Fd, NEW t, conn[fd] # NULL,
         UNCHANGED <<pc, conn, batch, acc, timer, totals, balance, fresh>>,
         sock' = [sock EXCEPT ![fd] = t], t.interest = sock[fd].interest,
         \A f \in Fd \ {fd} : got'[f] = got[f],
         Agree(conn[fd], t, got'[fd], balance[fd], Sending(fd), Complete(fd))
  PROVE  WorkInv'
<1>1. HandInv /\ sock \in [Fd -> Socket]
  BY DEF FullInv, WorkInv, SafeInv, TypeOK
<1>2. sock'[fd] = t /\ \A f \in Fd \ {fd} : sock'[f] = sock[f]
  BY <1>1
<1>3. Linked(fd)'
  <2>1. (Sending(fd)' <=> Sending(fd)) /\ (Complete(fd)' <=> Complete(fd))
    BY DEF Sending, Complete, Current
  <2> QED BY <1>2, <2>1 DEF Linked, Agree
<1>4. pc' = "send" => sock'[Current].interest \in {"connect", "write"} /\ conn'[Current].connected
  <2>1. pc = "send" => Current \in Fd
    BY DEF FullInv, SafeInv, QueueInv
  <2> HIDE DEF Current
  <2> QED BY <1>1, <1>2, <2>1 DEF HandInv
<1>5. pc' = "recv" => balance[Current] = 1 /\ acc' \in {"empty", "partial", "complete"}
  BY <1>1 DEF HandInv
<1> QED BY <1>2, <1>3, <1>4, <1>5, StayWork

LEMMA ServesWork ==
  ASSUME Polite, FullInv, Running, NEW fd \in Fd, Serving(fd) \/ Trouble(fd)
  PROVE  WorkInv'
<1> DEFINE s == sock[fd]
           c == conn[fd]
<1>0. sock \in [Fd -> Socket] /\ got \in [Fd -> 0 .. ReqLen] /\ s \in Socket /\ got[fd] \in 0 .. ReqLen
  BY DEF FullInv, SafeInv, TypeOK
<1>1. s.state \in {"connecting", "open"}
  BY DEF Serving, Trouble, PeerAccepts, PeerRefuses, ConnectFails, Settle, PeerReads, PeerSends,
     PeerEnds, PeerSendsJunk, Arrive, PeerCloses, PeerResets
<1>2. c # NULL /\ c \in Connection
      /\ Agree(c, s, got[fd], balance[fd], Sending(fd), Complete(fd))
  BY <1>1 DEF FullInv, WorkInv, SafeInv, TypeOK, Linked, Unused, NoSocket
<1>5. CASE PeerAccepts(fd) \/ PeerRefuses(fd) \/ ConnectFails(fd)
  <2>1. PICK state \in {"open", "refused", "failed"} : Settle(fd, state)
    BY <1>5 DEF PeerAccepts, PeerRefuses, ConnectFails
  <2> DEFINE t == [s EXCEPT !.state = state]
  <2>2. /\ t \in Socket /\ t.interest = s.interest /\ t.rx = s.rx /\ t.tx = s.tx
        /\ sock' = [sock EXCEPT ![fd] = t] /\ got' = got
        /\ UNCHANGED <<pc, conn, batch, acc, timer, totals, balance, fresh>>
    BY <1>0, <2>1 DEF Settle, Socket
  <2> HIDE DEF t
  <2>3. Agree(c, t, got'[fd], balance[fd], Sending(fd), Complete(fd))
    BY <1>2, <2>2 DEF Agree
  <2> QED BY <1>2, <2>2, <2>3, PeerWork
<1>6. CASE PeerCloses(fd) \/ PeerResets(fd)
  <2>1. PICK t \in {[s EXCEPT !.fin = TRUE], [s EXCEPT !.state = "reset"]} :
          /\ sock' = [sock EXCEPT ![fd] = t] /\ got' = got
          /\ UNCHANGED <<pc, conn, batch, acc, timer, totals, balance, fresh>>
    BY <1>0, <1>6 DEF PeerCloses, PeerResets
  <2>2. t \in Socket /\ t.interest = s.interest /\ t.rx = s.rx /\ t.tx = s.tx
    BY <1>0, <2>1 DEF Socket
  <2>3. Agree(c, t, got'[fd], balance[fd], Sending(fd), Complete(fd))
    BY <1>2, <2>1, <2>2 DEF Agree
  <2> QED BY <1>2, <2>1, <2>2, <2>3, PeerWork
<1>7. CASE PeerReads(fd)
  <2> DEFINE t == [s EXCEPT !.tx = s.tx - 1]
  <2>1. /\ s.state = "open" /\ s.tx > 0 /\ got[fd] < ReqLen /\ sock' = [sock EXCEPT ![fd] = t]
        /\ got' = [got EXCEPT ![fd] = got[fd] + 1]
        /\ UNCHANGED <<pc, conn, batch, acc, timer, totals, balance, fresh>>
    BY <1>0, <1>7 DEF PeerReads
  <2>2. /\ t.interest = s.interest /\ t.rx = s.rx /\ t.tx = s.tx - 1 /\ t.state = s.state
        /\ t.fin = s.fin /\ s.tx \in 0 .. SndBuf
    BY <1>0 DEF Socket
  <2>3. Agree(c, t, got'[fd], balance[fd], Sending(fd), Complete(fd))
    <3>1. got'[fd] = got[fd] + 1
      BY <1>0, <2>1
    <3>2. Sending(fd) \in BOOLEAN /\ Complete(fd) \in BOOLEAN
      BY DEF Sending, Complete
    <3> QED BY <1>0, <1>2, <2>1, <3>1, <3>2, AgreeRead
  <2>4. \A f \in Fd \ {fd} : got'[f] = got[f]
    BY <1>0, <2>1
  <2> HIDE DEF t, s
  <2> QED BY <1>2, <2>1, <2>2, <2>3, <2>4, PeerWork DEF s
<1>8. CASE PeerSends(fd) \/ PeerEnds(fd) \/ PeerSendsJunk(fd)
  <2>1. PICK piece \in {"part", "end"} :
          /\ Arrive(fd, piece) /\ got[fd] = ReqLen
          /\ got' = [got EXCEPT ![fd] = IF piece = "part" THEN got[fd] ELSE 0]
    <3>1. "early" \notin Env /\ "junk" \notin Env
      BY DEF Polite
    <3> QED BY <1>0, <1>8, <3>1 DEF PeerSends, PeerEnds, PeerSendsJunk
  <2> DEFINE t == [s EXCEPT !.rx = Append(s.rx, piece)]
  <2>2. /\ t.interest = s.interest /\ t.tx = s.tx /\ t.state = s.state /\ t.fin = s.fin
        /\ sock' = [sock EXCEPT ![fd] = t]
        /\ UNCHANGED <<pc, conn, batch, acc, timer, totals, balance, fresh>>
    BY <1>0, <2>1 DEF Arrive, Socket
  <2>3. Agree(c, t, got'[fd], balance[fd], Sending(fd), Complete(fd))
    <3>1. Sending(fd) \in BOOLEAN /\ Complete(fd) \in BOOLEAN
      BY DEF Sending, Complete
    <3>2. got'[fd] = IF piece = "part" THEN got[fd] ELSE 0
      BY <1>0, <2>1
    <3>3. t.rx = Append(s.rx, piece)
      BY <1>0 DEF Socket
    <3> DEFINE sending == Sending(fd)
               complete == Complete(fd)
    <3>4. /\ c \in Connection /\ s \in Socket /\ got[fd] \in 0 .. ReqLen
          /\ Agree(c, s, got[fd], balance[fd], sending, complete) /\ got[fd] = ReqLen
          /\ sending \in BOOLEAN /\ complete \in BOOLEAN
          /\ t.rx = Append(s.rx, piece) /\ t.tx = s.tx /\ t.interest = s.interest
      BY <1>0, <1>2, <2>1, <2>2, <3>1, <3>3
    <3> HIDE DEF s, c, t, sending, complete
    <3>5. Agree(c, t, IF piece = "part" THEN got[fd] ELSE 0, balance[fd], sending, complete)
      BY <3>4, AgreeArrive
    <3> QED BY <3>2, <3>5 DEF sending, complete
  <2>4. \A f \in Fd \ {fd} : got'[f] = got[f]
    BY <1>0, <2>1
  <2> HIDE DEF t, s
  <2> QED BY <1>2, <2>2, <2>3, <2>4, PeerWork DEF s
<1> QED BY <1>5, <1>6, <1>7, <1>8 DEF Serving, Trouble

-----------------------------------------------------------------------------
(* The program.                                                            *)

LEMMA ExitWork == ASSUME pc' \in {"exit", "returned"} PROVE WorkInv'
BY DEF WorkInv, Running

LEMMA RecycleWork ==
  ASSUME FullInv, Running, Busy, NEW fd \in Fd, fd = Current, Recycle(fd)
  PROVE  WorkInv'
<1>1. CASE Exit
  BY <1>1, ExitWork DEF Exit
<1>2. CASE /\ OpenConnection(fd)
           /\ rdlist' = Unqueued(rdlist, fd)
           /\ fresh' = fresh \cup {fd}
           /\ NextEvent
           /\ UNCHANGED <<timer, totals>>
  <2>1. /\ conn'[fd] = FreshConn /\ sock'[fd] \in ConnectOutcomes /\ got'[fd] = 0 /\ balance'[fd] = 0
        /\ \A f \in Fd \ {fd} : /\ conn'[f] = conn[f] /\ sock'[f] = sock[f]
                                /\ got'[f] = got[f] /\ balance'[f] = balance[f]
    BY <1>2, OpenTypes DEF FullInv, SafeInv
  <2>2. conn'[fd] # NULL
    BY <2>1, FreshTypes
  <2>3. Agree(conn'[fd], sock'[fd], got'[fd], balance'[fd], FALSE, FALSE)
    BY <2>1, AgreeOpen
  <2> QED BY <1>2, <2>1, <2>2, <2>3, TurnWork
<1> QED BY <1>1, <1>2 DEF Recycle

LEMMA HandlerWork == ASSUME FullInv, NEW fd \in Fd, Handler(fd) PROVE WorkInv'
<1>0. Handling(fd)
  BY DEF Handler, OnRdhup, OnErr, OnIn, OnOut
<1>1. /\ Running /\ Busy /\ Current = fd /\ pc = "dispatch" /\ batch # <<>>
      /\ Head(batch) = batch[1] /\ 1 \in 1 .. Len(batch) /\ batch[1].fd = fd
  BY <1>0, HandlingFacts DEF FullInv, SafeInv, Current
<1>2. /\ conn[fd] # NULL /\ conn[fd] \in Connection /\ sock[fd] \in Socket
      /\ conn \in [Fd -> Connection \cup {NULL}]
      /\ Linked(fd) /\ HandInv /\ acc = "empty"
  BY <1>1 DEF FullInv, WorkInv, SafeInv, TypeOK, QueueInv
<1>3. ~Sending(fd) /\ ~Complete(fd) /\ Agree(conn[fd], sock[fd], got[fd], balance[fd], FALSE, FALSE)
  <2>1. ~Sending(fd) /\ ~Complete(fd)
    BY <1>1, <1>2 DEF Sending, Complete
  <2> QED BY <1>2, <2>1 DEF Linked, Agree
<1>4. CASE Recycle(fd)
  BY <1>1, <1>4, RecycleWork
<1>5. CASE Exit
  BY <1>5, ExitWork DEF Exit
<1>6. CASE OnIn(fd)
  <2>1. /\ pc' = "recv" /\ acc' = conn[fd].buf
        /\ UNCHANGED <<conn, sock, got, rdlist, batch, timer, totals, balance, fresh>>
        /\ "IN" \in batch[1].events /\ "RDHUP" \notin batch[1].events /\ "ERR" \notin batch[1].events
    BY <1>1, <1>6 DEF OnIn, Has
  <2>2. balance[fd] = 1
    <3>1. batch[1].events \cap {"IN", "RDHUP", "ERR"} = {"IN"}
      BY <2>1
    <3> QED BY <1>1, <1>2, <3>1 DEF HandInv
  <2>3. conn[fd].buf \in {"empty", "partial"}
    BY <1>3 DEF Agree
  <2>4. Linked(fd)'
    <3>1. ~Sending(fd)' /\ ~Complete(fd)'
      BY <2>1, <2>3 DEF Sending, Complete
    <3> QED BY <1>2, <1>3, <2>1, <3>1 DEF Linked, Agree
  <2> HIDE DEF Current
  <2> QED BY <1>1, <2>1, <2>2, <2>3, <2>4, StayWork DEF totals
<1>7. CASE /\ Head(batch).events = {"OUT"}
           /\ conn' = [conn EXCEPT ![fd].connected = TRUE]
           /\ pc' = "send"
           /\ UNCHANGED <<sock, got, rdlist, batch, acc, timer, totals, balance, fresh>>
  <2>1. sock[fd].interest \in {"connect", "write"}
    <3>1. {"OUT"} \subseteq Asked(sock[fd].interest)
      BY <1>1, <1>7 DEF FullInv, SafeInv, QueueInv
    <3>2. sock[fd].interest \in {"none", "connect", "read", "write"}
      BY <1>2 DEF Socket
    <3> QED BY <3>1, <3>2 DEF Asked
  <2> DEFINE c == [conn[fd] EXCEPT !.connected = TRUE]
  <2>2. c.connected /\ c.sendoffset = conn[fd].sendoffset /\ c.buf = conn[fd].buf /\ c \in Connection
    BY <1>2 DEF Connection
  <2>3. conn'[fd] = c /\ c # NULL /\ \A f \in Fd \ {fd} : conn'[f] = conn[f]
    BY <1>2, <1>7, <2>2, NullAssumption
  <2> HIDE DEF c
  <2>4. Linked(fd)'
    <3>1. Sending(fd)' /\ ~Complete(fd)'
      BY <1>1, <1>2, <1>7 DEF Sending, Complete, Current
    <3>2. Agree(c, sock[fd], got[fd], balance[fd], TRUE, FALSE)
      BY <1>3, <2>1, <2>2 DEF Agree
    <3> QED BY <1>7, <2>3, <3>1, <3>2 DEF Linked, Agree
  <2> HIDE DEF Current
  <2> QED BY <1>1, <1>7, <2>1, <2>2, <2>3, <2>4, StayWork DEF totals
<1> QED BY <1>4, <1>5, <1>6, <1>7 DEF Handler, OnRdhup, OnErr, OnOut

(* While a response is received.                                            *)
LEMMA RecvFacts ==
  ASSUME FullInv, pc = "recv"
  PROVE  /\ Running /\ Busy /\ Current \in Fd /\ batch # <<>> /\ batch \in Seq(Event)
         /\ conn[Current] \in Connection /\ conn[Current] # NULL
         /\ sock[Current] \in Socket /\ got[Current] \in 0 .. ReqLen
         /\ balance[Current] = 1 /\ acc \in {"empty", "partial", "complete"}
         /\ Agree(conn[Current], sock[Current], got[Current], balance[Current],
                  FALSE, acc = "complete")
<1>1. /\ Running /\ Busy /\ Current \in Fd /\ batch # <<>> /\ batch \in Seq(Event)
      /\ conn[Current] \in Connection /\ conn[Current] # NULL /\ sock[Current] \in Socket
      /\ got[Current] \in 0 .. ReqLen
  BY InHandFacts DEF FullInv, SafeInv, TypeOK
<1>2. balance[Current] = 1 /\ acc \in {"empty", "partial", "complete"}
  BY <1>1 DEF FullInv, WorkInv, HandInv
<1>3. ~Sending(Current) /\ (Complete(Current) <=> acc = "complete")
  BY <1>1 DEF Sending, Complete
<1> HIDE DEF Current
<1>4. Linked(Current)
  BY <1>1 DEF FullInv, WorkInv
<1>5. Agree(conn[Current], sock[Current], got[Current], balance[Current], FALSE, acc = "complete")
  BY <1>1, <1>3, <1>4 DEF Linked, Agree
<1> QED BY <1>1, <1>2, <1>5

LEMMA RecvDataWork == ASSUME FullInv, RecvData PROVE WorkInv'
<1>1. PICK fd : fd = Current
  OBVIOUS
<1> DEFINE s == sock[fd]
           t == [s EXCEPT !.rx = Tail(s.rx)]
<1>2. /\ pc = "recv" /\ acc' = Parse(acc, Head(s.rx)) /\ s.rx # <<>>
      /\ UNCHANGED <<pc, conn, got, rdlist, batch, timer, totals, balance, fresh>>
  BY <1>1 DEF RecvData
<1>3. /\ Running /\ Busy /\ fd \in Fd /\ batch # <<>> /\ conn[fd] # NULL /\ s \in Socket
      /\ balance[fd] = 1 /\ acc \in {"empty", "partial", "complete"}
      /\ Agree(conn[fd], s, got[fd], balance[fd], FALSE, acc = "complete")
  BY <1>1, <1>2, RecvFacts
<1>4. sock' = [sock EXCEPT ![fd] = t]
  BY <1>1, RecvDataFacts DEF FullInv
<1>5. sock'[fd] = t /\ \A f \in Fd \ {fd} : sock'[f] = sock[f]
  BY <1>3, <1>4 DEF FullInv, SafeInv, TypeOK
<1>6. /\ acc' \in {"partial", "complete"}
      /\ Agree(conn[fd], t, got[fd], balance[fd], FALSE, acc' = "complete")
  BY <1>2, <1>3, AgreeRecv
<1> HIDE DEF t, s
<1>7. Linked(fd)'
  <2>1. ~Sending(fd)' /\ (Complete(fd)' <=> acc' = "complete")
    BY <1>1, <1>2, <1>3 DEF Sending, Complete, Current
  <2> QED BY <1>2, <1>3, <1>5, <1>6, <2>1 DEF Linked, Agree
<1>9. pc' = "recv" => balance[Current] = 1 /\ acc' \in {"empty", "partial", "complete"}
  BY <1>1, <1>3, <1>6
<1> HIDE DEF Current
<1> QED BY <1>1, <1>2, <1>3, <1>5, <1>7, <1>9, StayWork DEF totals

LEMMA ResponseCompleteWork == ASSUME FullInv, ResponseComplete PROVE WorkInv'
<1>1. PICK fd : fd = Current
  OBVIOUS
<1> DEFINE s == sock[fd]
           t == [s EXCEPT !.interest = "write"]
           c == [conn[fd] EXCEPT !.buf = "empty"]
<1>2. /\ pc = "recv" /\ acc = "complete" /\ s.rx = <<>> /\ NextEvent
      /\ conn' = [conn EXCEPT ![fd].buf = "empty"]
      /\ balance' = [balance EXCEPT ![fd] = @ - 1]
      /\ ModifyEvent(fd, "write")
      /\ UNCHANGED <<got, timer, total_requests, fresh>>
  BY <1>1 DEF ResponseComplete, RecvDone
<1>3. /\ Running /\ Busy /\ fd \in Fd /\ conn[fd] \in Connection /\ s \in Socket
      /\ got[fd] \in 0 .. ReqLen /\ balance[fd] = 1
      /\ Agree(conn[fd], s, got[fd], balance[fd], FALSE, acc = "complete")
  BY <1>1, <1>2, RecvFacts
<1>4. Agree(conn[fd], s, got[fd], balance[fd], FALSE, TRUE)
  BY <1>2, <1>3 DEF Agree
<1>5. conn \in [Fd -> Connection \cup {NULL}] /\ sock \in [Fd -> Socket] /\ balance \in [Fd -> Int]
  BY DEF FullInv, SafeInv, TypeOK
<1>6. /\ conn'[fd] = c /\ sock'[fd] = t /\ balance'[fd] = balance[fd] - 1 /\ got'[fd] = got[fd]
      /\ \A f \in Fd \ {fd} : /\ conn'[f] = conn[f] /\ sock'[f] = sock[f]
                              /\ got'[f] = got[f] /\ balance'[f] = balance[f]
  BY <1>2, <1>3, <1>5 DEF ModifyEvent
<1>7. c # NULL
  BY <1>3, NullAssumption DEF Connection
<1>8. Agree(c, t, got[fd], balance[fd] - 1, FALSE, FALSE)
  BY <1>2, <1>3, <1>4, AgreeWrite
<1> HIDE DEF t, c
<1> HIDE DEF s, Current
<1> QED BY <1>1, <1>2, <1>3, <1>6, <1>7, <1>8, TurnWork

LEMMA ResponsePartialWork == ASSUME FullInv, ResponsePartial PROVE WorkInv'
<1>1. PICK fd : fd = Current
  OBVIOUS
<1> DEFINE s == sock[fd]
           c == [conn[fd] EXCEPT !.buf = acc]
<1>2. /\ pc = "recv" /\ acc \in {"partial", "bad"} /\ NextEvent
      /\ s.state = "open" /\ s.rx = <<>> /\ ~s.fin
      /\ conn' = [conn EXCEPT ![fd].buf = acc]
      /\ UNCHANGED <<sock, got, rdlist, timer, totals, balance, fresh>>
  BY <1>1 DEF ResponsePartial, RecvDone
<1>3. /\ Running /\ Busy /\ fd \in Fd /\ conn[fd] \in Connection /\ s \in Socket
      /\ balance[fd] = 1 /\ acc \in {"empty", "partial", "complete"}
      /\ Agree(conn[fd], s, got[fd], balance[fd], FALSE, acc = "complete")
  BY <1>1, <1>2, RecvFacts
<1>4. c.buf = "partial" /\ c.sendoffset = conn[fd].sendoffset /\ c.connected = conn[fd].connected
  BY <1>2, <1>3 DEF Connection
<1>5. c # NULL
  BY <1>2, <1>3, NullAssumption DEF Connection
<1>6. conn'[fd] = c /\ \A f \in Fd \ {fd} : conn'[f] = conn[f]
  BY <1>2, <1>3 DEF FullInv, SafeInv, TypeOK
<1> HIDE DEF c
<1>7. Agree(c, s, got[fd], balance[fd], FALSE, FALSE)
  BY <1>2, <1>3, <1>4 DEF Agree
<1> HIDE DEF s, Current
<1> QED BY <1>1, <1>2, <1>3, <1>5, <1>6, <1>7, TurnWork DEF s

LEMMA ReceiveWork == ASSUME FullInv, Receive PROVE WorkInv'
<1>1. CASE ReceiveFails
  <2>1. pc = "recv" /\ Recycle(Current)
    BY <1>1 DEF ReceiveFails, RecvDone
  <2>2. PICK fd : fd = Current
    OBVIOUS
  <2>3. Running /\ Busy /\ fd \in Fd /\ Recycle(fd)
    BY <2>1, <2>2, RecvFacts
  <2> QED BY <2>2, <2>3, RecycleWork
<1> QED BY <1>1, RecvDataWork, ResponseCompleteWork, ResponsePartialWork DEF Receive

(* While a request is sent.                                                 *)
LEMMA SendFacts ==
  ASSUME FullInv, pc = "send"
  PROVE  /\ Running /\ Busy /\ Current \in Fd /\ batch # <<>> /\ batch \in Seq(Event)
         /\ conn[Current] \in Connection /\ conn[Current] # NULL /\ conn[Current].connected
         /\ sock[Current] \in Socket /\ sock[Current].interest \in {"connect", "write"}
         /\ got[Current] \in 0 .. ReqLen /\ acc = "empty"
         /\ Agree(conn[Current], sock[Current], got[Current], balance[Current], TRUE, FALSE)
<1>1. /\ Running /\ Busy /\ Current \in Fd /\ batch # <<>> /\ batch \in Seq(Event)
      /\ conn[Current] \in Connection /\ conn[Current] # NULL /\ sock[Current] \in Socket
      /\ got[Current] \in 0 .. ReqLen
  BY InHandFacts DEF FullInv, SafeInv, TypeOK
<1>2. acc = "empty"
  BY <1>1 DEF FullInv, SafeInv, QueueInv
<1>3. sock[Current].interest \in {"connect", "write"} /\ conn[Current].connected
  BY <1>1 DEF FullInv, WorkInv, HandInv
<1>4. Sending(Current) /\ ~Complete(Current)
  BY <1>1, <1>2 DEF Sending, Complete
<1> HIDE DEF Current
<1>5. Linked(Current)
  BY <1>1 DEF FullInv, WorkInv
<1>6. Agree(conn[Current], sock[Current], got[Current], balance[Current], TRUE, FALSE)
  BY <1>1, <1>4, <1>5 DEF Linked, Agree
<1> QED BY <1>1, <1>2, <1>3, <1>6

LEMMA SendDataWork == ASSUME FullInv, SendData PROVE WorkInv'
<1>1. PICK fd : fd = Current
  OBVIOUS
<1> DEFINE s == sock[fd]
           c == conn[fd]
<1>2. pc = "send" /\ UNCHANGED <<got, timer, total_responses, fresh>>
  BY DEF SendData
<1>3. PICK n \in Nat :
        /\ c.sendoffset + n \in 0 .. ReqLen
        /\ \/ /\ c.sendoffset + n < ReqLen
              /\ conn' = [conn EXCEPT ![fd] = [c EXCEPT !.sendoffset = c.sendoffset + n]]
              /\ sock' = [sock EXCEPT ![fd] = [s EXCEPT !.tx = s.tx + n]]
              /\ UNCHANGED <<pc, rdlist, batch, acc, total_requests, balance>>
           \/ /\ c.sendoffset + n = ReqLen
              /\ conn' = [conn EXCEPT ![fd] = [c EXCEPT !.sendoffset = 0]]
              /\ sock' = [sock EXCEPT ![fd] = [s EXCEPT !.tx = s.tx + n, !.interest = "read"]]
              /\ rdlist' = (IF Poll(fd) \cap Asked("read") # {} THEN Queued(rdlist, fd) ELSE rdlist)
              /\ total_requests' = (total_requests + 1) % Wrap
              /\ balance' = [balance EXCEPT ![fd] = balance[fd] + 1]
              /\ NextEvent
  BY <1>1, SendDataFacts DEF FullInv
<1>4. /\ Running /\ Busy /\ fd \in Fd /\ batch # <<>> /\ batch \in Seq(Event)
      /\ c \in Connection /\ c # NULL /\ c.connected
      /\ s \in Socket /\ s.interest \in {"connect", "write"} /\ got[fd] \in 0 .. ReqLen
      /\ acc = "empty"
      /\ Agree(c, s, got[fd], balance[fd], TRUE, FALSE)
  BY <1>1, <1>2, SendFacts
<1>5. conn \in [Fd -> Connection \cup {NULL}] /\ sock \in [Fd -> Socket] /\ balance \in [Fd -> Int]
  BY DEF FullInv, SafeInv, TypeOK
<1>6. s = sock[fd] /\ c = conn[fd]
  OBVIOUS
<1> HIDE DEF s, c
<1>7. CASE /\ c.sendoffset + n < ReqLen
           /\ conn' = [conn EXCEPT ![fd] = [c EXCEPT !.sendoffset = c.sendoffset + n]]
           /\ sock' = [sock EXCEPT ![fd] = [s EXCEPT !.tx = s.tx + n]]
           /\ UNCHANGED <<pc, rdlist, batch, acc, total_requests, balance>>
  <2> DEFINE d == [c EXCEPT !.sendoffset = c.sendoffset + n]
             t == [s EXCEPT !.tx = s.tx + n]
  <2>1. /\ d \in Connection /\ d.connected
        /\ t.interest = s.interest
    BY <1>3, <1>4 DEF Connection, Socket
  <2>2. Agree(d, t, got[fd], balance[fd], TRUE, FALSE)
    BY <1>4, <1>7, AgreeSend
  <2>3. /\ conn'[fd] = d /\ sock'[fd] = t
        /\ \A f \in Fd \ {fd} : conn'[f] = conn[f] /\ sock'[f] = sock[f] /\ got'[f] = got[f]
    BY <1>2, <1>4, <1>5, <1>7
  <2> HIDE DEF d, t
  <2>4. Linked(fd)'
    <3>1. Sending(fd)' /\ ~Complete(fd)'
      BY <1>1, <1>2, <1>4, <1>7 DEF Sending, Complete, Current
    <3>2. conn'[fd] # NULL
      BY <2>1, <2>3, NullAssumption
    <3> QED BY <1>2, <1>7, <2>2, <2>3, <3>1, <3>2 DEF Linked, Agree
  <2> HIDE DEF Current
  <2> QED BY <1>1, <1>2, <1>4, <1>7, <2>1, <2>3, <2>4, StayWork
<1>8. CASE /\ c.sendoffset + n = ReqLen
           /\ conn' = [conn EXCEPT ![fd] = [c EXCEPT !.sendoffset = 0]]
           /\ sock' = [sock EXCEPT ![fd] = [s EXCEPT !.tx = s.tx + n, !.interest = "read"]]
           /\ rdlist' = (IF Poll(fd) \cap Asked("read") # {} THEN Queued(rdlist, fd) ELSE rdlist)
           /\ balance' = [balance EXCEPT ![fd] = balance[fd] + 1]
           /\ NextEvent
  <2> DEFINE d == [c EXCEPT !.sendoffset = 0]
             t == [s EXCEPT !.tx = s.tx + n, !.interest = "read"]
  <2>1. /\ d \in Connection
        /\ t.interest = "read"
    BY <1>4, SizesAssumption DEF Connection, Socket
  <2>2. Agree(d, t, got[fd], balance[fd] + 1, FALSE, FALSE)
    BY <1>4, <1>8, AgreeSend
  <2>3. /\ conn'[fd] = d /\ sock'[fd] = t /\ balance'[fd] = balance[fd] + 1 /\ got'[fd] = got[fd]
        /\ \A f \in Fd \ {fd} : /\ conn'[f] = conn[f] /\ sock'[f] = sock[f]
                                /\ got'[f] = got[f] /\ balance'[f] = balance[f]
    BY <1>2, <1>4, <1>5, <1>8
  <2>4. d # NULL
    BY <2>1, NullAssumption
  <2> HIDE DEF d, t
  <2> HIDE DEF Current
  <2> QED BY <1>1, <1>2, <1>4, <1>8, <2>2, <2>3, <2>4, TurnWork
<1> QED BY <1>3, <1>7, <1>8

LEMMA SendAgainWork == ASSUME FullInv, SendAgain PROVE WorkInv'
<1>1. PICK fd : fd = Current
  OBVIOUS
<1> DEFINE s == sock[fd]
           t == [s EXCEPT !.interest = "write"]
<1>2. /\ pc = "send" /\ ModifyEvent(fd, "write") /\ NextEvent
      /\ UNCHANGED <<conn, got, timer, totals, balance, fresh>>
  BY <1>1 DEF SendAgain
<1>3. /\ Running /\ Busy /\ fd \in Fd /\ conn[fd] \in Connection /\ conn[fd] # NULL
      /\ s \in Socket /\ s.interest \in {"connect", "write"} /\ got[fd] \in 0 .. ReqLen
      /\ Agree(conn[fd], s, got[fd], balance[fd], TRUE, FALSE)
  BY <1>1, <1>2, SendFacts
<1>4. sock'[fd] = t /\ \A f \in Fd \ {fd} : sock'[f] = sock[f]
  BY <1>2, <1>3 DEF ModifyEvent, FullInv, SafeInv, TypeOK
<1>5. /\ t.interest = "write" /\ t.state = s.state /\ t.rx = s.rx /\ t.fin = s.fin /\ t.tx = s.tx
      /\ rdlist' = IF Poll(fd) \cap Asked("write") # {} THEN Queued(rdlist, fd) ELSE rdlist
  BY <1>2, <1>3 DEF ModifyEvent, Socket
<1>6. Agree(conn[fd], t, got[fd], balance[fd], FALSE, FALSE)
  BY <1>3, AgreeWrite
<1> HIDE DEF t
<1> HIDE DEF s, Current
<1> QED BY <1>1, <1>2, <1>3, <1>4, <1>6, TurnWork

LEMMA TransmitWork == ASSUME FullInv, Transmit PROVE WorkInv'
<1>1. CASE SendFails
  <2>1. PICK fd : fd = Current
    OBVIOUS
  <2>2. Running /\ Busy /\ fd \in Fd /\ Recycle(fd)
    BY <1>1, <2>1, SendFacts DEF SendFails
  <2> QED BY <2>1, <2>2, RecycleWork
<1> QED BY <1>1, SendDataWork, SendAgainWork DEF Transmit

(* Steps that change no connection while none is in hand.                   *)
LEMMA QuietWork ==
  ASSUME FullInv, Running, UNCHANGED <<conn, sock, got, balance>>,
         \A f \in Fd : (Sending(f)' <=> Sending(f)) /\ (Complete(f)' <=> Complete(f)),
         HandInv'
  PROVE  WorkInv'
<1>1. \A f \in Fd : Linked(f)'
  BY LinkedStays DEF FullInv, WorkInv
<1> QED BY <1>1 DEF WorkInv

LEMMA EnterLoopWork == ASSUME FullInv, EnterLoop PROVE WorkInv'
<1>1. /\ pc = "start" /\ pc' = "wait" /\ timer' \in {"none", "armed"}
      /\ UNCHANGED <<conn, sock, got, rdlist, batch, acc, totals, balance, fresh>>
  BY DEF EnterLoop
<1>2. Running /\ HandInv
  BY <1>1 DEF FullInv, WorkInv, Running
<1>3. \A f : (Sending(f)' <=> Sending(f)) /\ (Complete(f)' <=> Complete(f))
  BY <1>1 DEF Sending, Complete, Current
<1>4. HandInv'
  BY <1>1, <1>2 DEF HandInv
<1> QED BY <1>1, <1>2, <1>3, <1>4, QuietWork

LEMMA TimerExpiresWork == ASSUME FullInv, Running, TimerExpires PROVE WorkInv'
<1>1. /\ timer' = "expired" /\ rdlist' = Queued(rdlist, timerfd)
      /\ UNCHANGED <<pc, conn, sock, got, batch, acc, totals, balance, fresh>>
  BY DEF TimerExpires
<1>2. HandInv
  BY DEF FullInv, WorkInv, SafeInv, TypeOK
<1>3. \A f : (Sending(f)' <=> Sending(f)) /\ (Complete(f)' <=> Complete(f))
  BY <1>1 DEF Sending, Complete, Current
<1>4. HandInv'
  BY <1>1, <1>2 DEF HandInv, Current
<1> QED BY <1>1, <1>3, <1>4, QuietWork

LEMMA StartConnectionWork == ASSUME FullInv, StartConnection PROVE WorkInv'
<1>1. PICK fd \in Fd :
        \/ OpenConnection(fd) /\ UNCHANGED <<pc, rdlist, batch, acc, timer, totals, fresh>>
        \/ Exit
  BY DEF StartConnection
<1>2. CASE Exit
  BY <1>2, ExitWork DEF Exit
<1>3. CASE OpenConnection(fd) /\ UNCHANGED <<pc, rdlist, batch, acc, timer, totals, fresh>>
  <2>1. pc = "start" /\ Running /\ batch = <<>> /\ Len(batch) = 0
    BY EmptySeq DEF StartConnection, FullInv, SafeInv, QueueInv, Running, Busy
  <2>2. \A f \in Fd : Linked(f)
    BY <2>1 DEF FullInv, WorkInv
  <2>3. /\ conn'[fd] = FreshConn /\ sock'[fd] \in ConnectOutcomes /\ got'[fd] = 0 /\ balance'[fd] = 0
        /\ \A f \in Fd \ {fd} : /\ conn'[f] = conn[f] /\ sock'[f] = sock[f]
                                /\ got'[f] = got[f] /\ balance'[f] = balance[f]
    BY <1>3, OpenTypes DEF FullInv, SafeInv
  <2>4. \A f : ~Sending(f) /\ ~Complete(f) /\ ~Sending(f)' /\ ~Complete(f)'
    BY <1>3, <2>1 DEF Sending, Complete
  <2>5. Linked(fd)'
    <3>1. Agree(conn'[fd], sock'[fd], got'[fd], balance'[fd], FALSE, FALSE)
      BY <2>3, AgreeOpen
    <3>2. conn'[fd] # NULL
      BY <2>3, FreshTypes
    <3> QED BY <2>4, <3>1, <3>2 DEF Linked, Agree
  <2>6. \A f \in Fd \ {fd} : Linked(f)'
    BY <2>2, <2>3, <2>4, LinkedStays
  <2>7. HandInv'
    BY <1>3, <2>1 DEF HandInv
  <2> QED BY <2>5, <2>6, <2>7 DEF WorkInv
<1> QED BY <1>1, <1>2, <1>3

LEMMA EpollDropWork == ASSUME FullInv, EpollDrop PROVE WorkInv'
<1>1. /\ pc = "wait" /\ Running
      /\ UNCHANGED <<pc, conn, sock, got, batch, acc, timer, totals, balance, fresh>>
  BY DEF EpollDrop, Running
<1>2. HandInv
  BY <1>1 DEF FullInv, WorkInv
<1>3. \A f : (Sending(f)' <=> Sending(f)) /\ (Complete(f)' <=> Complete(f))
  BY <1>1 DEF Sending, Complete, Current
<1>4. HandInv'
  BY <1>1, <1>2 DEF HandInv, Current
<1> QED BY <1>1, <1>3, <1>4, QuietWork

(* A batch of events that says IN alone of a socket says that a piece of    *)
(* the response is there.                                                   *)
LEMMA EpollWaitWork == ASSUME FullInv, EpollWait PROVE WorkInv'
<1>1. PICK n \in 1 .. Len(rdlist) :
        /\ batch' \in Seq(Event) /\ Len(batch') = n /\ DOMAIN batch' = 1 .. n
        /\ \A i \in 1 .. n : batch'[i] = [fd |-> rdlist[i], events |-> Reported(rdlist[i])]
        /\ rdlist' = SubSeq(rdlist, n + 1, Len(rdlist))
  BY EpollWaitFacts DEF FullInv
<1>2. /\ pc = "wait" /\ pc' = "dispatch" /\ Running
      /\ UNCHANGED <<conn, sock, got, acc, timer, totals, balance>>
  BY DEF EpollWait, Running
<1>3. /\ (\A f \in Fd : Linked(f)) /\ HandInv
      /\ batch = <<>> /\ acc = "empty" /\ Len(rdlist) \in Nat
      /\ \A f \in Fd : conn[f] # NULL /\ sock[f] \in Socket
  BY <1>2, LenProperties DEF FullInv, WorkInv, SafeInv, TypeOK, QueueInv, Busy
<1>4. \A f : ~Sending(f) /\ ~Complete(f) /\ ~Sending(f)' /\ ~Complete(f)'
  BY <1>2, <1>3 DEF Sending, Complete
<1>5. n \in 0 .. Len(rdlist) /\ \A i \in 1 .. n : batch'[i].fd = rdlist[i]
                                /\ batch'[i].events = Reported(rdlist[i])
  BY <1>1, <1>3
<1>6. HandInv'
  <2>1. ASSUME NEW i \in 1 .. Len(batch'), batch'[i].fd \in Fd,
               batch'[i].events \cap {"IN", "RDHUP", "ERR"} = {"IN"}
        PROVE  balance'[batch'[i].fd] = 1
    <3> DEFINE fd == rdlist[i]
    <3>1. fd \in Fd /\ batch'[i].fd = fd /\ batch'[i].events = Telling(sock[fd])
      BY <1>1, <1>5, <2>1, TellingIs
    <3> HIDE DEF fd
    <3>2. Telling(sock[fd]) \cap {"IN", "RDHUP", "ERR"} = {"IN"}
      BY <2>1, <3>1
    <3>3. sock[fd].rx # <<>>
      <4> DEFINE s == sock[fd]
      <4>1. s \in Socket
        BY <1>3, <3>1
      <4> HIDE DEF s
      <4>2. SUFFICES ASSUME s.rx = <<>>, Telling(s) \cap {"IN", "RDHUP", "ERR"} = {"IN"}
                     PROVE  FALSE
        BY <3>2 DEF s
      <4>3. "IN" \in Telling(s) /\ "RDHUP" \notin Telling(s)
        BY <4>2
      <4>4. s.interest \in {"read", "write"}
        BY <4>1, <4>3 DEF Telling, Asked, Socket
      <4> QED BY <4>2, <4>3, <4>4 DEF Telling, Asked, AnyKind
    <3>4. balance[fd] = 1
      BY <1>3, <3>1, <3>3 DEF Linked, Agree
    <3> QED BY <1>2, <3>1, <3>4
  <2> QED BY <1>2, <2>1 DEF HandInv
<1> QED BY <1>2, <1>4, <1>6, QuietWork

-----------------------------------------------------------------------------
(* The invariant, and what it gives.                                       *)

LEMMA InitWork == ASSUME Init PROVE WorkInv
<1>1. Len(<<>>) = 0
  BY EmptySeq
<1>2. \A f \in Fd : Linked(f)
  BY DEF Init, Linked, Unused
<1>3. HandInv
  BY <1>1 DEF Init, HandInv
<1> QED BY <1>2, <1>3 DEF WorkInv

\* After the end no step changes anything.
LEMMA OverStays ==
  ASSUME SafeInv, Over, [Next]_vars
  PROVE  UNCHANGED vars
BY DEF Over, SafeInv, Next, Program, Environment, Interrupt, WaitFails, Running, StartConnection,
   EnterLoop, EpollDrop, EpollWait, OnTimer, Handler, OnRdhup, OnErr, OnIn, OnOut, Handling,
   Receive, RecvData, ResponseComplete, ResponsePartial, ReceiveFails, RecvDone,
   Transmit, SendData, SendAgain, SendFails

LEMMA SameWork == ASSUME FullInv, UNCHANGED vars PROVE WorkInv'
<1>1. CASE Running
  <2>1. HandInv
    BY <1>1 DEF FullInv, WorkInv
  <2>2. UNCHANGED <<pc, conn, sock, got, rdlist, batch, acc, timer, balance>>
    BY DEF vars
  <2>3. \A f : (Sending(f)' <=> Sending(f)) /\ (Complete(f)' <=> Complete(f))
    BY <2>2 DEF Sending, Complete, Current
  <2>4. HandInv'
    BY <2>1, <2>2 DEF HandInv, Current
  <2> QED BY <1>1, <2>2, <2>3, <2>4, QuietWork
<1>2. CASE ~Running
  BY <1>2 DEF WorkInv, Running, vars
<1> QED BY <1>1, <1>2

LEMMA StepWork == ASSUME Polite, FullInv, [Next]_vars PROVE WorkInv'
<1>1. CASE Program
  <2>1. CASE OnTimer
    BY <2>1, ExitWork DEF OnTimer, Exit
  <2> QED BY <1>1, <2>1, StartConnectionWork, EnterLoopWork, EpollDropWork, EpollWaitWork,
             HandlerWork, ReceiveWork, TransmitWork DEF Program
<1>2. CASE Environment
  BY <1>2, TimerExpiresWork, ServesWork DEF Environment
<1>3. CASE Interrupt \/ WaitFails
  BY <1>3, ExitWork DEF Interrupt, Exit, WaitFails
<1>4. CASE UNCHANGED vars
  BY <1>4, SameWork
<1> QED BY <1>1, <1>2, <1>3, <1>4 DEF Next

(* Connections, sockets and registrations agree at every step of the loop   *)
(* (ev.c:90-168, networking.c:29-172).                          *)
THEOREM Working == ASSUME Polite PROVE Spec => []FullInv
<1>1. Init => FullInv
  BY InitSafe, InitWork DEF FullInv
<1>2. FullInv /\ [Next]_vars => FullInv'
  BY StepSafe, StepWork DEF FullInv
<1> QED BY <1>1, <1>2, PTL DEF Spec

(* With such a peer nothing at all is forgotten: no part of a response is   *)
(* in a buffer while the request goes out (ev.c:120-165).                   *)
THEOREM NoneDropped == ASSUME Polite PROVE Spec => []NothingDropped
<1>1. FullInv /\ NoLostWakeup => NothingDropped
  <2>1. SUFFICES ASSUME FullInv, NoLostWakeup, Running, pc # "start",
                        NEW fd \in Fd \cup {timerfd}, Reported(fd) # {}
                 PROVE  Awaited(fd)
    BY DEF NothingDropped
  <2>2. ~Interrupted(fd)
    <3>1. SUFFICES ASSUME fd \in Fd, conn[fd].buf # "empty", sock[fd].interest = "write"
                   PROVE  FALSE
      BY DEF Interrupted
    <3>2. Agree(conn[fd], sock[fd], got[fd], balance[fd], Sending(fd), Complete(fd))
      BY <2>1, <3>1 DEF FullInv, WorkInv, SafeInv, TypeOK, Linked
    <3> QED BY <3>1, <3>2 DEF Agree
  <2> QED BY <2>1, <2>2 DEF NoLostWakeup, Due
<1> QED BY <1>1, NoneLost, Working, PTL

(* The registration of a connection is what it is doing (ev.c:129-164,      *)
(* networking.c:117-146).                                                   *)
THEOREM Work == ASSUME Polite PROVE Spec => []InterestMatchesWork
<1>1. FullInv => InterestMatchesWork
  <2>1. SUFFICES ASSUME FullInv, NEW fd \in Fd, Running, conn[fd] # NULL,
                        ~(InHand(fd) /\ pc = "send")
                 PROVE  /\ balance[fd] = IF sock[fd].interest = "read" THEN 1 ELSE 0
                        /\ conn[fd].sendoffset > 0 => sock[fd].interest = "write"
                        /\ conn[fd].connected <=> sock[fd].interest \in {"read", "write"}
                        /\ conn[fd].buf # "empty" => balance[fd] = 1
    BY DEF InterestMatchesWork
  <2>2. ~Sending(fd)
    BY <2>1 DEF Sending, InHand, Current
  <2> QED BY <2>1, <2>2 DEF FullInv, WorkInv, Linked, Agree
<1> QED BY <1>1, Working, PTL

LEMMA WorkConserves == ASSUME FullInv, Running PROVE BytesConserved
<1>1. SUFFICES ASSUME NEW fd \in Fd, conn[fd] # NULL
               PROVE  conn[fd].sendoffset + ReqLen * balance[fd]
                        = sock[fd].tx + got[fd] + (IF Answered(fd) THEN ReqLen ELSE 0)
  BY DEF BytesConserved
<1>2. Agree(conn[fd], sock[fd], got[fd], balance[fd], Sending(fd), Complete(fd))
  BY <1>1 DEF FullInv, WorkInv, Linked
<1>3. Answered(fd) <=> Contains(sock[fd].rx, "end") \/ Complete(fd)
  BY DEF Answered, Complete
<1>4. balance[fd] \in {0, 1} /\ ReqLen \in Nat
  BY <1>2, SizesAssumption DEF Agree
<1>5. ReqLen * balance[fd] = IF balance[fd] = 1 THEN ReqLen ELSE 0
  BY <1>4
<1> QED BY <1>2, <1>3, <1>5 DEF Agree

\* The run ends in a step of its own.
LEMMA EndStays ==
  ASSUME SafeInv, Running, [Next]_vars, Over'
  PROVE  UNCHANGED <<conn, sock, got, rdlist, batch, acc, timer, totals, balance, fresh>>
<1>1. pc' \notin {"wait", "dispatch", "recv", "send"} /\ pc' # pc
  BY DEF Over, Running
<1>2. ~NextEvent
  BY <1>1 DEF NextEvent
<1>3. \A fd : Recycle(fd) => Exit
  BY <1>2 DEF Recycle
<1>4. CASE Receive \/ Transmit
  <2>1. ~RecvData /\ ~ResponseComplete /\ ~ResponsePartial
    BY <1>1, <1>2 DEF RecvData, ResponseComplete, ResponsePartial
  <2>2. ~SendAgain /\ ~SendData
    BY <1>1, <1>2 DEF SendAgain, SendData
  <2>3. Exit
    BY <1>3, <1>4, <2>1, <2>2 DEF Receive, Transmit, ReceiveFails, SendFails
  <2> QED BY <2>3 DEF Exit
<1>5. ASSUME NEW fd \in Fd, Handler(fd) PROVE Exit
  BY <1>1, <1>3, <1>5 DEF Handler, OnRdhup, OnErr, OnIn, OnOut
<1>6. CASE StartConnection \/ EnterLoop \/ EpollDrop \/ EpollWait
  <2>1. Exit
    BY <1>1, <1>6 DEF StartConnection, EnterLoop, EpollDrop, EpollWait
  <2> QED BY <2>1 DEF Exit
<1>7. CASE Environment
  <2>1. pc' = pc
    BY <1>7, PeerFacts DEF Environment, TimerExpires
  <2> QED BY <1>1, <2>1
<1>8. CASE OnTimer \/ Interrupt \/ WaitFails
  BY <1>8 DEF OnTimer, Interrupt, WaitFails, Exit
<1>9. CASE UNCHANGED vars
  BY <1>1, <1>9 DEF vars
<1> QED BY <1>4, <1>5, <1>6, <1>7, <1>8, <1>9 DEF Next, Program, Exit

(* A request goes out once, whole and in order, and each response is of one *)
(* request (networking.c:56-146).                                           *)
THEOREM Conserved == ASSUME Polite PROVE Spec => []BytesConserved
<1>1. Init => BytesConserved
  BY DEF Init, BytesConserved
<1>2. FullInv /\ FullInv' /\ BytesConserved /\ [Next]_vars => BytesConserved'
  <2>1. SUFFICES ASSUME FullInv, FullInv', BytesConserved, [Next]_vars PROVE BytesConserved'
    OBVIOUS
  <2>2. CASE Running'
    <3>1. (FullInv /\ Running => BytesConserved)'
      BY WorkConserves, PTL
    <3> QED BY <2>1, <2>2, <3>1
  <2>3. CASE ~Running'
    <3>1. UNCHANGED <<conn, sock, got, batch, acc, balance>>
      <4>1. CASE Running
        BY <2>1, <2>3, <4>1, EndStays DEF FullInv, Over, Running
      <4>2. CASE ~Running
        BY <2>1, <4>2, OverStays DEF FullInv, Over, Running, vars
      <4> QED BY <4>1, <4>2
    <3> QED BY <2>1, <3>1 DEF BytesConserved, Answered, Current
  <2> QED BY <2>2, <2>3
<1> QED BY <1>1, <1>2, Working, PTL DEF Spec

(* With such a peer every response counted answers a request sent on its    *)
(* connection: what MCEventLoop_early.cfg refutes for a peer that answers   *)
(* early is true of one that does not (networking.c:185-190).               *)
THEOREM Intervals == ASSUME Polite PROVE Spec => []IntervalsAreOfRequests
<1>1. Init => IntervalsAreOfRequests
  BY DEF Init, IntervalsAreOfRequests
<1>2. FullInv /\ Running => IntervalsAreOfRequests
  BY DEF FullInv, WorkInv, Linked, Unused, Agree, IntervalsAreOfRequests
<1>3. FullInv /\ FullInv' /\ IntervalsAreOfRequests /\ [Next]_vars => IntervalsAreOfRequests'
  <2>1. SUFFICES ASSUME FullInv, FullInv', IntervalsAreOfRequests, [Next]_vars
                 PROVE  IntervalsAreOfRequests'
    OBVIOUS
  <2>2. CASE Running'
    <3>1. (FullInv /\ Running => IntervalsAreOfRequests)'
      BY <1>2, PTL
    <3> QED BY <2>1, <2>2, <3>1
  <2>3. CASE ~Running'
    <3>1. balance' = balance
      <4>1. CASE Running
        BY <2>1, <2>3, <4>1, EndStays DEF FullInv, Over, Running
      <4>2. CASE ~Running
        BY <2>1, <4>2, OverStays DEF FullInv, Over, Running, vars
      <4> QED BY <4>1, <4>2
    <3> QED BY <2>1, <3>1 DEF IntervalsAreOfRequests
  <2> QED BY <2>2, <2>3
<1> QED BY <1>1, <1>3, Working, PTL DEF Spec

-----------------------------------------------------------------------------
(* The closed-loop load generator.                                         *)

LEMMA PhaseIs ==
  ASSUME NEW f \in Fd
  PROVE  /\ Phase[f] = IF balance[f] # 1 THEN "idle"
                       ELSE IF Contains(sock[f].rx, "end") \/ Complete(f) THEN "answered"
                       ELSE "waiting"
         /\ Phase'[f] = IF balance'[f] # 1 THEN "idle"
                        ELSE IF Contains(sock'[f].rx, "end") \/ Complete(f)' THEN "answered"
                        ELSE "waiting"
<1>1. Answered(f) <=> Contains(sock[f].rx, "end") \/ Complete(f)
  BY DEF Answered, Complete
<1>2. Answered(f)' <=> Contains(sock'[f].rx, "end") \/ Complete(f)'
  BY DEF Answered, Complete
<1> QED BY <1>1, <1>2 DEF Phase

LEMMA PhaseStays ==
  ASSUME NEW f \in Fd, balance'[f] = balance[f], sock'[f].rx = sock[f].rx,
         Complete(f)' <=> Complete(f)
  PROVE  Phase'[f] = Phase[f]
BY PhaseIs

LEMMA Stutters ==
  ASSUME Running, Running', \A f \in Fd : Phase'[f] = Phase[f], UNCHANGED totals
  PROVE  [Load!LoadNext]_(Load!loadVars)
<1>1. Phase' = Phase
  BY DEF Phase
<1>2. Over' = Over
  BY DEF Over, Running
<1> QED BY <1>1, <1>2 DEF Load!loadVars, totals

LEMMA Moves ==
  ASSUME Running, Running', NEW fd \in Fd, NEW to, Phase'[fd] = to,
         \A f \in Fd \ {fd} : Phase'[f] = Phase[f]
  PROVE  Load!Becomes(fd, Phase[fd], to)
<1>1. Phase' = [Phase EXCEPT ![fd] = to]
  BY DEF Phase
<1>2. ~Over /\ Over' = Over
  BY DEF Over, Running
<1> QED BY <1>1, <1>2 DEF Load!Becomes

LEMMA EndRefines ==
  ASSUME SafeInv, Running, [Next]_vars, Over'
  PROVE  [Load!LoadNext]_(Load!loadVars)
<1>1. UNCHANGED <<sock, batch, acc, totals, balance>>
  BY EndStays
<1>2. Phase' = Phase
  BY <1>1 DEF Phase, Answered, Current
<1>3. ~Over
  BY DEF Over, Running
<1>4. Over' = TRUE
  BY DEF Over
<1>5. Load!End
  BY <1>1, <1>2, <1>3, <1>4 DEF Load!End, totals
<1> QED BY <1>5 DEF Load!LoadNext

(* The other connections do not move.                                       *)
LEMMA OthersStay ==
  ASSUME FullInv, NEW fd \in Fd, NEW f \in Fd \ {fd},
         balance'[f] = balance[f], sock'[f] = sock[f],
         (batch' = batch /\ acc' = acc) \/ (fd = Current /\ (batch' = batch \/ acc' = "empty"))
  PROVE  Phase'[f] = Phase[f]
<1>1. Complete(f)' <=> Complete(f)
  BY DEF Complete, Current
<1> QED BY <1>1, PhaseStays

LEMMA RecycleRefines ==
  ASSUME FullInv, Running, Running', NEW fd \in Fd, fd = Current, Recycle(fd)
  PROVE  [Load!LoadNext]_(Load!loadVars)
<1>1. /\ OpenConnection(fd) /\ NextEvent /\ UNCHANGED totals
  BY DEF Recycle, Exit, Running
<1>2. /\ balance'[fd] = 0
      /\ \A f \in Fd \ {fd} : sock'[f] = sock[f] /\ balance'[f] = balance[f]
  BY <1>1, OpenTypes DEF FullInv, SafeInv
<1>3. \A f \in Fd \ {fd} : Phase'[f] = Phase[f]
  BY <1>1, <1>2, OthersStay DEF NextEvent
<1>4. Phase'[fd] = "idle" /\ Phase[fd] \in {"idle", "waiting", "answered"}
  BY <1>2, PhaseIs
<1>5. CASE Phase[fd] = "idle"
  BY <1>1, <1>3, <1>4, <1>5, Stutters
<1>6. CASE Phase[fd] \in {"waiting", "answered"}
  <2>1. Load!Becomes(fd, Phase[fd], "idle")
    BY <1>3, <1>4, Moves
  <2>2. Load!Replace(fd)
    BY <1>1, <1>6, <2>1 DEF Load!Replace, totals
  <2> QED BY <2>2 DEF Load!LoadNext
<1> QED BY <1>4, <1>5, <1>6

LEMMA ReceiveRefines ==
  ASSUME FullInv, Running', Receive
  PROVE  [Load!LoadNext]_(Load!loadVars)
<1>1. PICK fd : fd = Current
  OBVIOUS
<1>2. pc = "recv"
  BY DEF Receive, RecvData, ResponseComplete, ResponsePartial, ReceiveFails, RecvDone
<1>3. /\ Running /\ Busy /\ fd \in Fd /\ batch # <<>> /\ batch \in Seq(Event)
      /\ sock[fd] \in Socket /\ balance[fd] = 1 /\ acc \in {"empty", "partial", "complete"}
      /\ Agree(conn[fd], sock[fd], got[fd], balance[fd], FALSE, acc = "complete")
  BY <1>1, <1>2, RecvFacts
<1>4. sock \in [Fd -> Socket] /\ balance \in [Fd -> Int]
  BY DEF FullInv, SafeInv, TypeOK
<1>5. Complete(fd) <=> acc = "complete"
  BY <1>1, <1>3 DEF Complete
<1>6. CASE RecvData
  <2> DEFINE s == sock[fd]
             t == [s EXCEPT !.rx = Tail(s.rx)]
  <2>1. /\ acc' = Parse(acc, Head(s.rx)) /\ s.rx # <<>>
        /\ UNCHANGED <<batch, totals, balance>>
    BY <1>1, <1>6 DEF RecvData
  <2>2. sock' = [sock EXCEPT ![fd] = t]
    BY <1>1, <1>6, RecvDataFacts DEF FullInv
  <2>3. sock'[fd].rx = Tail(s.rx) /\ \A f \in Fd \ {fd} : sock'[f] = sock[f]
    BY <1>3, <1>4, <2>2 DEF Socket
  <2>4. Contains(sock'[fd].rx, "end") \/ acc' = "complete"
          <=> Contains(s.rx, "end") \/ acc = "complete"
    <3>1. /\ s \in Socket /\ s.rx # <<>> /\ acc \in {"empty", "partial", "complete"}
          /\ Agree(conn[fd], s, got[fd], balance[fd], FALSE, acc = "complete")
      BY <1>3, <2>1
    <3> HIDE DEF s, t
    <3>2. Contains(Tail(s.rx), "end") \/ Parse(acc, Head(s.rx)) = "complete"
            <=> Contains(s.rx, "end") \/ acc = "complete"
      BY <3>1, AgreeRecv
    <3> QED BY <2>1, <2>3, <3>2
  <2>5. Complete(fd)' <=> acc' = "complete"
    BY <1>1, <1>3, <2>1 DEF Complete, Current
  <2>6. Phase'[fd] = Phase[fd]
    BY <1>3, <1>5, <2>1, <2>4, <2>5, PhaseIs
  <2>7. \A f \in Fd \ {fd} : Phase'[f] = Phase[f]
    BY <1>1, <1>3, <2>1, <2>3, OthersStay
  <2> QED BY <1>3, <2>1, <2>6, <2>7, Stutters
<1>7. CASE ResponseComplete
  <2>1. /\ acc = "complete" /\ NextEvent /\ ModifyEvent(fd, "write")
        /\ balance' = [balance EXCEPT ![fd] = @ - 1]
        /\ total_responses' = (total_responses + 1) % Wrap /\ total_requests' = total_requests
    BY <1>1, <1>7 DEF ResponseComplete
  <2>2. /\ balance'[fd] = 0
        /\ \A f \in Fd \ {fd} : sock'[f] = sock[f] /\ balance'[f] = balance[f]
    BY <1>3, <1>4, <2>1 DEF ModifyEvent
  <2>3. \A f \in Fd \ {fd} : Phase'[f] = Phase[f]
    BY <1>1, <1>3, <2>1, <2>2, OthersStay DEF NextEvent
  <2>4. Phase[fd] = "answered" /\ Phase'[fd] = "idle"
    BY <1>3, <1>5, <2>1, <2>2, PhaseIs
  <2>5. Load!Becomes(fd, "answered", "idle")
    BY <1>3, <2>3, <2>4, Moves
  <2>6. Load!Count(fd)
    BY <2>1, <2>5 DEF Load!Count
  <2> QED BY <1>3, <2>6 DEF Load!LoadNext
<1>8. CASE ResponsePartial
  <2>1. /\ acc \in {"partial", "bad"} /\ NextEvent /\ UNCHANGED <<sock, totals, balance>>
    BY <1>8 DEF ResponsePartial
  <2>2. \A f \in Fd \ {fd} : Phase'[f] = Phase[f]
    BY <1>1, <1>3, <2>1, OthersStay DEF NextEvent
  <2>3. ~Complete(fd) /\ ~Complete(fd)'
    BY <1>5, <2>1 DEF NextEvent, Complete
  <2>4. Phase'[fd] = Phase[fd]
    BY <1>3, <2>1, <2>3, PhaseStays
  <2> QED BY <1>3, <2>1, <2>2, <2>4, Stutters
<1>9. CASE ReceiveFails
  <2>1. Recycle(fd)
    BY <1>1, <1>9 DEF ReceiveFails
  <2> QED BY <1>1, <1>3, <2>1, RecycleRefines
<1> QED BY <1>6, <1>7, <1>8, <1>9 DEF Receive

LEMMA TransmitRefines ==
  ASSUME FullInv, Running', Transmit
  PROVE  [Load!LoadNext]_(Load!loadVars)
<1>1. PICK fd : fd = Current
  OBVIOUS
<1>2. pc = "send"
  BY DEF Transmit, SendData, SendAgain, SendFails
<1>3. /\ Running /\ Busy /\ fd \in Fd /\ sock[fd] \in Socket /\ acc = "empty"
      /\ sock[fd].interest \in {"connect", "write"}
      /\ Agree(conn[fd], sock[fd], got[fd], balance[fd], TRUE, FALSE)
  BY <1>1, <1>2, SendFacts
<1>4. sock \in [Fd -> Socket] /\ balance \in [Fd -> Int]
  BY DEF FullInv, SafeInv, TypeOK
<1>5. balance[fd] = 0 /\ Phase[fd] = "idle"
  <2>1. balance[fd] = 0
    BY <1>3 DEF Agree
  <2> QED BY <1>3, <2>1, PhaseIs
<1>6. CASE SendData
  <2>1. total_responses' = total_responses
    BY <1>6 DEF SendData
  <2>2. PICK n \in Nat :
          \/ /\ sock' = [sock EXCEPT ![fd] = [sock[fd] EXCEPT !.tx = sock[fd].tx + n]]
             /\ UNCHANGED <<pc, rdlist, batch, acc, total_requests, balance>>
          \/ /\ sock' = [sock EXCEPT ![fd] = [sock[fd] EXCEPT !.tx = sock[fd].tx + n, !.interest = "read"]]
             /\ total_requests' = (total_requests + 1) % Wrap
             /\ balance' = [balance EXCEPT ![fd] = balance[fd] + 1]
             /\ NextEvent
    BY <1>1, <1>6, SendDataFacts DEF FullInv
  <2>3. CASE UNCHANGED <<pc, rdlist, batch, acc, total_requests, balance>>
    <3>1. \A f \in Fd \ {fd} : sock'[f] = sock[f]
      BY <1>4, <2>2
    <3>2. \A f \in Fd \ {fd} : Phase'[f] = Phase[f]
      BY <1>3, <2>3, <3>1, OthersStay
    <3>3. Phase'[fd] = "idle"
      BY <1>3, <1>5, <2>3, PhaseIs
    <3> QED BY <1>3, <1>5, <2>1, <2>3, <3>2, <3>3, Stutters DEF totals
  <2>4. CASE /\ sock' = [sock EXCEPT ![fd] = [sock[fd] EXCEPT !.tx = sock[fd].tx + n, !.interest = "read"]]
             /\ total_requests' = (total_requests + 1) % Wrap
             /\ balance' = [balance EXCEPT ![fd] = balance[fd] + 1]
             /\ NextEvent
    <3>1. /\ balance'[fd] = 1
          /\ \A f \in Fd \ {fd} : sock'[f] = sock[f] /\ balance'[f] = balance[f]
      BY <1>3, <1>4, <1>5, <2>4
    <3>2. \A f \in Fd \ {fd} : Phase'[f] = Phase[f]
      BY <1>1, <1>3, <2>4, <3>1, OthersStay DEF NextEvent
    <3>3. ~Contains(sock'[fd].rx, "end")
      <4>1. sock'[fd].rx = sock[fd].rx
        BY <1>3, <1>4, <2>4 DEF Socket
      <4>2. sock[fd].rx = <<>>
        BY <1>3, <1>5 DEF Agree
      <4> QED BY <4>1, <4>2, EmptySeq DEF Contains
    <3>4. ~Complete(fd)'
      BY <2>4 DEF NextEvent, Complete
    <3>5. Phase'[fd] = "waiting"
      BY <1>3, <3>1, <3>3, <3>4, PhaseIs
    <3>6. Load!Becomes(fd, "idle", "waiting")
      BY <1>3, <1>5, <3>2, <3>5, Moves
    <3>7. Load!Request(fd)
      BY <2>1, <2>4, <3>6 DEF Load!Request
    <3> QED BY <1>3, <3>7 DEF Load!LoadNext
  <2> QED BY <2>2, <2>3, <2>4
<1>7. CASE SendAgain
  <2>1. /\ ModifyEvent(fd, "write") /\ NextEvent /\ UNCHANGED <<totals, balance>>
    BY <1>1, <1>7 DEF SendAgain
  <2>2. \A f \in Fd \ {fd} : sock'[f] = sock[f]
    BY <1>3, <2>1 DEF ModifyEvent
  <2>3. \A f \in Fd \ {fd} : Phase'[f] = Phase[f]
    BY <1>1, <1>3, <2>1, <2>2, OthersStay DEF NextEvent
  <2>4. Phase'[fd] = "idle"
    BY <1>3, <1>5, <2>1, PhaseIs
  <2> QED BY <1>3, <1>5, <2>1, <2>3, <2>4, Stutters
<1>8. CASE SendFails
  <2>1. Recycle(fd)
    BY <1>1, <1>8 DEF SendFails
  <2> QED BY <1>1, <1>3, <2>1, RecycleRefines
<1> QED BY <1>6, <1>7, <1>8 DEF Transmit

LEMMA HandlerRefines ==
  ASSUME FullInv, Running', NEW fd \in Fd, Handler(fd)
  PROVE  [Load!LoadNext]_(Load!loadVars)
<1>0. Handling(fd)
  BY DEF Handler, OnRdhup, OnErr, OnIn, OnOut
<1>1. Running /\ Busy /\ Current = fd /\ pc = "dispatch" /\ acc = "empty"
      /\ conn[fd] # NULL /\ Linked(fd)
  <2>1. Running /\ Busy /\ Current = fd /\ pc = "dispatch"
    BY <1>0, HandlingFacts DEF FullInv, SafeInv
  <2> QED BY <2>1 DEF FullInv, WorkInv, SafeInv, TypeOK, QueueInv
<1>2. CASE Recycle(fd)
  BY <1>1, <1>2, RecycleRefines
<1>3. CASE /\ pc' = "recv" /\ acc' = conn[fd].buf
           /\ UNCHANGED <<conn, sock, got, rdlist, batch, timer, totals, balance, fresh>>
  <2>1. acc' # "complete"
    BY <1>1, <1>3 DEF Linked, Agree
  <2>2. \A f \in Fd : Complete(f)' <=> Complete(f)
    BY <1>1, <1>3, <2>1 DEF Complete
  <2>3. \A f \in Fd : Phase'[f] = Phase[f]
    BY <1>3, <2>2, PhaseStays
  <2> QED BY <1>1, <1>3, <2>3, Stutters
<1>4. CASE /\ pc' = "send"
           /\ UNCHANGED <<sock, got, rdlist, batch, acc, timer, totals, balance, fresh>>
  <2>1. \A f \in Fd : Complete(f)' <=> Complete(f)
    BY <1>4 DEF Complete, Current
  <2>2. \A f \in Fd : Phase'[f] = Phase[f]
    BY <1>4, <2>1, PhaseStays
  <2> QED BY <1>1, <1>4, <2>2, Stutters
<1>5. ~Exit
  BY DEF Exit, Running
<1> QED BY <1>2, <1>3, <1>4, <1>5 DEF Handler, OnRdhup, OnErr, OnIn, OnOut

LEMMA PeerRefines ==
  ASSUME Polite, FullInv, Running, Running', NEW fd \in Fd, Serving(fd) \/ Trouble(fd)
  PROVE  [Load!LoadNext]_(Load!loadVars)
<1>1. /\ UNCHANGED <<pc, conn, batch, acc, timer, totals, balance, fresh>>
      /\ \A f \in Fd \ {fd} : sock'[f] = sock[f]
  BY PeerFacts DEF FullInv
<1>2. \A f \in Fd : Complete(f)' <=> Complete(f)
  BY <1>1 DEF Complete, Current
<1>3. \A f \in Fd \ {fd} : Phase'[f] = Phase[f]
  BY <1>1, <1>2, PhaseStays
<1> DEFINE s == sock[fd]
           c == conn[fd]
<1>4. sock \in [Fd -> Socket] /\ s \in Socket /\ got[fd] \in 0 .. ReqLen
  BY DEF FullInv, SafeInv, TypeOK
<1>5. CASE Contains(sock'[fd].rx, "end") <=> Contains(s.rx, "end")
  <2>1. Phase'[fd] = Phase[fd]
    BY <1>1, <1>2, <1>5, PhaseIs
  <2> QED BY <1>1, <1>3, <2>1, Stutters
<1>6. CASE sock'[fd].rx = s.rx
  BY <1>5, <1>6
<1>7. CASE PeerSends(fd) \/ PeerEnds(fd) \/ PeerSendsJunk(fd)
  <2>1. PICK piece \in {"part", "end"} : Arrive(fd, piece) /\ got[fd] = ReqLen
    <3>1. "early" \notin Env /\ "junk" \notin Env
      BY DEF Polite
    <3> QED BY <1>7, <3>1 DEF PeerSends, PeerEnds, PeerSendsJunk
  <2>2. s.state = "open" /\ sock' = [sock EXCEPT ![fd] = [s EXCEPT !.rx = Append(s.rx, piece)]]
    BY <1>4, <2>1 DEF Arrive
  <2>3. c \in Connection /\ Agree(c, s, got[fd], balance[fd], Sending(fd), Complete(fd))
    BY <2>2 DEF FullInv, WorkInv, SafeInv, TypeOK, Linked, Unused, NoSocket
  <2>4. balance[fd] = 1 /\ ~(Contains(s.rx, "end") \/ Complete(fd))
    BY <1>4, <2>1, <2>3, AgreeOwes
  <2>5. sock'[fd].rx = Append(s.rx, piece)
    BY <1>4, <2>2 DEF Socket
  <2>6. Contains(sock'[fd].rx, "end") <=> piece = "end"
    <3>1. s.rx \in Seq(Piece) /\ piece \in Piece
      BY <1>4 DEF Socket, Piece
    <3>2. /\ Len(Append(s.rx, piece)) = Len(s.rx) + 1 /\ Len(s.rx) \in Nat
          /\ \A i \in 1 .. Len(s.rx) : Append(s.rx, piece)[i] = s.rx[i]
          /\ Append(s.rx, piece)[Len(s.rx) + 1] = piece
      BY <3>1, AppendProperties, LenProperties
    <3> QED BY <2>4, <2>5, <3>2 DEF Contains
  <2>7. CASE piece = "part"
    BY <1>5, <2>4, <2>6, <2>7
  <2>8. CASE piece = "end"
    <3>1. Phase[fd] = "waiting" /\ Phase'[fd] = "answered"
      BY <1>1, <2>4, <2>6, <2>8, PhaseIs
    <3>2. Load!Becomes(fd, "waiting", "answered")
      BY <1>3, <3>1, Moves
    <3>3. Load!Response(fd)
      BY <1>1, <3>2 DEF Load!Response, totals
    <3> QED BY <3>3 DEF Load!LoadNext
  <2> QED BY <2>7, <2>8
<1>8. CASE PeerAccepts(fd) \/ PeerRefuses(fd) \/ ConnectFails(fd)
  BY <1>4, <1>6, <1>8 DEF PeerAccepts, PeerRefuses, ConnectFails, Settle, Socket
<1>9. CASE PeerReads(fd) \/ PeerCloses(fd) \/ PeerResets(fd)
  BY <1>4, <1>6, <1>9 DEF PeerReads, PeerCloses, PeerResets, Socket
<1> QED BY <1>7, <1>8, <1>9 DEF Serving, Trouble

LEMMA StepRefines ==
  ASSUME Polite, FullInv, [Next]_vars
  PROVE  [Load!LoadNext]_(Load!loadVars)
<1>1. CASE ~Running
  <2>1. UNCHANGED vars
    BY <1>1, OverStays DEF FullInv, Over, Running
  <2>2. Phase' = Phase /\ Over' = Over /\ UNCHANGED totals
    BY <2>1 DEF vars, Phase, Answered, Current, Over
  <2> QED BY <2>2 DEF Load!loadVars, totals
<1>2. CASE Running /\ ~Running'
  BY <1>2, EndRefines DEF FullInv, Over, Running
<1>3. CASE Running /\ Running'
  <2>1. CASE /\ UNCHANGED <<sock, acc, totals, balance>>
             /\ batch' = batch \/ acc = "empty"
    <3>1. \A f \in Fd : Complete(f)' <=> Complete(f)
      BY <2>1 DEF Complete, Current
    <3>2. \A f \in Fd : Phase'[f] = Phase[f]
      BY <2>1, <3>1, PhaseStays
    <3> QED BY <1>3, <2>1, <3>2, Stutters
  <2>2. CASE StartConnection
    <3>1. PICK fd \in Fd :
            OpenConnection(fd) /\ UNCHANGED <<pc, rdlist, batch, acc, timer, totals, fresh>>
            /\ conn[fd] = NULL
      BY <1>3, <2>2 DEF StartConnection, Exit, Running
    <3>2. /\ sock'[fd] \in ConnectOutcomes /\ balance'[fd] = 0
          /\ \A f \in Fd \ {fd} : sock'[f] = sock[f] /\ balance'[f] = balance[f]
      BY <3>1, OpenTypes DEF FullInv, SafeInv
    <3>3. balance[fd] = 0
      BY <1>3, <3>1 DEF FullInv, WorkInv, Linked, Unused
    <3>4. \A f \in Fd : Complete(f)' <=> Complete(f)
      BY <3>1 DEF Complete, Current
    <3>5. \A f \in Fd : Phase'[f] = Phase[f]
      BY <3>2, <3>3, <3>4, PhaseIs
    <3> QED BY <1>3, <3>1, <3>5, Stutters
  <2>3. CASE EnterLoop \/ EpollDrop \/ TimerExpires \/ UNCHANGED vars
    BY <2>1, <2>3 DEF EnterLoop, EpollDrop, TimerExpires, vars
  <2>4. CASE EpollWait
    <3>1. acc = "empty"
      BY <1>3, <2>4 DEF EpollWait, FullInv, SafeInv, QueueInv
    <3> QED BY <2>1, <2>4, <3>1 DEF EpollWait
  <2>5. ~OnTimer /\ ~Interrupt /\ ~WaitFails
    BY <1>3 DEF OnTimer, Interrupt, WaitFails, Exit, Running
  <2> QED BY <1>3, <2>2, <2>3, <2>4, <2>5, HandlerRefines, ReceiveRefines, TransmitRefines,
             PeerRefines DEF Next, Program, Environment
<1> QED BY <1>1, <1>2, <1>3

(* The loop is the closed-loop load generator of LoadGen: one request out   *)
(* at most on a connection, each counted once when it is whole, and each    *)
(* response counted once, when it is complete, for the request before it.   *)
THEOREM Implements == ASSUME Polite PROVE Spec => ImplementsLoadGen
<1>1. Init => Load!LoadInit
  BY DEF Init, Load!LoadInit, Phase, Over
<1>2. FullInv /\ [Next]_vars => [Load!LoadNext]_(Load!loadVars)
  BY StepRefines
<1> QED BY <1>1, <1>2, Working, PTL DEF Spec, ImplementsLoadGen, Load!LoadSpec
===============================================================================
