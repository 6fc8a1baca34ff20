------------------------------ MODULE EventLoop ------------------------------
(***************************************************************************)
(* The load generator at work: start_connection opens the connections and  *)
(* ev_run_loop (ev.c) drives them with the handlers of networking.c, over  *)
(* the edge-triggered epoll(7), the sockets and a peer.  The program is a  *)
(* single thread; the kernel and the peer may act between any two of its   *)
(* system calls.  A connection is closed loop: send one request, wait for  *)
(* its response, send the next.                                            *)
(*                                                                         *)
(* A request is ReqLen bytes.  A response is any number of "part" pieces   *)
(* and one "end" piece; a "junk" piece is no HTTP.                         *)
(***************************************************************************)
EXTENDS Integers, FiniteSets, SequencesExt

CONSTANTS Connections,  \* -c: number of concurrent connections
          ReqLen,       \* myreq.total_length, in bytes
          SndBuf,       \* bytes that fit in a socket's send buffer
          RxMax,        \* bound: pieces of response waiting in a socket
          MaxEvents,    \* MAX_EVENT_NO, events one epoll_wait returns
          Wrap,         \* the counters count modulo Wrap (2^64 in the code)
          MaxEarly,     \* bound: responses a connection ends before their request
          Option,       \* how a duration was asked for: "none", "t" or "m"
          NULL,         \* the null pointer, hash_conn_get of an unknown descriptor
          Env           \* what kernel, peer and user may do besides serving

\* What the program keeps of a connection (conn_t).
Connection == [connected : BOOLEAN, sendoffset : 0 .. ReqLen,
               buf : {"empty", "partial", "bad"}]

ASSUME SizesAssumption ==
  /\ Connections \in Nat \ {0} /\ ReqLen \in Nat \ {0}
  /\ SndBuf \in Nat \ {0} /\ RxMax \in Nat \ {0} /\ MaxEvents \in Nat \ {0}
  /\ Wrap \in Nat \ {0} /\ MaxEarly \in Nat
ASSUME NullAssumption == NULL \notin Connection
ASSUME OptionAssumption == Option \in {"none", "t", "m"}
ASSUME EnvAssumption ==
  Env \subseteq {"fin", "rst", "refuse", "unreachable", "instant", "connfail",
                 "nosocket", "early", "endless", "junk", "sigint", "waitfail"}

(* socket(2) returns the lowest free number, so the numbers stay the same: *)
(* a closed socket is replaced at once.                                    *)
Fd == 1 .. Connections
timerfd == 0

VARIABLES pc,       \* where the thread is
          conn,     \* the connection table: conn_t of each descriptor
          sock,     \* the kernel's socket behind each descriptor
          got,      \* bytes of the current request the peer has read
          rdlist,   \* epoll's ready list
          batch,    \* events[i..number-1], the events still to handle
          acc,      \* what the bytes received so far parse to (recieve_response)
          timer,    \* "none", "armed" or "expired"
          total_requests, total_responses,  \* of net_record
          balance,  \* their difference on each present connection
          fresh     \* descriptors reopened since epoll_wait returned

totals == <<total_requests, total_responses>>
vars == <<pc, conn, sock, got, rdlist, batch, acc, timer, totals, balance, fresh>>

Piece == {"part", "end", "junk"}
Socket == [state : {"none", "connecting", "refused", "failed", "open", "reset"},
           rx : Seq(Piece), fin : BOOLEAN, tx : 0 .. SndBuf,
           interest : {"none", "connect", "read", "write"}]
Event == [fd : Fd \cup {timerfd}, events : SUBSET {"IN", "OUT", "RDHUP", "ERR"}]

-----------------------------------------------------------------------------
(* Kernel: sockets and epoll.                                              *)

NoSocket == [state |-> "none", rx |-> <<>>, fin |-> FALSE, tx |-> 0, interest |-> "none"]

\* The events a descriptor would report, whatever was asked for.
Poll(fd) ==
  IF fd = timerfd THEN IF timer = "expired" THEN {"IN"} ELSE {}
  ELSE CASE sock[fd].state = "open" ->
              (IF sock[fd].rx # <<>> \/ sock[fd].fin THEN {"IN"} ELSE {})
              \cup (IF sock[fd].tx < SndBuf THEN {"OUT"} ELSE {})
              \cup (IF sock[fd].fin THEN {"RDHUP"} ELSE {})
         [] sock[fd].state \in {"refused", "failed", "reset"} -> {"IN", "OUT", "RDHUP", "ERR"}
         [] OTHER -> {}

\* What each registration asks for; EPOLLERR is always reported.
Asked(interest) ==
  CASE interest = "none" -> {}
    [] interest = "connect" -> {"OUT", "ERR"}
    [] interest = "read" -> {"IN", "RDHUP", "ERR"}
    [] interest = "write" -> {"IN", "OUT", "RDHUP", "ERR"}

Reported(fd) ==
  Poll(fd) \cap IF fd = timerfd THEN {"IN"} ELSE Asked(sock[fd].interest)

Queued(list, fd) == IF Contains(list, fd) THEN list ELSE Append(list, fd)
Unqueued(list, fd) ==
  IF Contains(list, fd) THEN RemoveAt(list, CHOOSE i \in DOMAIN list : list[i] = fd) ELSE list

\* Edge: an event of these kinds puts a registered descriptor on the list.
Wake(fd, kinds) ==
  rdlist' = IF Asked(sock[fd].interest) \cap kinds # {} THEN Queued(rdlist, fd) ELSE rdlist
AnyKind == {"IN", "OUT", "RDHUP", "ERR"}

Smaller(m, n) == IF m < n THEN m ELSE n

\* ev_modify_event: EPOLL_CTL_MOD looks at the descriptor once more.
ModifyEvent(fd, type) ==
  /\ sock' = [sock EXCEPT ![fd].interest = type]
  /\ rdlist' = IF Poll(fd) \cap Asked(type) # {} THEN Queued(rdlist, fd) ELSE rdlist

-----------------------------------------------------------------------------
(* Program: connections.                                                   *)

FreshConn == [connected |-> FALSE, sendoffset |-> 0, buf |-> "empty"]

\* sk_async_ipv4_connect on a new socket: only a connect(2) in progress is
\* registered with epoll; success at once and failure are not.
ConnectOutcomes ==
  {[NoSocket EXCEPT !.state = "connecting", !.interest = "connect"]}
  \cup (IF "instant" \in Env THEN {[NoSocket EXCEPT !.state = "open"]} ELSE {})
  \cup (IF "connfail" \in Env THEN {[NoSocket EXCEPT !.state = "failed"]} ELSE {})

\* socket, hash_conn_add, connect.
OpenConnection(fd) ==
  /\ conn' = [conn EXCEPT ![fd] = FreshConn]
  /\ \E s \in ConnectOutcomes : sock' = [sock EXCEPT ![fd] = s]
  /\ got' = [got EXCEPT ![fd] = 0]
  /\ balance' = [balance EXCEPT ![fd] = 0]

\* The handler is done: the next event of the batch, or epoll_wait again.
NextEvent ==
  /\ batch' = Tail(batch)
  /\ pc' = IF Len(batch) = 1 THEN "wait" ELSE "dispatch"
  /\ acc' = "empty"

Exit == pc' = "exit" /\ UNCHANGED <<conn, sock, got, rdlist, batch, acc, timer, totals, balance, fresh>>

\* Mutants: the connection is not reopened; the old conn_t stays in use.
Recycle_closes(fd) ==
  /\ conn' = [conn EXCEPT ![fd] = NULL]
  /\ sock' = [sock EXCEPT ![fd] = NoSocket]
  /\ rdlist' = Unqueued(rdlist, fd)
  /\ NextEvent
  /\ UNCHANGED <<got, timer, totals, balance, fresh>>
Recycle_keeps(fd) ==
  /\ \E s \in ConnectOutcomes : sock' = [sock EXCEPT ![fd] = s]
  /\ got' = [got EXCEPT ![fd] = 0]
  /\ balance' = [balance EXCEPT ![fd] = 0]
  /\ rdlist' = Unqueued(rdlist, fd)
  /\ fresh' = fresh \cup {fd}
  /\ NextEvent
  /\ UNCHANGED <<conn, timer, totals>>

\* close_connection, then reconnect, which exits when socket(2) fails.
Recycle(fd) ==
  \/ /\ OpenConnection(fd)
     /\ rdlist' = Unqueued(rdlist, fd)
     /\ fresh' = fresh \cup {fd}
     /\ NextEvent
     /\ UNCHANGED <<timer, totals>>
  \/ "nosocket" \in Env /\ Exit

Init ==
  /\ pc = "start"
  /\ conn = [fd \in Fd |-> NULL]
  /\ sock = [fd \in Fd |-> NoSocket]
  /\ got = [fd \in Fd |-> 0]
  /\ rdlist = <<>>
  /\ batch = <<>>
  /\ acc = "empty"
  /\ timer = "none"
  /\ total_requests = 0
  /\ total_responses = 0
  /\ balance = [fd \in Fd |-> 0]
  /\ fresh = {}

(* One turn of the loop of start_connection; socket(2) may fail.           *)
StartConnection ==
  /\ pc = "start"
  /\ \E fd \in Fd :
       /\ conn[fd] = NULL
       /\ \A lower \in 1 .. fd - 1 : conn[lower] # NULL
       /\ \/ OpenConnection(fd) /\ UNCHANGED <<pc, rdlist, batch, acc, timer, totals, fresh>>
          \/ "nosocket" \in Env /\ Exit

\* Mutant: the timer of -t is not armed.
EnterLoop_forgets ==
  /\ pc = "start"
  /\ \A fd \in Fd : conn[fd] # NULL
  /\ pc' = "wait"
  /\ UNCHANGED <<conn, sock, got, rdlist, batch, acc, timer, totals, balance, fresh>>

(* ev_run_loop is entered: the timer is armed if -t created one.           *)
EnterLoop ==
  /\ pc = "start"
  /\ \A fd \in Fd : conn[fd] # NULL
  /\ pc' = "wait"
  /\ timer' = IF Option = "t" THEN "armed" ELSE "none"
  /\ UNCHANGED <<conn, sock, got, rdlist, batch, acc, totals, balance, fresh>>

\* Mutant: an event per kind and descriptor, as kevent(2) has it.
EpollWait_splits ==
  /\ pc = "wait"
  /\ rdlist # <<>> /\ \A i \in DOMAIN rdlist : Reported(rdlist[i]) # {}
  /\ batch' = FlattenSeq([i \in DOMAIN rdlist |->
                 SetToSeq({[fd |-> rdlist[i], events |-> {e}] : e \in Reported(rdlist[i])})])
  /\ rdlist' = <<>>
  /\ pc' = "dispatch"
  /\ fresh' = {}
  /\ UNCHANGED <<conn, sock, got, acc, timer, totals, balance>>

(* A descriptor of the ready list that has nothing to report any more is   *)
(* dropped.                                                                *)
EpollDrop ==
  /\ pc = "wait"
  /\ \E i \in DOMAIN rdlist : Reported(rdlist[i]) = {} /\ rdlist' = RemoveAt(rdlist, i)
  /\ UNCHANGED <<pc, conn, sock, got, batch, acc, timer, totals, balance, fresh>>

(* epoll_wait takes up to MaxEvents from the ready list, in its order.     *)
EpollWait ==
  /\ pc = "wait"
  /\ rdlist # <<>>
  /\ LET n == Smaller(Len(rdlist), MaxEvents)
     IN  /\ \A i \in 1 .. n : Reported(rdlist[i]) # {}
         /\ batch' = [i \in 1 .. n |-> [fd |-> rdlist[i], events |-> Reported(rdlist[i])]]
         /\ rdlist' = SubSeq(rdlist, n + 1, Len(rdlist))
  /\ pc' = "dispatch"
  /\ fresh' = {}
  /\ UNCHANGED <<conn, sock, got, acc, timer, totals, balance>>

(* epoll_wait fails for good: the loop is left.                            *)
WaitFails ==
  /\ "waitfail" \in Env
  /\ pc = "wait"
  /\ pc' = "returned"
  /\ UNCHANGED <<conn, sock, got, rdlist, batch, acc, timer, totals, balance, fresh>>

-----------------------------------------------------------------------------
(* Program: the branches of the loop body, in their order.                 *)

Handling(fd) == pc = "dispatch" /\ Head(batch).fd = fd
Has(event) == event \in Head(batch).events

(* EPOLLRDHUP comes before everything else.                                *)
OnRdhup(fd) ==
  /\ Handling(fd) /\ Has("RDHUP")
  /\ Recycle(fd)

(* EPOLLERR: ev_check_so_error ends the program on a refused connection.   *)
OnErr(fd) ==
  /\ Handling(fd) /\ ~Has("RDHUP") /\ Has("ERR")
  /\ IF sock[fd].state = "refused" THEN Exit ELSE Recycle(fd)

(* EPOLLIN on the timer: the summary is shown and the program exits.       *)
OnTimer ==
  /\ Handling(timerfd) /\ Has("IN")
  /\ Exit

(* EPOLLIN on a socket: recieve_response begins.                           *)
OnIn(fd) ==
  /\ Handling(fd) /\ ~Has("RDHUP") /\ ~Has("ERR") /\ Has("IN")
  /\ pc' = "recv"
  /\ acc' = conn[fd].buf
  /\ UNCHANGED <<conn, sock, got, rdlist, batch, timer, totals, balance, fresh>>

(* EPOLLOUT, only when nothing was received: on the first one the result   *)
(* of connect(2) is looked at; then send_request begins.                   *)
OnOut(fd) ==
  /\ Handling(fd) /\ Head(batch).events = {"OUT"}
  /\ IF ~conn[fd].connected /\ sock[fd].state # "open"
     THEN IF sock[fd].state = "refused" THEN Exit ELSE Recycle(fd)
     ELSE /\ conn' = [conn EXCEPT ![fd].connected = TRUE]
          /\ pc' = "send"
          /\ UNCHANGED <<sock, got, rdlist, batch, acc, timer, totals, balance, fresh>>

-----------------------------------------------------------------------------
(* Program: recieve_response, one recv(2) per step, then the parser.       *)

\* Mutant: the first piece of a response is taken for all of it.
Parse_first(state, piece) ==
  IF state \in {"complete", "bad", "nothing"} THEN state
  ELSE IF piece \in {"part", "end"} THEN "complete"
  ELSE IF state = "empty" THEN "nothing" ELSE "bad"

\* http_parser_execute over the whole buffer: it stops behind the end of a
\* response or at the first error; an error at the first byte parses nothing.
Parse(state, piece) ==
  IF state \in {"complete", "bad", "nothing"} THEN state
  ELSE CASE piece = "part" -> "partial"
         [] piece = "end" -> "complete"
         [] piece = "junk" -> IF state = "empty" THEN "nothing" ELSE "bad"

Current == Head(batch).fd

RecvData ==
  /\ pc = "recv"
  /\ sock[Current].state \in {"open", "reset"} /\ sock[Current].rx # <<>>
  /\ acc' = Parse(acc, Head(sock[Current].rx))
  /\ sock' = [sock EXCEPT ![Current].rx = Tail(sock[Current].rx)]
  /\ UNCHANGED <<pc, conn, got, rdlist, batch, timer, totals, balance, fresh>>

\* recv(2) says EAGAIN: all is read, the buffer is parsed from its start.
RecvDone ==
  /\ pc = "recv"
  /\ sock[Current].state = "open" /\ sock[Current].rx = <<>> /\ ~sock[Current].fin

\* Mutant: a connection that is registered to write is not registered again.
ResponseComplete_trusting ==
  /\ RecvDone /\ acc = "complete"
  /\ conn' = [conn EXCEPT ![Current].buf = "empty"]
  /\ total_responses' = (total_responses + 1) % Wrap
  /\ balance' = [balance EXCEPT ![Current] = @ - 1]
  /\ IF sock[Current].interest = "write" THEN UNCHANGED <<sock, rdlist>>
     ELSE ModifyEvent(Current, "write")
  /\ NextEvent
  /\ UNCHANGED <<got, timer, total_requests, fresh>>

(* response_complete counted the response: RECV_NEXT.                      *)
ResponseComplete ==
  /\ RecvDone /\ acc = "complete"
  /\ conn' = [conn EXCEPT ![Current].buf = "empty"]
  /\ total_responses' = (total_responses + 1) % Wrap
  /\ balance' = [balance EXCEPT ![Current] = @ - 1]
  /\ ModifyEvent(Current, "write")
  /\ NextEvent
  /\ UNCHANGED <<got, timer, total_requests, fresh>>

(* The response goes on: the bytes stay in the buffer.  The registration   *)
(* stays too: an EPOLLOUT of the same event is not seen again.             *)
ResponsePartial ==
  /\ RecvDone /\ acc \in {"partial", "bad"}
  /\ conn' = [conn EXCEPT ![Current].buf = acc]
  /\ NextEvent
  /\ UNCHANGED <<sock, got, rdlist, timer, totals, balance, fresh>>

(* Nothing could be parsed, the peer closed, or recv(2) failed.            *)
ReceiveFails ==
  /\ \/ RecvDone /\ acc \in {"nothing", "empty"}
     \/ /\ pc = "recv" /\ sock[Current].rx = <<>>
        /\ sock[Current].fin \/ sock[Current].state = "reset"
  /\ Recycle(Current)

-----------------------------------------------------------------------------
(* Program: send_request, one send(2) per step.                            *)

\* Mutant: no ev_modify_event when the request is out.
SendData_unarmed ==
  /\ pc = "send"
  /\ sock[Current].state = "open" /\ sock[Current].tx < SndBuf
  /\ LET n == Smaller(SndBuf - sock[Current].tx, ReqLen - conn[Current].sendoffset)
         sent == conn[Current].sendoffset + n
     IN  /\ sock' = [sock EXCEPT ![Current].tx = @ + n]
         /\ IF sent < ReqLen
            THEN /\ conn' = [conn EXCEPT ![Current].sendoffset = sent]
                 /\ UNCHANGED <<pc, batch, acc, total_requests, balance>>
            ELSE /\ conn' = [conn EXCEPT ![Current].sendoffset = 0]
                 /\ total_requests' = (total_requests + 1) % Wrap
                 /\ balance' = [balance EXCEPT ![Current] = @ + 1]
                 /\ NextEvent
  /\ UNCHANGED <<got, rdlist, timer, total_responses, fresh>>

(* send(2) takes what fits; at the end of the request it is counted.       *)
SendData ==
  /\ pc = "send"
  /\ sock[Current].state = "open" /\ sock[Current].tx < SndBuf
  /\ LET n == Smaller(SndBuf - sock[Current].tx, ReqLen - conn[Current].sendoffset)
         sent == conn[Current].sendoffset + n
         after == [sock EXCEPT ![Current].tx = @ + n]
     IN  IF sent < ReqLen
         THEN /\ conn' = [conn EXCEPT ![Current].sendoffset = sent]
              /\ sock' = after
              /\ UNCHANGED <<pc, rdlist, batch, acc, total_requests, balance>>
         ELSE /\ conn' = [conn EXCEPT ![Current].sendoffset = 0]
              /\ sock' = [after EXCEPT ![Current].interest = "read"]
              /\ rdlist' = IF Poll(Current) \cap Asked("read") # {}
                           THEN Queued(rdlist, Current) ELSE rdlist
              /\ total_requests' = (total_requests + 1) % Wrap
              /\ balance' = [balance EXCEPT ![Current] = @ + 1]
              /\ NextEvent
  /\ UNCHANGED <<got, timer, total_responses, fresh>>

\* Mutant: the rest is awaited as a response is.
SendAgain_reads ==
  /\ pc = "send"
  /\ sock[Current].state = "open" /\ sock[Current].tx = SndBuf
  /\ ModifyEvent(Current, "read")
  /\ NextEvent
  /\ UNCHANGED <<conn, got, timer, totals, balance, fresh>>

(* send(2) says EAGAIN: the rest goes when the socket is writable again.   *)
SendAgain ==
  /\ pc = "send"
  /\ sock[Current].state = "open" /\ sock[Current].tx = SndBuf
  /\ ModifyEvent(Current, "write")
  /\ NextEvent
  /\ UNCHANGED <<conn, got, timer, totals, balance, fresh>>

SendFails ==
  /\ pc = "send"
  /\ sock[Current].state = "reset"
  /\ Recycle(Current)

-----------------------------------------------------------------------------
(* Environment: the peer, the kernel, the user.                            *)

Settle(fd, state) ==
  /\ sock[fd].state = "connecting"
  /\ sock' = [sock EXCEPT ![fd].state = state]
  /\ Wake(fd, AnyKind)
  /\ UNCHANGED <<pc, conn, got, batch, acc, timer, totals, balance, fresh>>

PeerAccepts(fd) == Settle(fd, "open")
PeerRefuses(fd) == "refuse" \in Env /\ Settle(fd, "refused")
ConnectFails(fd) == "unreachable" \in Env /\ Settle(fd, "failed")

(* The peer reads a byte of the request, and the send buffer has room.     *)
PeerReads(fd) ==
  /\ sock[fd].state = "open" /\ sock[fd].tx > 0 /\ got[fd] < ReqLen
  /\ sock' = [sock EXCEPT ![fd].tx = sock[fd].tx - 1]
  /\ got' = [got EXCEPT ![fd] = @ + 1]
  /\ IF sock[fd].tx = SndBuf THEN Wake(fd, {"OUT"}) ELSE UNCHANGED rdlist
  /\ UNCHANGED <<pc, conn, batch, acc, timer, totals, balance, fresh>>

Arrive(fd, piece) ==
  /\ sock[fd].state = "open" /\ ~sock[fd].fin /\ Len(sock[fd].rx) < RxMax
  /\ sock' = [sock EXCEPT ![fd].rx = Append(sock[fd].rx, piece)]
  /\ Wake(fd, {"IN"})
  /\ UNCHANGED <<pc, conn, batch, acc, timer, totals, balance, fresh>>

(* A piece of a response, leaving room for its end.                        *)
PeerSends(fd) ==
  /\ got[fd] = ReqLen \/ "early" \in Env
  /\ Len(sock[fd].rx) < RxMax - 1
  /\ Arrive(fd, "part") /\ UNCHANGED got

(* The end of the response to the request the peer has read.               *)
PeerEnds(fd) ==
  /\ got[fd] = ReqLen \/ ("early" \in Env /\ balance[fd] > -MaxEarly)
  /\ "endless" \notin Env
  /\ Arrive(fd, "end")
  /\ got' = [got EXCEPT ![fd] = IF @ = ReqLen THEN 0 ELSE @]

(* A malformed response, from its first byte on or after some pieces.      *)
PeerSendsJunk(fd) ==
  /\ "junk" \in Env
  /\ got[fd] = ReqLen
  /\ Arrive(fd, "junk")
  /\ got' = [got EXCEPT ![fd] = 0]

PeerCloses(fd) ==
  /\ "fin" \in Env
  /\ sock[fd].state = "open" /\ ~sock[fd].fin
  /\ sock' = [sock EXCEPT ![fd].fin = TRUE]
  /\ Wake(fd, AnyKind)
  /\ UNCHANGED <<pc, conn, got, batch, acc, timer, totals, balance, fresh>>

PeerResets(fd) ==
  /\ "rst" \in Env
  /\ sock[fd].state = "open"
  /\ sock' = [sock EXCEPT ![fd].state = "reset"]
  /\ Wake(fd, AnyKind)
  /\ UNCHANGED <<pc, conn, got, batch, acc, timer, totals, balance, fresh>>

TimerExpires ==
  /\ timer = "armed"
  /\ timer' = "expired"
  /\ rdlist' = Queued(rdlist, timerfd)
  /\ UNCHANGED <<pc, conn, sock, got, batch, acc, totals, balance, fresh>>

(* CTRL+C at any moment: interupt_summary shows the summary and exits.     *)
Interrupt ==
  /\ "sigint" \in Env
  /\ pc \notin {"exit", "returned"}
  /\ Exit

-----------------------------------------------------------------------------
Handler(fd) == OnRdhup(fd) \/ OnErr(fd) \/ OnIn(fd) \/ OnOut(fd)
Receive == RecvData \/ ResponseComplete \/ ResponsePartial \/ ReceiveFails
Transmit == SendData \/ SendAgain \/ SendFails
Program ==
  \/ StartConnection \/ EnterLoop \/ EpollDrop \/ EpollWait
  \/ OnTimer
  \/ \E fd \in Fd : Handler(fd)
  \/ Receive \/ Transmit

Serving(fd) == PeerAccepts(fd) \/ PeerReads(fd) \/ PeerSends(fd) \/ PeerEnds(fd)
Trouble(fd) == PeerRefuses(fd) \/ ConnectFails(fd) \/ PeerSendsJunk(fd)
               \/ PeerCloses(fd) \/ PeerResets(fd)

Running == pc \notin {"exit", "returned"}
Environment ==
  Running /\ (TimerExpires \/ \E fd \in Fd : Serving(fd) \/ Trouble(fd))

Next == Program \/ Environment \/ Interrupt \/ WaitFails

(* The thread is scheduled, connect(2) gets an answer, the peer reads what *)
(* it is sent and ends its responses, a timer expires.                     *)
Fairness ==
  /\ WF_vars(Program)
  /\ WF_vars(Running /\ TimerExpires)
  /\ \A fd \in Fd : /\ WF_vars(Running /\ PeerAccepts(fd))
                    /\ WF_vars(Running /\ PeerReads(fd))
                    /\ WF_vars(Running /\ PeerEnds(fd))

Spec == Init /\ [][Next]_vars
FairSpec == Spec /\ Fairness

-----------------------------------------------------------------------------
(* Every variable has its type, and while the loop runs the table has a    *)
(* record for every connection asked for (networking.c:29-43, 149-172).    *)
TypeOK ==
  /\ pc \in {"start", "wait", "dispatch", "recv", "send", "exit", "returned"}
  /\ conn \in [Fd -> Connection \cup {NULL}]
  /\ Running /\ pc # "start" => \A fd \in Fd : conn[fd] # NULL
  /\ sock \in [Fd -> Socket]
  /\ got \in [Fd -> 0 .. ReqLen]
  /\ rdlist \in Seq(Fd \cup {timerfd})
  /\ batch \in Seq(Event)
  /\ acc \in {"empty", "partial", "bad", "complete", "nothing"}
  /\ timer \in {"none", "armed", "expired"}
  /\ total_requests \in 0 .. Wrap - 1 /\ total_responses \in 0 .. Wrap - 1
  /\ balance \in [Fd -> Int]
  /\ fresh \subseteq Fd

InHand(fd) == pc \in {"dispatch", "recv", "send"} /\ Head(batch).fd = fd
InBatch(fd) == \E i \in DOMAIN batch : batch[i].fd = fd

\* A complete response waits in the socket or is being received.
Answered(fd) ==
  \/ Contains(sock[fd].rx, "end")
  \/ batch # <<>> /\ Current = fd /\ acc = "complete"

\* An event of fd is still to be handled.
Awaited(fd) == Contains(rdlist, fd) \/ InBatch(fd)

\* A part of a response came before the request was out.
Interrupted(fd) == fd \in Fd /\ conn[fd].buf # "empty" /\ sock[fd].interest = "write"

\* What a descriptor reports and the loop still has to act on.
Due(fd) == Reported(fd) \ (IF Interrupted(fd) THEN {"OUT"} ELSE {})

(* Edge-triggered epoll tells an event once, and of IN and OUT in one      *)
(* event the chain of ev_run_loop handles IN only (ev.c:120-165).  What a  *)
(* socket has to report is on the ready list or still to be handled,       *)
(* through every partial send, partial response, re-registration and       *)
(* reconnect.  The one event the loop drops is that a request can go on,   *)
(* after a part of a response came before its end, and never beyond that   *)
(* response.                                                               *)
NoLostWakeup ==
  Running /\ pc # "start" =>
    \A fd \in Fd \cup {timerfd} : Due(fd) # {} => Awaited(fd)

(* Nothing is dropped of a connection whose peer waits for its request.    *)
NothingDropped ==
  Running /\ pc # "start" =>
    \A fd \in Fd \cup {timerfd} : Reported(fd) # {} => Awaited(fd)

(* A request goes out once, whole and in order, however send(2) cuts it:   *)
(* the bytes handed over on a connection are those in its send buffer, in  *)
(* the peer's hands, or of a request whose response is on its way          *)
(* (networking.c:117-146: sendoffset kept on EAGAIN, reset at the end).    *)
BytesConserved ==
  \A fd \in Fd : conn[fd] # NULL =>
    conn[fd].sendoffset + ReqLen * balance[fd]
      = sock[fd].tx + got[fd] + (IF Answered(fd) THEN ReqLen ELSE 0)

(* The registration of a connection says what it is doing: it listens for  *)
(* a response iff a request is out, a request sent in part always waits to *)
(* be writable, and a connection that never was writable has sent nothing  *)
(* (ev.c:129, 160, 164 against networking.c:123, 140, 145).                *)
InterestMatchesWork ==
  \A fd \in Fd : Running /\ conn[fd] # NULL /\ ~(InHand(fd) /\ pc = "send") =>
    /\ balance[fd] = IF sock[fd].interest = "read" THEN 1 ELSE 0
    /\ conn[fd].sendoffset > 0 => sock[fd].interest = "write"
    /\ conn[fd].connected <=> sock[fd].interest \in {"read", "write"}
    /\ conn[fd].buf # "empty" => balance[fd] = 1

(* A closed descriptor is reopened under the same number while events of   *)
(* the same epoll_wait are still to be handled: none of them is about the  *)
(* new connection (ev.c:108-165, close_connection and reconnect inside the *)
(* loop over events).                                                      *)
NoStaleEvent == \A i \in DOMAIN batch : batch[i].fd \notin fresh

(* Every response that is counted answers a request sent on the same       *)
(* connection: stats_t "stores ... all request-response cost intervals"    *)
(* (caculate.h:21), and a response counted with no request out is timed    *)
(* from an older one or from zero (networking.c:188).                      *)
IntervalsAreOfRequests == \A fd \in Fd : balance[fd] >= 0

(* "All request-response cost intervals" (caculate.h:21) are recorded: a   *)
(* connection is never given up while the complete response to its request *)
(* is there to be read (ev.c:111, networking.c:69).                        *)
AllResponsesCounted ==
  [][\A fd \in fresh' \ fresh : ~(balance[fd] = 1 /\ Answered(fd))]_vars

(* -c asks for "concurrent tcp connections" (help.c:11): while the loop    *)
(* runs, epoll knows every connection of the table.                        *)
AllConnectionsWatched ==
  pc \in {"wait", "dispatch"} => \A fd \in Fd : sock[fd].interest # "none"

-----------------------------------------------------------------------------
Over == pc \in {"exit", "returned"}

(* A duration that was asked for ends the run, in whatever state the       *)
(* connections are (-t: ev.c:121-124; -m: request.c:143-149).              *)
DurationEndsRun == Option # "none" => <>Over

(* Every request is answered for the statistics, or its connection is      *)
(* replaced: no connection waits forever.                                  *)
EveryRequestEnds == \A fd \in Fd : balance[fd] = 1 ~> balance[fd] = 0 \/ Over

(* Every connection of the table sends request after request: none is      *)
(* starved or forgotten by the others or by a partial send.                *)
EveryConnectionSends ==
  \A fd \in Fd : pc = "wait" /\ balance[fd] = 0 ~> balance[fd] = 1 \/ Over

\* The load generator as its user sees it.
Phase == [fd \in Fd |-> IF balance[fd] # 1 THEN "idle"
                        ELSE IF Answered(fd) THEN "answered" ELSE "waiting"]
Load == INSTANCE LoadGen
          WITH phase <- Phase, sent <- total_requests, counted <- total_responses, over <- Over

(* The loop implements the closed-loop load generator: a connection has    *)
(* one request out at most, each is counted once when it is whole, and a   *)
(* response is counted once, when it is complete, for the request before.  *)
ImplementsLoadGen == Load!LoadSpec
=============================================================================
