# webstress in TLA+

webstress is a HTTP load generator: `-c` TCP connections, one thread, one
edge-triggered epoll loop. Each connection sends the same request, waits for the
response, records how long it took and sends the next, until the timer of `-t`
expires or the user presses CTRL+C; then a summary is printed. This directory
holds TLA+ models of that program, the TLC configurations that check them, and
theorems about them checked by TLAPS. Paths below are relative to the repository
(`src/src/` is its C code).

Contents: [inventory](#inventory), [plan](#plan), [modules](#modules),
[runs](#runs), [what the runs refute](#what-the-runs-refute),
[fairness](#fairness), [proofs](#proofs), [limits](#limits).

## Inventory

    main.c ── parse_cli ─> myreq ── compose_request_buffer
      │  stats_init, hash_conn_init, signal(SIGINT, interupt_summary)
      ├─ start_connection (x -c) ─> socket, hash_conn_add, connect, epoll_ctl
      └─ ev_run_loop ─ epoll_wait ─> per event, in this order:
            EPOLLRDHUP   close_connection, reconnect
            EPOLLERR     exit if refused, else close_connection, reconnect
            EPOLLIN      on the timer: finally_summary, exit
                         on a socket: recieve_response ─> recv until EAGAIN, http_parser_execute,
                           on complete: response_complete ─> stats; then EPOLL_CTL_MOD
            EPOLLOUT     send_request ─> send until EAGAIN or all sent

Everything interacts through global state: the table `ghash_conn`, the record `net_record`,
the request `myreq`, the epoll descriptor, and the signal handler that runs on
top of all of it.

| Component | Source | State it keeps | Operations | Hard part | What makes it correct |
|---|---|---|---|---|---|
| event loop | ev.c, ev.h | ready list of epoll, batch of events, position in it | wait, five branches, modify | edges told once; a batch that outlives the descriptors in it; one thread for all | no event lost or stale; the timer ends the run; every request ends |
| connections | networking.c | `conn_t`: connected, sendoffset, recv_buffer, parser; totals | start, send, receive, close, reconnect, complete | partial sends and receives, a peer that answers early, closes or resets | bytes sent once and in order; a request counted once, its response once |
| sockets | sknet.c | the kernel's | connect, error check | connect(2) that ends at once, later, or never | every connection is watched by epoll |
| connection table | hash_conn.c, list_conn.c | chains, depth, elenum; owned records and buffers | init, add, get, delete, free | heads embedded in the table, copied over and left dangling; addresses reused | behaves as a map; nothing leaked or freed twice |
| statistics | caculate.c | growing array, counters, max, min, avg | send/receive time, add, resize, summary | bounds of the resize; SIGINT between any two statements | writes in bounds; the summary tells the truth |
| HTTP parser | http_parser.c | state, flags, lengths, header count | execute, on_message_complete | framing by length, chunk, status, upgrade; a call for every piece | a response is over at its last byte; no assert fails |
| request | request.c, main.c, help.c | `myreq`, request buffer | an option each, URL, resolve, compose | order and repetition of options; a file that changes; strings measured by their contents | Content-Length is the body's length; one Host header; the loop gets what was asked |
| url | url.c, http_parser.c:2180-2446 | fields found, offset and length of each | scan, scan of the host part, copy | two scanners that share offsets; arrays of fixed size | the fields are what the user wrote, and spell the URL |
| timer | timer.c | timerfd; an unused heap | set interval | | expires after the duration asked for |
| base64, tv_queue, urlencode | | | called by nothing | an uninitialised pointer | |
| screen, regex, capture, exception | | none | formatting, logging | | |

The behaviours that are hard to test, each at its line and with the properties
that watch it, are the `hazards` of `PROJECT.json`. The ones this project was
built around are: what edge-triggered epoll reports against what the else-if chain
of `ev_run_loop` handles (ev.c:108-165); replacing a connection within a batch;
`sendoffset` and `offset` over partial calls; the collision lists with reused
heads; the doubling of two buffers; SIGINT on top of `realloc`; and the framing of
a response that arrives in arbitrary pieces.

## Plan

Ordered by what matters most; the first seven are done.

1. `HashConn` against `ConnMap`: the table every handler relies on. Proved.
2. `EventLoop` against `LoadGen`: loop, sockets, epoll, connections together. Its
   safety and the refinement proved.
3. `RecvBuffer`: the arithmetic of `recieve_response`. Proved.
4. `Stats`: the record, its array and the summary under SIGINT. Proved.
5. `HttpParser` against `HttpResponse`: the response parser, the verdict of
   `recieve_response`, and where a correct response ends. Proved.
6. `Url`: the scanners of `http_parser_parse_url` and the copies of `parse_url`.
   Proved.
7. `Request`: options as steps over `myreq`, then Content-Length against the body
   and the Host header. Proved.
8. Left: algorithms nothing calls (base64, `urlencode`, the queue of time values),
   `get_nearest_prime`, which enters as the constant `TableSize`.
9. More theorems: none of the safety properties is left. `FairSpec` of `EventLoop`
   has liveness only TLC can check.

How the modules compose:

- `EventLoop` contains the connections, the sockets, epoll and the peer. Of the
  others it uses what they promise: its `conn` is the map that `HashConn` is shown
  to implement; what bytes parse to is abstracted to pieces `part`, `end` and
  `junk`, with the verdicts `HttpParser` gives for them; its buffers hold any
  number of pieces, which is what `RecvBuffer` shows of the real one.
- `HttpParser` extends `HttpResponse`, what a server may send; `HttpPosition` extends
  `HttpParser` with what the parser knows at each place of it.
- `HashConn` implements `ConnMap` and `EventLoop` implements `LoadGen`, each with
  `INSTANCE ... WITH` and the abstract specification as a `PROPERTY`.
- `Request` extends `Url`: the steps of the scanner are steps of the program between
  the options and the request. What it hands over, the number of connections, the
  length of the request, the timer, are constants of `EventLoop`.
- `Stats` takes one connection and one response at a time, and looks inside the
  statements that `EventLoop` takes as one step.

## Modules

### HashConn, ConnMap

`chain[s]` is the list of slot `s`, its first element the node embedded in the
table; `depth[s]` is the only thing that tells an empty slot from a used one, since
deleting a sole node leaves the head with its old key and a dangling pointer
(list_conn.c:40-66). `owner` and `bufs` are the heap: which records and receive
buffers are allocated, and for which descriptor. `Add`, `Delete` and `Free` are
`hash_conn_add`, `hash_conn_delete` and `hash_conn_free` with the list operations
they call; `hash_conn_get` is an operator. An address freed may be returned by the
next malloc. `Free` is enabled with at least `Connections` open descriptors,
because a closed one is replaced before the loop looks at its next event.
`TableSize` stands for the result of `get_nearest_prime`; nothing but
`Connections <= TableSize` is assumed of it. `ConnMap` is a map from descriptors to
records, distinct for distinct descriptors, until it is freed.

### EventLoop, LoadGen

`pc` is the place of the thread: before the loop, in `epoll_wait`, at the head of
the batch, inside `recieve_response`, inside `send_request`, returned or exited.
Each branch of the loop is an action (`OnTimer`, `OnRdhup`, `OnErr`, `OnIn`,
`OnOut`), each iteration of recv(2) and send(2) is one (`RecvData`, `SendData`),
and so is each way out of these loops (`ResponseComplete`, `ResponsePartial`,
`ReceiveFails`, `SendAgain`, `SendFails`). So the kernel, the peer, the timer and
SIGINT act between any two system calls, but for two pairs that are one step: the
send(2) that ends a request with the `EPOLL_CTL_MOD` behind it, and the recv(2) or
send(2) that says EAGAIN with its own. The order does not matter there:
`EPOLL_CTL_MOD` looks at the descriptor again, so that what happens before it is
found by it. `close_connection` and `reconnect` are one step: nothing they touch is
visible to others in between.

`Poll`, `Asked`, `Wake` and `ModifyEvent` are the part of epoll(7) the code uses,
modelled from that use: a descriptor goes on the ready list when an event it is
registered for *happens* and when `EPOLL_CTL_MOD` finds it ready; `epoll_wait` takes
at most `MaxEvents` from the list and reports what is true then; a descriptor that
has nothing to report any more leaves the list (`EpollDrop`), and so does one that
is closed (`Unqueued`). A socket is a
queue of pieces, a send buffer of `SndBuf` bytes, `fin` and a state. `Env` says
what may happen besides serving: `fin`, `rst`, `refuse`, `unreachable` (connect
fails later), `instant` and `connfail` (connect ends at once), `nosocket`,
`waitfail`, `junk` (no HTTP), `early` (an answer, or parts of it, before the request
is whole), `endless` (a response that never pauses), `sigint`.

Only with `early` do EPOLLIN and EPOLLOUT meet in one event of a socket that is
still sending. The chain of `else if` (ev.c:120-137) then handles EPOLLIN alone. If
the response is over, `ResponseComplete` registers the socket again and epoll looks
again; if a part of it came, `ResponsePartial` leaves the registration, and that the
request can go on is forgotten until the response ends. `Interrupted` is this state.
`NoLostWakeup` says of every environment that it is the only event dropped, and
`NothingDropped`, that none is, holds without `early`
(`MCEventLoop_dropped.cfg` refutes it with it).

Abstractions: descriptors keep their numbers, because socket(2) returns the lowest
free one and a closed socket is replaced at once; the ready list is FIFO; room in a
send buffer is an event only when the buffer was full; the counters count modulo
`Wrap`. `balance` and `fresh` are history: requests minus responses on the present
connection, and the descriptors reopened since `epoll_wait` returned.

`LoadGen` is what the user is told: per connection idle → waiting → answered → idle,
a count for each request and response, a connection replaced or the run ended at
any time.

### RecvBuffer

One call of `recieve_response` as the loop it is, in bytes: room
`capacity - offset - bytes` asked of recv(2), doubling when the buffer is full
(networking.c:73-80), `offset` moved on EAGAIN, all reset after a complete response
or a close. A response is its length; `int` is `IntMax` wide, and doubling beyond
that ends the program as `ASSERT_ALLOCATE` does.

### Stats

One action per statement of `response_complete` (networking.c:184-188),
`stats_rcv_end`, `stats_add`, `stats_resize` and `stats_summary`, so that
`Interrupt` (SIGINT) comes between any two. `realloc` and the assignment of its
result are two steps. The cuts of the distribution are those of `size >= Fine` or
the others. The block `data` points to and the blocks that are allocated
are variables; a use of a block that is not allocated leads to `"undefined"`, and
the model stops there. Numbers that are `double` are exact fractions; `uint32_t` is
modulo `Wrap`, and `compare` of qsort(3) subtracts as the code does. qsort, realloc
and each printed group are one step; there is one connection, whose last send time
is `sent`.

### HttpResponse, HttpParser, HttpPosition

The response side of `http_parser_execute`: one action per case of the switch, with
the shared tail of the cases (`Take`, `Again`, `Error`, `Complete`) as operators.
Every call of `recieve_response` parses the whole buffer again with a fresh copy of
the parser, so what it finds is a function of the bytes received; the variables hold
that copy, `Receive` is the call, and it may come between any two bytes. `Verdict`
is what `recieve_response` returns.

A character of the model is a byte, except that a word (a header's name, a keyword,
`HTTP/1.1 `) is one character; a word that is no keyword does not begin as one.
The names of headers, `h_C` to `h_matching_upgrade` of `s_header_field`, and the
version, `s_res_H` to `s_res_http_minor`, are therefore one step. `marks` are the
data that have begun and whose callback is still to come (`MARK`, `CALLBACK_DATA`).
`"SP"` is the space. `MaxHeader`, HTTP_MAX_HEADER_SIZE, counts characters.
`content_length` is modulo `MaxLength + 1`. The server sends a response of the set
`Responses` and may put in, or replace, up to `MaxStray` characters.

`HttpResponse` says what `Responses` may be, by the syntax of HTTP and not by the
parser's states. A response is a record of its wire and of the lines that make it up:
a status line, headers, an empty line, then chunks and trailers, or one body, or
nothing. `WellFormed` is a line of its kind, with the values of the digits read so far
in `number`, so that a number needs no recursion; `InOrder` that the wire is the lines
one behind the other; `BodyIsRight` that the body is what the head announces. Lines
end with CR LF or LF, headers may be folded and of any number, values may have spaces
around them, chunks may have parameters. `MCHttpParser` builds such records from
shorter descriptions, and TLC evaluates `ResponsesAssumption` on them.

In `HttpPosition`, `AtLine(l, k)` is what the parser knows behind `k` characters of
the line `l`, a predicate per kind of line; `Knows(r, i, k)` what it has kept of the
lines before line `i`; `Place(r, i, k)` that what is still to come is the rest of the
wire. `FrameInv` puts them together. TLC checks it on the instance of `parser` with
`MCHttpParser_position.cfg`.

### Url

`GiveUrl` is the beginning of `parse_url` (a scheme is put in front unless the
pattern `REGEX_URL_SCHEME` finds one, and the result cut to the array); `ScanChar`
is a turn of the loop of `http_parser_parse_url`, `ScanEnd` what follows it,
`HostScan` and `HostEnd` the same of `http_parse_host` and the test of the port, and
`CopyFields` the switch of `parse_url`. `off`, `len` and `field_set` are `struct
http_parser_url`. `parse_url_char` and `http_parse_host_char` are the two tables of
states, a row for each group of characters that has the same successor.

A character is a class of bytes which the tables treat alike. Two words are one
letter, `http` and `localhost`, because they are compared as wholes. A digit of a
host stands for a group of one to three, as `REGEX_IPV4` has them. `MaxPort` is
0xffff; the arrays have `UrlSize` and `FieldSize` bytes. CONNECT is never asked for.
`given` is the URL typed, of any characters (damaged ones too), with the parts it was
written from, if it was: `Parts` are records of a scheme, user information, a name or
an IPv6 address with or without a zone, a port, a path, a query and a fragment, each
of the characters that may be in it, and `Whole` puts them together.

### Request

One action per case of `parse_cli` (`OptionFile` is `-b`, `OptionData` `-d`,
`OptionPipelining` `-f`, and so on), `NoArgument` for a command line without a URL,
`UrlArgument`, `ParseUrl` and `Resolve` for the rest of `parse_opt`, and
`compose_request_buffer` in one step, with `ComposeEnds` for its ways not to return.
`FileChanges` is another program, between stat(2) and read(2).

getopt(3) of glibc moves the arguments that are no options to the end, so options
come first in their order whatever the user typed, and the second call of
`parse_cli` (request.c:201) finds none left.

A string is its length. `file_upload` is whether it points to a name: there is one
file, with a size that may change. A header of `-H` is its name (a name that contains
`Host` is found as `Host` is, request.c:45), whether it has a colon, how many
characters its value has and whether a blank follows them. `bodydata` is what
`strlen` finds in it: data of `BODY_SIZE` or more lose their NUL and go on in the
next field, `method`, whose first byte is not 0. What has no defined outcome ends in
`"crashed"`. `int` is `IntMax` wide; a multipart body has pieces with their sizes.

## Runs

Passing runs. The number of distinct states is TLC's.

| Run | Checks | Bounds | States | Shows |
|---|---|---|---|---|
| `table` | IInv, GetFindsOwner, NothingLeaks, FreeReleasesAll, RefinesMap | 5 descriptors, 5 addresses, 2 slots | 399 (addresses are symmetric) | lookups, counts and the heap stay right in every order of adds and deletes; the table is a map for its callers |
| `loop_pair` | TypeOK, BytesConserved, InterestMatchesWork, NoStaleEvent, ImplementsLoadGen | 2 connections, requests of 2 bytes through a send buffer of 1, 2 pieces waiting, 2 events a batch | 692 288 | with peers that close, reset and refuse, and SIGINT: no event is stale, no byte lost or doubled, and the loop is a closed-loop load generator |
| `loop_mixed` | NoLostWakeup | as above, peers that answer early and close (`early`, `fin`) | 1 415 730 | EPOLLIN and EPOLLOUT in one event of a socket that is still sending: the only event dropped is that a request can go on while a part of an answer is there |
| `loop_live` | EveryRequestEnds, EveryConnectionSends | as above, 1 event a batch, a peer that serves | 2 041 | every connection keeps sending and none waits for ever; also no deadlock |
| `loop_timer` | DurationEndsRun | 2 connections, `fin`, `rst`, `refuse`, `unreachable`, `instant`, `connfail`, `junk` | 269 519 | the timer ends the run among connections that fail, end or answer nonsense |
| `recv_buffer` | TypeOK, RoomToReceive, BufferIsResponse, GrowthBounded, OnlyClosedIsDropped | buffer 2, responses of 1 to 9 bytes, int of 4 bits | 3 246 | every cut of every length, two doublings and the overflow |
| `stats` | TypeOK, WritesInBounds, SpaceBounded, CountsAgree, SummaryIsTrue | first size 2, 3 responses, 6 instants, 2 codes | 139 787 | resizes, SIGINT at every statement, and a true summary for runs that end by their timer |
| `parser` | TypeOK, FramesAsSent, ReportsAsSent, AssertionsHold, StatusInMap, LengthGrows | 18 responses, one stray character, lengths modulo 64, the longest head of 28 characters just fits | 1 029 523 | a correct response is over at its last byte in every cut; no assert fails on a damaged one, that on the marks included; the limits of length and head are met and passed |
| `request` | TypeOK, FieldsAsWritten, SpelledAsRead, FieldsInside, BodyIsDeclared, BodyAsAsked, LineAsAsked, PortAsAsked, OneHost, LoopGetsWhatWasAsked | no option and all combinations of URL parts and their one-character damages, or up to 3 options (`-p 0` among them) and 4 URLs | 1 404 486 | the parts of a URL reach the request as written; the length declared is that of the body; the last option counts, and for the port the URL |

Why the bounds suffice to meet the cases:

- `table`: three descriptors can share a slot, so heads, second nodes and last
  nodes are removed, a slot is emptied and used again, and an address comes back
  for another descriptor.
- `loop_pair`: two connections are one more than a batch that mentions both needs;
  a request of two bytes through a buffer of one is always sent in parts; two
  pieces make a response that arrives in parts and a response with its close; two
  events a batch put one connection's replacement before the other's event.
  `loop_mixed` has the same sizes and no SIGINT; `MaxEarly`, the responses a
  connection may end before their request, is 0 but in `MCEventLoop_early.cfg`, since
  the parts of an answer come early in any case.
  `loop_timer` leaves out `endless` and `early`, whose peers need not pause and then
  keep the loop in `recieve_response` (`MCEventLoop_endless.cfg`), and `sigint`,
  `nosocket` and `waitfail`, which end the run themselves.
  `loop_live` and `loop_timer` use one event a batch, the worst case for whoever is
  behind in the ready list. `Wrap` of 2 or 1 only hides totals, whose difference is
  in `balance`.
- `recv_buffer`: 9 bytes need a buffer of 16, beyond `IntMax`: the run goes through
  both doublings that succeed and the one that does not.
- `stats`: the array of 2 is resized at the second and third interval; times reach
  every order of three intervals. `Show`, `Cuts`, `Fine` and `FineCuts` scale the
  limits of 100 and 1000 intervals and the table of percentages down.
- `parser`: the alphabet of stray characters has one of every class the parser
  tells apart; 63 for `ULLONG_MAX` lets two hexadecimal or decimal digits overflow.
- `request`: every field of a URL is absent, as short as it may be, and with a
  character that is a mark elsewhere (`?` in a query, `:` in user information, `/`
  in a path and a query); hosts are a name, an address, `localhost` and IPv6 with a
  zone; ports are the greatest, one less than its array takes, and one too great.
  Damages put each class of character at each place. Three options have any two of
  `-b`, `-d`, `-f` in any order with one repeated or between; sizes are none, equal,
  smaller and greater than the buffer, and beyond `int`; data are as long as fit and
  one more. 99 is the limit both of ports and of connections, as 65535 is.

Runs that TLC finds violated, next section: `table_free`, `loop_closing`,
`stats_interrupt`.

Deadlock is checked where the system does not end (`loop_live`, `parser`). In the
others it ends: the table is freed, the run is over, the program exits.

Each property of a passing run has a mutant in the modules, a definition such as
`Delete_leaks` or `SendData_unarmed` beside the one it alters: with it in place the
property is violated, so the property does depend on that code. These definitions
are used by nothing else.

## What the runs refute

| Run | Property | The code | What contradicts it |
|---|---|---|---|
| `table_free` | FreeIsDefined | `list_conn_free` reads the record of the head whatever the depth (list_conn.c:81); an empty slot has none, and with `-c 4` one of the 5 slots is always empty | main.c:36 frees the table when the loop returns; hash_conn.h:38, "the only entrance to free recieve bufffer" |
| `loop_closing` | AllResponsesCounted | EPOLLRDHUP is tested before EPOLLIN (ev.c:111) and recv(2) = 0 drops what the same call has read (networking.c:69): the answer of a server that then closes is not counted | caculate.h:21, "all request-response cost intervals" |
| `stats_interrupt` | InterruptIsDefined | `interupt_summary` sorts and frees an array that realloc has moved (caculate.c:154) or the summary of the timer has freed (383) | main.c:21 and 31, "press CTRL+C to terminate" |

Further configurations, kept beside the runs; TLC refutes each of them as well:

| Configuration | Property | The code |
|---|---|---|
| `MCEventLoop_dropped.cfg` | NothingDropped | of EPOLLIN and EPOLLOUT in one event the second is not handled (ev.c:137), and a response that goes on registers nothing again (networking.c:102): the rest of a request waits for the end of an early answer |
| `MCEventLoop_early.cfg` | IntervalsAreOfRequests | an answer that comes before the request is whole is counted with an older send time (networking.c:185) |
| `MCEventLoop_connfail.cfg` | AllConnectionsWatched | connect(2) that fails at once is not registered and its result is not looked at (sknet.c:212, help.c:11) |
| `MCEventLoop_endless.cfg` | DurationEndsRun | `recieve_response` reads until EAGAIN (networking.c:56) and the timer waits (help.c:16) |
| `MCEventLoop_minutes.cfg` | DurationEndsRun | `-m` sets a duration but makes no timer (request.c:145-148) |
| `MCHashConn_unknown.cfg` | UnknownIsNull | the head of an emptied slot is still found (hash_conn.c:94) |
| `MCStats_count.cfg` | EveryResponseTimed | SIGINT after the count and before the interval (networking.c:185) |
| `MCStats_deviation.cfg` | DeviationOfAll | `sum = + powl(...)` assigns (caculate.c:238): only the last interval counts in the "Standard deviation" (caculate.c:375) |
| `MCRequest_target.cfg` | TargetGiven | the path of a URL is written only if it has one (request.c:244): `GET  HTTP/1.1`, also for the example of request.c:200, "./webpress google.com -c 100" |
| `MCStats_parts.cfg` | PartsAreAverages | `stats_navg2` divides by one more than it adds (caculate.c:207) |
| `MCStats_sorted.cfg` | PercentageOfSorted | `compare` overflows beyond 2^31 microseconds (caculate.c:89) |
| `MCStats_duration.cfg` | DurationIsElapsed | a duration beyond 2^32 microseconds wraps (caculate.c:104) |
| `MCRequest_length.cfg` | ContentLengthIsBody | `-f`, pipelining by help.c:13, drops the file of an earlier `-b` but not its length (request.c:134); data of 4096 or more are sent with the bytes behind them (request.c:132) |
| `MCRequest_host.cfg` | OneHostAlways | a Host of `-H` is looked for only if the URL gives an address or localhost (request.c:266), and one in `X-Forwarded-Host` is found too |

## Fairness

`FairSpec` of `EventLoop` is the only fair specification. It assumes, weakly:

- `Program`: the thread is scheduled. There is one thread, and its next step does
  not become impossible by waiting.
- `TimerExpires`: a timerfd that is armed expires.
- `PeerAccepts`: connect(2) in progress gets an answer; TCP gives up by itself
  otherwise.
- `PeerReads`, `PeerEnds`: the peer reads its socket and ends a response it owes.
  This is about the server under test, and without it `EveryRequestEnds` would be
  about the server: the program has no timeout of its own for a silent one.

Nothing is assumed of the order in which the loop handles descriptors: that no
connection starves comes from the FIFO ready list, and is what
`EveryConnectionSends` shows.

## Proofs

All theorems are for every value of the constants that satisfies the named
assumptions of the modules (`SizesAssumption`, `TableSizeAssumption`,
`DigitAssumption` and the like), and for behaviours of any length.

**HashConn_proofs.** `Invariance`: `Spec => []IInv`. That lookups are right
(`LookupCorrect`) and that nothing leaks (`NoLeaks`) are not inductive: `Delete`
returns the address of a removed node to the heap, so one has to know that no other
node holds it; `Add` reuses an embedded head, so one has to know that depth 0 means
a head nobody may look at. `IInv` says both: depth is the length of the list, nodes
of used slots are live and in the slot of their key, keys are distinct, every open
descriptor has a node, the records are those of open descriptors one to one, and
the count is the number of either. The lemmas on lists say what removing a node
leaves. There is a lemma for each of `Add`, `Delete` and `Free`, with a step for
each conjunct. `Refinement` shows `Spec => Map!MapSpec`: `Add` and `Delete` are the
map's insert and remove at one key, because the lookups of all others are
unchanged. `AllReleased` says that the walk of `hash_conn_free` reaches the record of
every live node: a list is no longer than there are descriptors open, by an
injection from its places to their keys.

**EventLoop_proofs.** `Types`, `NeverStale` and `NoneLost`, for every environment. `TypeOK`
needs to know that `Current` is a connection and that a batch is there while it is
handled, so both rest on `QueueInv`: no descriptor is twice on the ready list,
hence none twice in a batch; and an event of the batch speaks of what its
descriptor still asks for, because a registration changes only when the event of
its own descriptor is done. `NoStaleEvent` follows: what is reopened is the head of
the batch, which is dropped in the same step, and no other event has its number.

`NoneLost` is `NoLostWakeup`. `DueInv` says that every descriptor with something due is
on the list or in the batch, the one in hand included as the head of the batch; and
that `recieve_response` runs on a connection whose registration asks for data. The
second conjunct is what the first needs when a part of a response stays in the
buffer. What the kernel or the peer does queues the descriptor again (`PeerDue`); a
registration queues what is already there (`ModifyDue`); and the head leaves the batch
only when its handler ends with a registration, a reconnect, nothing left to report,
or `Interrupted` (`HandlerDue`, `ReceiveDue`, `TransmitDue`, joined in `StepDue`). What
the peer sends, and when, is not used.

`NoneDropped`, `Work`, `Conserved`, `Intervals` and `Implements` assume `Polite`: the
environment has neither `early` nor `junk`. The
assumption is needed, and is about the server: one that answers before it has the
request breaks `NothingDropped` (`MCEventLoop_dropped.cfg`),
`IntervalsAreOfRequests` (`MCEventLoop_early.cfg`) and with it the
refinement. Closing, resetting, refusing, failing, endless responses and SIGINT are
all allowed. The properties look at connections between handlers; what is
inductive says more. `Agree` joins the record, the socket, the bytes at the peer and
the balance of one connection, also while it is being served; `HandInv` says that
`recieve_response` runs only on a connection that has a request out and
`send_request` only on one that was registered to write. Each needs the other: a
receive keeps `Agree` only because `HandInv` says a request is out, and `HandInv`
holds because `Agree` ties what is registered, hence what epoll reports, to the
balance. There is a lemma for each action (`StayWork`, `TurnWork` and
`PeerWork` hold what they share). `NoneDropped` follows from `Working` and
`NoneLost`: a connection that is registered to write has an empty buffer, so none is
`Interrupted`. `Implements` maps each step of the loop to a step of `LoadGen` or to
none.

**RecvBuffer_proofs.** `Types`, `AlwaysRoom`, `NothingMixed`, `Growth`,
`NothingDropped`. The invariant is
`IInv`: the room is never zero outside `exit`, which needs that the buffer is
doubled in the same step that fills it; and the sum of what is kept, read, queued
and unsent is the length, which is why a buffer that doubles was filled by a response
at least half as long. `NothingDropped` is an action property that follows from it.

**Stats_proofs.** `InBounds` and `Bounded`, from `ArrayInv`: less than half of the
array is used wherever a cell is written, the block written is the one allocated,
and the array is not more than four times what it holds. "Less than half" is the
part that is needed: the memset clears `capacity - size` bytes, not cells, and
stays inside only with that room. SIGINT is part of the statement: the invariant
speaks of the array only while the thread is recording. `Types` needs in addition that a cell
is written before it is counted, and counted before the average is taken, whose
divisor it is (`FilledInv`). Two theorems are about a run that
ends by its timer (`~Interrupts`): `AllTimed`, every response counted has its
interval, and `DefinedWithoutInterrupt`, no block is used after it was freed. What
`MCStats_count.cfg` and `stats_interrupt` refute is due to CTRL+C alone.
`Tallied` is `CountsAgree` for any number of responses and any set of codes: in
`TallyInv` the sum of the counts is the number of responses begun, and an interval
is missing exactly between the count of its response and the cell written for it.
`TrueSummary` is `SummaryIsTrue` for runs shorter than 2^31 microseconds
(`MaxNow < INT_MAX`); `MCStats_sorted.cfg` and `MCStats_duration.cfg` show what
happens in longer ones. `FigureInv` says that the running maximum, minimum and
average are those of the intervals recorded so far, `ReportInv` what each printed
group has made of them; the order of the array is used only where qsort has made it,
and `compare` orders the values because their differences fit an `int`.

**HttpParser_proofs.** First `Types`, `Asserts`, `Status`, `Lengths`, from
`ParserInv == TypeOK /\ StateInv`. `StateInv` says what each state knows: in a
state of a chunk the flag is set, a length being counted down is neither 0 nor
"none", the count of header bytes is 1 at the first digit of a chunk's size. The
proof has a lemma per case of the switch, for any character, so the theorems hold
whatever a server sends and however it is cut. `Asserts` is about every assert that
a response can reach; those on the marks (http_parser.c:2077) and on the header state
(1436) need `MarkInv` besides: a state has at most its own mark, since each data
callback comes in the step that leaves the state of its data, or, for the body, the
next, and `s_header_field` has none but the states of names. `Lengths` rests on arithmetic: the
test against `(MaxLength - base) \div base` comes after the multiplication but
before the length is stored.

Then `Position` (`FrameInv`), `Framed` (`FramesAsSent`) and `Reported`
(`ReportsAsSent`), for every set of responses that satisfies `ResponsesAssumption`:
heads, bodies, chunks and trailers of any number and length within `MaxHeader` and
`MaxLength`, cut anywhere. That a response is over at its last byte cannot be shown
from what the parser knows at the end of it, since each of the 26 states depends on
bytes long gone; so the invariant follows the parser through the wire. `FrameInv` is
`Followed`, the place and what is known there, or that the response is over, or that
it was given up in the body of an upgrade; and `Fresh`, that the next request finds
the parser as it was at first. A character in the middle of a line changes only
`AtLine`, which is shown once per kind of line (`l.number` for the digits of a length
and of a chunk size; the count-down of a body; a header that is folded or empty, and
whose flag is set only when the next character tells that it is over). The last
character of a line leads to the start of the next and adds to `Knows`: the flags
of the headers read, the length, the count of bytes. Behind the empty line
`BodyIsRight` and `HasBody`, `EndsHere` of the code must agree. The rest of `Next`
moves no place: a byte arrives, a call ends (`Receive`), a request goes out. A stray
character ends what is said of this response. That places are reached one by one
replaces the induction over the wire that the provers cannot do: the length of the
wire enters only by `from`, the place each line begins, and `InOrder` says of each line
that it ends inside the wire.

**Url_proofs.** What the steps of `parse_url` preserve, in three layers.
`UrlInv`: the fields lie inside what has been scanned. It says what each state of
the scanner knows: which field the last character belonged to, that this field ends
where the scan is, and, in the host part, that `limit` is inside the URL. The host
field is the hard one: it is extended over user information and port, reset, and
filled again from its own offset.
`Spans`: the fields follow each other, with the marks read between them, for any
characters at all. `RestSpan` says it of what is behind the host part, `HostSpan`
of user information, host and port, with `at` and `v` for whether there was an `@`
and a bracket; the first scanner leaves the host part as one field, from which the
second starts again. At the end nothing is left between the fields, which is
`SpelledAsRead`.
`ReadInv`: if the URL was written from parts `w`, everything the scanners do is
known beforehand. `From(w, f)` and `To(w, f)` say where each part stands, `Layout`
that it stands there (`GivenLayout`, which shows that `REGEX_URL_SCHEME` finds a
scheme just when one was written), `ScanAt(w, n)` and `HostAt(w, n)` in which state
each scanner is behind `n` characters. `ScanGoes` and `HostGoes` show that the
tables `parse_url_char` and `http_parse_host_char` lead from each such state to the
next, on the character that stands there; `ScanTakes` and `HostTakes` that the
character then goes to the field of its part, and begins it where the part begins. So
the lengths are those of the parts at the end of each scan, and no scan is rejected.
`Fits` is what the theorem asks of `w`; that a fragment may not come right after the
host is a restriction of the scanner (http_parser.c:539-558 has no `#` there).

**Request_proofs.** The invariants of `Url_proofs` through the whole of `main`:
`Inside` (`FieldsInside`), `SpelledOut` (`SpelledAsRead`) and `WrittenIsRead`
(`FieldsAsWritten`), for URLs of any length over any alphabet.
Then the options, for any number of them in any order. `OptionsInv` says that what
the request has of each kind of option is what the last of that kind said, where
`-b`, `-d` and `-f` share the body and its length, and `PortInv` the same of the
port until the URL gives one, whose digits `NumberOfPrefix` bounds by the value
`HostEnd` has tested. With `RecordOK`, the widths of the numbers, they give
`Types`, `LengthIsSize` (`BodyIsDeclared`), `BodyIsLast` (`BodyAsAsked`) and
`HostOnce` (`OneHost`). `LoopInv` follows what the event loop is handed to the end of
`parse_opt`, for `LoopGetsLast`. The request line and the port take what they have
from the URL and the options both: `LineIsAsked` (`LineAsAsked`) and `PortIsAsked`
(`PortAsAsked`) use `WrittenIsRead`.

**FoldTheorems.** Induction over finite sets and over the length of a sequence, for
the folds of the community modules that `Stats`, `Url` and `Request` use. The
provers cannot instantiate a theorem that has an operator as parameter, so a
property is given as the set of what has it, and the least set (or number) outside
of it is found by `WFMin`. A fold is then one function on the subsets of its domain
(`IsFold`), whose value for a sum does not depend on the order of the choices
(`IsSum`): a sum grows by one when one of its terms does, and the sum of a sequence by
its last element.

Only model-checked: the liveness of `EventLoop` (`EveryRequestEnds`,
`EveryConnectionSends`, `DurationEndsRun`), which is outside what TLAPS proves.
Every other property of a passing run is a theorem.

To repeat: `tlc -config MCHashConn.cfg MCHashConn` and so on, `tlapm HashConn_proofs.tla`
and so on.

## Limits

Not modelled, and why:

- kqueue (ev.c:171-320): this branch calls functions with arguments that
  networking.h does not declare, and does not compile.
- the request side of http_parser.c, CONNECT, pausing and introspection: the program
  parses responses only.
- base64.c, tv_queue.c, `urlencode` and `urldecode`, the heap of timer.c: called by
  nothing. The carry of `timer_set_interval` cannot happen: its only call asks for
  whole seconds.
- screen, capture, exception, version: output and macros. The patterns given to
  regex_util.c are operators of `Url` and `Request`.
- debug printers, `ev_del_timer`, the blocking connects: called by nothing.

What the models leave out inside modelled parts:

- `HttpResponse` counts as correct responses neither those that end with the
  connection (they are lost, see `loop_closing`), nor 304 or 204 with a
  Content-Length (the parser waits for a body: the program has no
  on_headers_complete), nor transfer codings other than chunked. `ReportsAsSent` leaves
  out responses that ask for an upgrade and have a body, where the verdict depends on
  the cut (networking.c:89).
- the head of a request beyond its start line, Host and Content-Length: its other
  headers are fixed texts. A command line is far shorter than the 1 GiB of the
  request buffer, so that only a file can fill it.
- getopt(3) with POSIXLY_CORRECT, where options end at the URL.
- memory exhaustion other than the overflow of the receive buffer.
- values of double beyond exact fractions; clock steps.
- the errors of a version cut short, STRICT or INVALID_VERSION inside `HTTP/1.1 `, are
  INVALID_CONSTANT at its first byte; what `recieve_response` makes of the two differs
  (networking.c:93) and is the hazard at that line.
- a signal inside `EventLoop` ends it at once; what the handler does then is in
  `Stats`.
