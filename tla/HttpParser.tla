------------------------------ MODULE HttpParser ------------------------------
(***************************************************************************)
(* http_parser_execute (http_parser.c) on one HTTP response, and what      *)
(* recieve_response (networking.c) makes of it.  There is one action per   *)
(* case of the parser's switch.  A character stands for a byte or a word,  *)
(* as in HttpResponse.                                                     *)
(*                                                                         *)
(* Each call of recieve_response parses the whole buffer again with a      *)
(* fresh copy of the connection's parser, so what it finds is a function   *)
(* of the bytes received so far: the variables hold that copy after those  *)
(* bytes, and Receive, which may come between any two bytes, is the call.  *)
(***************************************************************************)
EXTENDS HttpResponse

CONSTANTS Noise, MaxStray   \* bound: stray characters in a response

ASSUME ServerAssumption == Noise \subseteq Char /\ MaxStray \in Nat

NoCode == -1
StatusMap == 0 .. 1023  \* the indices of g_status_code_map

NoResponse == [code |-> NoCode, upgrade |-> FALSE]

VARIABLES state, header_state, flags, content_length,  \* the struct http_parser
          status_code, nread, http_errno, upgrade,
          ch,        \* the byte the switch looks at
          marks,     \* the marks set: the data whose callback is still to come
          nparsed,   \* bytes parsed: 0, or 1 for any other number
          counted,   \* the status counted for this response, or NoCode
          response,  \* what the server is sending, but its wire
          todo,      \* the part of its wire still to come
          stray,     \* characters sent in this response that are not its own
          outcome    \* of the last call: "bytes", "RECV_NEXT", "RECV_ERROR";
                     \* "none" when bytes have come since, "closed" without a call

server == <<response, todo, stray>>
parser == <<state, header_state, flags, content_length, status_code, nread,
            http_errno, upgrade>>
vars == <<state, header_state, flags, content_length, status_code, nread, http_errno,
          upgrade, ch, marks, nparsed, counted, response, todo, stray, outcome>>

Flags == {"CHUNKED", "KEEP_ALIVE", "CLOSE", "CONNECTION_UPGRADE", "UPGRADE", "TRAILING"}

ChunkSizeStates == {"s_chunk_size_start", "s_chunk_size", "s_chunk_parameters",
                    "s_chunk_size_almost_done"}
ChunkStates == ChunkSizeStates \cup {"s_chunk_data", "s_chunk_data_almost_done",
                                     "s_chunk_data_done"}

\* PARSING_HEADER
HeadStates ==
  {"s_start_res", "s_res_first_status_code", "s_res_status_code", "s_res_status",
   "s_res_line_almost_done", "s_header_field_start", "s_header_field",
   "s_header_value_discard_ws", "s_header_value_discard_ws_almost_done",
   "s_header_value_discard_lws", "s_header_value_start", "s_header_value",
   "s_header_value_lws", "s_header_almost_done", "s_headers_almost_done",
   "s_headers_done"} \cup ChunkSizeStates
States == HeadStates \cup ChunkStates
          \cup {"s_body_identity", "s_body_identity_eof", "s_message_done"}

\* What the switch of s_header_field knows, but for the prefixes of the four names.
FieldStates == {"h_general", "h_connection", "h_content_length", "h_transfer_encoding",
                "h_upgrade"}

HeaderStates ==
  {"h_general", "h_connection", "h_content_length", "h_transfer_encoding", "h_upgrade",
   "h_matching_connection_token_start", "h_matching_connection_token",
   "h_transfer_encoding_chunked", "h_connection_keep_alive", "h_connection_close",
   "h_connection_upgrade"}

Init ==
  /\ state = "s_start_res" /\ header_state = "h_general" /\ flags = {}
  /\ content_length = 0 /\ status_code = 0 /\ nread = 0
  /\ http_errno = "OK" /\ upgrade = FALSE
  /\ ch = NoChar /\ marks = {} /\ nparsed = 0
  /\ counted = NoCode /\ outcome = "RECV_NEXT"
  /\ response = NoResponse /\ todo = <<>> /\ stray = 0

\* http_parser_init(.., HTTP_RESPONSE), then the error e.
Reset(e) ==
  /\ state' = "s_start_res" /\ header_state' = "h_general" /\ flags' = {}
  /\ content_length' = 0 /\ status_code' = 0 /\ nread' = 0
  /\ http_errno' = e /\ upgrade' = FALSE

-----------------------------------------------------------------------------
(* How a case of the switch ends.                                          *)

In(s) == ch # NoChar /\ state = s

\* break: on to the next byte, in state s
Take(s) ==
  state' = s /\ ch' = NoChar /\ nparsed' = 1 /\ UNCHANGED <<http_errno, counted>>

\* REEXECUTE: the same byte in state s
Again(s) == state' = s /\ UNCHANGED <<ch, nparsed, http_errno, counted>>

\* goto error
Error(e) == http_errno' = e /\ ch' = NoChar /\ UNCHANGED <<state, nparsed, counted>>

Number(digit) == Value[digit]

\* STRICT_CHECK(ch != c), then on to s
Expect(c, s) == \/ ch = c /\ Take(s)
                \/ ch # c /\ Error("STRICT")

\* message_complete, which is response_complete: the parser starts over and stops.
Complete ==
  /\ counted' = status_code
  /\ Reset("CB_message_complete")
  /\ ch' = NoChar /\ nparsed' = 1

-----------------------------------------------------------------------------
(* The status line.                                                        *)

StartRes ==
  /\ In("s_start_res")
  /\ flags' = {} /\ content_length' = NoLength
  /\ \/ ch = "version" /\ Take("s_res_first_status_code")
     \/ ch \in {"CR", "LF"} /\ Take(state)
     \/ ch \notin {"version", "CR", "LF"} /\ Error("INVALID_CONSTANT")
  /\ UNCHANGED <<header_state, status_code, nread, upgrade>>

FirstStatusCode ==
  /\ In("s_res_first_status_code")
  /\ \/ ch \in Digit /\ status_code' = Number(ch) /\ Take("s_res_status_code")
     \/ ch = "SP" /\ Take(state) /\ UNCHANGED status_code
     \/ ch \notin Digit \cup {"SP"} /\ Error("INVALID_STATUS") /\ UNCHANGED status_code
  /\ UNCHANGED <<header_state, flags, content_length, nread, upgrade>>

StatusDigit(limit) ==
  /\ ch \in Digit
  /\ status_code' = 10 * status_code + Number(ch)
  /\ \/ status_code' <= limit /\ Take(state)
     \/ status_code' > limit /\ Error("INVALID_STATUS")

EndOfCode ==
  /\ \/ ch = "SP" /\ Take("s_res_status")
     \/ ch = "CR" /\ Take("s_res_line_almost_done")
     \/ ch = "LF" /\ Take("s_header_field_start")
     \/ ch \notin Digit \cup {"SP", "CR", "LF"} /\ Error("INVALID_STATUS")
  /\ UNCHANGED status_code

\* Mutant: the code may have a fourth digit.
StatusCode_long ==
  /\ In("s_res_status_code")
  /\ StatusDigit(9999) \/ EndOfCode
  /\ UNCHANGED <<header_state, flags, content_length, nread, upgrade>>

StatusCode ==
  /\ In("s_res_status_code")
  /\ StatusDigit(999) \/ EndOfCode
  /\ UNCHANGED <<header_state, flags, content_length, nread, upgrade>>

\* s_res_status_start and s_res_status
StatusText ==
  /\ In("s_res_status")
  /\ \/ ch = "CR" /\ Take("s_res_line_almost_done")
     \/ ch = "LF" /\ Take("s_header_field_start")
     \/ ch \notin {"CR", "LF"} /\ Take(state)
  /\ UNCHANGED <<header_state, flags, content_length, status_code, nread, upgrade>>

LineAlmostDone ==
  /\ In("s_res_line_almost_done") /\ Expect("LF", "s_header_field_start")
  /\ UNCHANGED <<header_state, flags, content_length, status_code, nread, upgrade>>

-----------------------------------------------------------------------------
(* Headers, and the trailers of a chunked body.                            *)

FieldState(name) ==
  CASE name \in {"connection", "proxy-connection"} -> "h_connection"
    [] name = "content-length" -> "h_content_length"
    [] name = "transfer-encoding" -> "h_transfer_encoding"
    [] name = "upgrade" -> "h_upgrade"
    [] OTHER -> "h_general"

HeaderFieldStart ==
  /\ In("s_header_field_start")
  /\ \/ /\ ch \in Token
        /\ header_state' = FieldState(ch) /\ Take("s_header_field")
     \/ /\ \/ ch = "CR" /\ Take("s_headers_almost_done")
           \/ ch = "LF" /\ Again("s_headers_almost_done")
           \/ ch \notin Token \cup {"CR", "LF"} /\ Error("INVALID_HEADER_TOKEN")
        /\ UNCHANGED header_state
  /\ UNCHANGED <<flags, content_length, status_code, nread, upgrade>>

HeaderField ==
  /\ In("s_header_field")
  /\ \/ ch \in Token /\ header_state' = "h_general" /\ Take(state)
     \/ /\ \/ ch = ":" /\ Take("s_header_value_discard_ws")
           \/ ch \notin Token \cup {":"} /\ Error("INVALID_HEADER_TOKEN")
        /\ UNCHANGED header_state
  /\ UNCHANGED <<flags, content_length, status_code, nread, upgrade>>

ValueDiscardWs ==
  /\ In("s_header_value_discard_ws")
  /\ \/ ch = "SP" /\ Take(state)
     \/ ch = "CR" /\ Take("s_header_value_discard_ws_almost_done")
     \/ ch = "LF" /\ Take("s_header_value_discard_lws")
     \/ ch \notin {"SP", "CR", "LF"} /\ Again("s_header_value_start")
  /\ UNCHANGED <<header_state, flags, content_length, status_code, nread, upgrade>>

\* A word of a Connection header.
ConnectionState(word) ==
  CASE word = "keep-alive" -> "h_connection_keep_alive"
    [] word = "close" -> "h_connection_close"
    [] word = "upgrade" -> "h_connection_upgrade"
    [] OTHER -> "h_matching_connection_token"

\* The header state after the first character of a value.
FirstOfValue ==
  CASE header_state = "h_connection" -> ConnectionState(ch)
    [] header_state = "h_transfer_encoding" /\ ch = "chunked" -> "h_transfer_encoding_chunked"
    [] header_state \in {"h_content_length", "h_matching_connection_token_start"} -> header_state
    [] OTHER -> "h_general"

ValueStart ==
  /\ In("s_header_value_start")
  /\ header_state' = FirstOfValue
  /\ flags' = flags \cup IF header_state = "h_upgrade" THEN {"UPGRADE"} ELSE {}
  /\ \/ /\ header_state = "h_content_length" /\ ch \in Digit
        /\ content_length' = Number(ch) /\ Take("s_header_value")
     \/ /\ header_state = "h_content_length" /\ ch \notin Digit
        /\ Error("INVALID_CONTENT_LENGTH") /\ UNCHANGED content_length
     \/ /\ header_state # "h_content_length"
        /\ Take("s_header_value") /\ UNCHANGED content_length
  /\ UNCHANGED <<status_code, nread, upgrade>>

\* The flag a finished value leaves behind.
Flag ==
  CASE header_state = "h_connection_keep_alive" -> {"KEEP_ALIVE"}
    [] header_state = "h_connection_close" -> {"CLOSE"}
    [] header_state = "h_connection_upgrade" -> {"CONNECTION_UPGRADE"}
    [] header_state = "h_transfer_encoding_chunked" -> {"CHUNKED"}
    [] OTHER -> {}

ConnectionWords == {"h_connection_keep_alive", "h_connection_close", "h_connection_upgrade"}

\* The header state after a further character of a value.
RestOfValue ==
  CASE header_state = "h_matching_connection_token_start" ->
         (IF ch \in Token \cup {"version"} THEN ConnectionState(ch)
          ELSE IF ch = "SP" THEN header_state ELSE "h_general")
    [] header_state \in ConnectionWords \cup {"h_matching_connection_token"} /\ ch = "," ->
         "h_matching_connection_token_start"
    [] header_state \in ConnectionWords /\ ch \notin {"SP", ","} -> "h_matching_connection_token"
    [] header_state = "h_transfer_encoding_chunked" /\ ch # "SP" -> "h_general"
    [] OTHER -> header_state

\* One more digit, if the length is not near the limit of an uint64_t.
Wrap(n) == n % (MaxLength + 1)
NearLimit(base) == (MaxLength - base) \div base < content_length

NextDigit(base) ==
  content_length' = Wrap(base * content_length + Number(ch)) /\ Take(state)

LengthDigit(base) ==
  \/ NearLimit(base) /\ Error("INVALID_CONTENT_LENGTH") /\ UNCHANGED content_length
  \/ ~NearLimit(base) /\ NextDigit(base)

HeaderValue ==
  /\ In("s_header_value")
  /\ \/ /\ \/ ch = "CR" /\ Take("s_header_almost_done")
           \/ ch = "LF" /\ Again("s_header_almost_done")
        /\ UNCHANGED <<header_state, flags, content_length>>
     \/ /\ header_state = "h_content_length"
        /\ \/ ch \in Digit /\ LengthDigit(10)
           \/ ch = "SP" /\ Take(state) /\ UNCHANGED content_length
           \/ /\ ch \notin Digit \cup {"SP", "CR", "LF"}
              /\ Error("INVALID_CONTENT_LENGTH") /\ UNCHANGED content_length
        /\ UNCHANGED <<header_state, flags>>
     \/ /\ header_state # "h_content_length" /\ ch \notin {"CR", "LF"}
        /\ header_state' = RestOfValue
        /\ flags' = flags \cup IF header_state \in ConnectionWords /\ ch = "," THEN Flag ELSE {}
        /\ Take(state) /\ UNCHANGED content_length
  /\ UNCHANGED <<status_code, nread, upgrade>>

HeaderAlmostDone ==
  /\ In("s_header_almost_done") /\ Expect("LF", "s_header_value_lws")
  /\ UNCHANGED <<header_state, flags, content_length, status_code, nread, upgrade>>

\* Mutant: a line ends its header even if the next one goes on with it.
ValueLws_unfolded ==
  /\ In("s_header_value_lws")
  /\ flags' = flags \cup Flag /\ Again("s_header_field_start")
  /\ UNCHANGED <<header_state, content_length, status_code, nread, upgrade>>

ValueLws ==
  /\ In("s_header_value_lws")
  /\ \/ ch = "SP" /\ Again("s_header_value_start") /\ UNCHANGED flags
     \/ ch # "SP" /\ Again("s_header_field_start") /\ flags' = flags \cup Flag
  /\ UNCHANGED <<header_state, content_length, status_code, nread, upgrade>>

DiscardWsAlmostDone ==
  /\ In("s_header_value_discard_ws_almost_done") /\ Expect("LF", "s_header_value_discard_lws")
  /\ UNCHANGED <<header_state, flags, content_length, status_code, nread, upgrade>>

DiscardLws ==
  /\ In("s_header_value_discard_lws")
  /\ \/ ch = "SP" /\ Take("s_header_value_discard_ws") /\ UNCHANGED flags
     \/ ch # "SP" /\ Again("s_header_field_start") /\ flags' = flags \cup Flag
  /\ UNCHANGED <<header_state, content_length, status_code, nread, upgrade>>

-----------------------------------------------------------------------------
(* The end of the head decides how the body ends.                          *)

HeadersAlmostDone ==
  /\ In("s_headers_almost_done")
  /\ \/ ch # "LF" /\ Error("STRICT") /\ UNCHANGED upgrade
     \/ /\ ch = "LF" /\ "TRAILING" \in flags
        /\ Again("s_message_done") /\ UNCHANGED upgrade
     \/ /\ ch = "LF" /\ "TRAILING" \notin flags
        /\ upgrade' = ({"UPGRADE", "CONNECTION_UPGRADE"} \subseteq flags)
        /\ Again("s_headers_done")
  /\ UNCHANGED <<header_state, flags, content_length, status_code, nread>>

\* http_message_needs_eof
NeedsEof ==
  /\ status_code \div 100 # 1
  /\ status_code \notin {204, 304}
  /\ "CHUNKED" \notin flags
  /\ content_length = NoLength

HasBody == "CHUNKED" \in flags \/ content_length \notin {0, NoLength}

EndsHere == ~HasBody /\ (upgrade \/ ~NeedsEof)

BodyState == IF "CHUNKED" \in flags THEN "s_chunk_size_start"
             ELSE IF HasBody THEN "s_body_identity"
             ELSE "s_body_identity_eof"

HeadersDone ==
  /\ In("s_headers_done")
  /\ \/ EndsHere /\ Complete
     \/ /\ ~EndsHere /\ Take(BodyState)
        /\ nread' = 0
        /\ UNCHANGED <<header_state, flags, content_length, status_code, upgrade>>

\* Mutant: one byte short.
BodyIdentity_short ==
  /\ In("s_body_identity")
  /\ content_length' = content_length - 1
  /\ \/ content_length' <= 1 /\ Again("s_message_done")
     \/ content_length' > 1 /\ Take(state)
  /\ UNCHANGED <<header_state, flags, status_code, nread, upgrade>>

BodyIdentity ==
  /\ In("s_body_identity")
  /\ content_length' = content_length - 1
  /\ \/ content_length' = 0 /\ Again("s_message_done")
     \/ content_length' # 0 /\ Take(state)
  /\ UNCHANGED <<header_state, flags, status_code, nread, upgrade>>

BodyIdentityEof ==
  /\ In("s_body_identity_eof") /\ Take(state)
  /\ UNCHANGED <<header_state, flags, content_length, status_code, nread, upgrade>>

MessageDone == In("s_message_done") /\ Complete

-----------------------------------------------------------------------------
(* Chunks.                                                                 *)

ChunkSizeStart ==
  /\ In("s_chunk_size_start")
  /\ \/ ch \in HexDigit /\ content_length' = Number(ch) /\ Take("s_chunk_size")
     \/ ch \notin HexDigit /\ Error("INVALID_CHUNK_SIZE") /\ UNCHANGED content_length
  /\ UNCHANGED <<header_state, flags, status_code, nread, upgrade>>

EndOfSize ==
  /\ \/ ch = "CR" /\ Take("s_chunk_size_almost_done")
     \/ ch \in {";", "SP"} /\ Take("s_chunk_parameters")
     \/ ch \notin HexDigit \cup {"CR", ";", "SP"} /\ Error("INVALID_CHUNK_SIZE")
  /\ UNCHANGED content_length

\* Mutant: the size may overflow.
ChunkSize_unchecked ==
  /\ In("s_chunk_size")
  /\ \/ ch \in HexDigit /\ NextDigit(16)
     \/ EndOfSize
  /\ UNCHANGED <<header_state, flags, status_code, nread, upgrade>>

ChunkSize ==
  /\ In("s_chunk_size")
  /\ \/ ch \in HexDigit /\ LengthDigit(16)
     \/ EndOfSize
  /\ UNCHANGED <<header_state, flags, status_code, nread, upgrade>>

ChunkParameters ==
  /\ In("s_chunk_parameters")
  /\ \/ ch = "CR" /\ Take("s_chunk_size_almost_done")
     \/ ch # "CR" /\ Take(state)
  /\ UNCHANGED <<header_state, flags, content_length, status_code, nread, upgrade>>

ChunkSizeAlmostDone ==
  /\ In("s_chunk_size_almost_done")
  /\ \/ ch # "LF" /\ Error("STRICT") /\ UNCHANGED <<flags, nread>>
     \/ /\ ch = "LF" /\ nread' = 0
        /\ \/ /\ content_length = 0
              /\ flags' = flags \cup {"TRAILING"} /\ Take("s_header_field_start")
           \/ content_length # 0 /\ Take("s_chunk_data") /\ UNCHANGED flags
  /\ UNCHANGED <<header_state, content_length, status_code, upgrade>>

\* Mutant: the end of the data is not noticed.
ChunkData_past ==
  /\ In("s_chunk_data")
  /\ content_length' = content_length - 1 /\ Take(state)
  /\ UNCHANGED <<header_state, flags, status_code, nread, upgrade>>

ChunkData ==
  /\ In("s_chunk_data")
  /\ content_length' = content_length - 1
  /\ \/ content_length' = 0 /\ Take("s_chunk_data_almost_done")
     \/ content_length' # 0 /\ Take(state)
  /\ UNCHANGED <<header_state, flags, status_code, nread, upgrade>>

ChunkDataAlmostDone ==
  /\ In("s_chunk_data_almost_done") /\ Expect("CR", "s_chunk_data_done")
  /\ UNCHANGED <<header_state, flags, content_length, status_code, nread, upgrade>>

ChunkDataDone ==
  /\ In("s_chunk_data_done")
  /\ \/ ch # "LF" /\ Error("STRICT") /\ UNCHANGED nread
     \/ ch = "LF" /\ nread' = 0 /\ Take("s_chunk_size_start")
  /\ UNCHANGED <<header_state, flags, content_length, status_code, upgrade>>

-----------------------------------------------------------------------------
(* MARK and CALLBACK_DATA.  The marks are variables of the call; they begin *)
(* unset, and as every call parses the whole buffer, none is set before it. *)

Opened ==
  CASE state = "s_header_field_start" /\ ch \in Token -> {"header_field"}
    [] state = "s_header_value_start" -> {"header_value"}
    [] state = "s_res_status" /\ ch \notin {"CR", "LF"} -> {"status"}
    [] state \in {"s_body_identity", "s_body_identity_eof", "s_chunk_data"} -> {"body"}
    [] OTHER -> {}

Closed ==
  CASE state = "s_header_field" /\ ch = ":" -> {"header_field"}
    [] state = "s_header_value" /\ ch \in {"CR", "LF"} -> {"header_value"}
    [] state = "s_res_status" /\ ch \in {"CR", "LF"} -> {"status"}
    [] state = "s_body_identity" /\ content_length = 1 -> {"body"}
    [] state = "s_chunk_data_almost_done" /\ ch = "CR" -> {"body"}
    [] OTHER -> {}

\* Mutant: the body of a chunk is not handed over at its end.
MarksAfter_kept ==
  (marks \cup Opened) \ IF state = "s_chunk_data_almost_done" THEN {} ELSE Closed

MarksAfter == (marks \cup Opened) \ Closed

Switch ==
  /\ \/ StartRes \/ FirstStatusCode \/ StatusCode \/ StatusText \/ LineAlmostDone
     \/ HeaderFieldStart \/ HeaderField \/ ValueDiscardWs \/ ValueStart \/ HeaderValue
     \/ HeaderAlmostDone \/ ValueLws \/ DiscardWsAlmostDone \/ DiscardLws
     \/ HeadersAlmostDone \/ HeadersDone \/ BodyIdentity \/ BodyIdentityEof \/ MessageDone
     \/ ChunkSizeStart \/ ChunkSize \/ ChunkParameters \/ ChunkSizeAlmostDone
     \/ ChunkData \/ ChunkDataAlmostDone \/ ChunkDataDone
  /\ marks' = MarksAfter
  /\ UNCHANGED <<server, outcome>>

-----------------------------------------------------------------------------
(* The connection.                                                         *)

\* The server answers the request.
Answer ==
  /\ outcome \in {"RECV_NEXT", "RECV_ERROR", "closed"}
  /\ \E r \in Responses :
       response' = [code |-> r.code, upgrade |-> r.upgrade] /\ todo' = r.wire
  /\ stray' = 0
  /\ outcome' = "bytes"
  /\ counted' = NoCode
  /\ UNCHANGED <<parser, ch, marks, nparsed>>

\* The next byte, and COUNT_HEADER_SIZE for it.
Byte(c) ==
  /\ nread' = nread + IF state \in HeadStates THEN 1 ELSE 0
  /\ \/ nread' <= MaxHeader /\ ch' = c /\ UNCHANGED http_errno
     \/ nread' > MaxHeader /\ ch' = NoChar /\ http_errno' = "HEADER_OVERFLOW"
  /\ UNCHANGED <<state, header_state, flags, content_length, status_code, upgrade>>

Listening == ch = NoChar /\ outcome \in {"bytes", "none"}

Arrive ==
  /\ Listening /\ http_errno = "OK" /\ todo # <<>>
  /\ todo' = Tail(todo)
  /\ \E c \in IF Head(todo) = AnyChar THEN Noise ELSE {Head(todo)} : Byte(c)
  /\ outcome' = "none"
  /\ UNCHANGED <<marks, nparsed, counted, response, stray>>

\* A character that is not the response's, put in or in the place of one.
Stray ==
  /\ Listening /\ http_errno = "OK" /\ stray < MaxStray
  /\ stray' = stray + 1
  /\ todo' \in {todo} \cup {Tail(t) : t \in {todo} \ {<<>>}}
  /\ \E c \in Noise : Byte(c)
  /\ outcome' = "none"
  /\ UNCHANGED <<marks, nparsed, counted, response>>

\* Bytes the parser will not look at: it has stopped before them.
ArriveUnread ==
  /\ Listening /\ http_errno # "OK" /\ todo # <<>>
  /\ todo' = Tail(todo)
  /\ outcome' = "none"
  /\ UNCHANGED <<parser, ch, marks, nparsed, counted, response, stray>>

\* recieve_response has the bytes parsed.
Verdict == IF upgrade \/ nparsed = 0 THEN "RECV_ERROR"
           ELSE IF http_errno = "CB_message_complete" THEN "RECV_NEXT"
           ELSE "bytes"

Receive ==
  /\ ch = NoChar /\ outcome = "none"
  /\ outcome' = Verdict
  /\ \/ Verdict = "bytes" /\ UNCHANGED <<parser, marks, nparsed>>
     \/ Verdict # "bytes" /\ Reset("OK") /\ marks' = {} /\ nparsed' = 0
  /\ UNCHANGED <<ch, counted, server>>

\* The server has sent all it has and closes; the connection is made anew.
Close ==
  /\ outcome = "bytes" /\ ch = NoChar /\ todo = <<>>
  /\ Reset("OK") /\ marks' = {} /\ nparsed' = 0
  /\ outcome' = "closed"
  /\ UNCHANGED <<ch, counted, server>>

Next == Switch \/ Answer \/ Arrive \/ Stray \/ ArriveUnread \/ Receive \/ Close

Spec == Init /\ [][Next]_vars

-----------------------------------------------------------------------------
(* Properties.                                                             *)

Errors == {"OK", "INVALID_CONSTANT", "INVALID_STATUS", "STRICT", "INVALID_HEADER_TOKEN",
           "INVALID_CONTENT_LENGTH", "INVALID_CHUNK_SIZE", "HEADER_OVERFLOW",
           "CB_message_complete"}

CodeMax == 9999  \* one digit more than the code allows

\* Types, and the range of every counter.
TypeOK ==
  /\ state \in States /\ header_state \in HeaderStates /\ flags \subseteq Flags
  /\ content_length \in 0 .. MaxLength
  /\ status_code \in 0 .. CodeMax
  /\ nread \in 0 .. MaxHeader + 1
  /\ http_errno \in Errors /\ upgrade \in BOOLEAN
  /\ ch \in Char \cup {NoChar}
  /\ nparsed \in {0, 1}
  /\ counted \in {NoCode} \cup 0 .. CodeMax
  /\ outcome \in {"none", "bytes", "RECV_NEXT", "RECV_ERROR", "closed"}
  /\ stray \in 0 .. MaxStray

\* A correct response is over exactly at its last byte, wherever the calls of
\* recieve_response split it: never before, when bytes of its body would be read
\* as the next response; never after, when the connection would wait for bytes
\* that do not come; never in an error.  And it is counted under its own status.
FramesAsSent ==
  response # NoResponse /\ stray = 0 /\ ch = NoChar =>
    /\ http_errno \in {"OK", "CB_message_complete"}
    /\ todo = <<>> <=> counted # NoCode
    /\ counted \in {NoCode, response.code}

\* What recieve_response reports for a correct response does not depend on the
\* splits either: more to come until the last byte is there, then the next
\* request.  Responses that ask for an upgrade and have a body are the exception:
\* a call that ends within the body sees upgrade and closes.
ReportsAsSent ==
  response # NoResponse /\ stray = 0 /\ ~response.upgrade =>
    /\ outcome # "RECV_ERROR"
    /\ outcome = "bytes" => todo # <<>>
    /\ outcome = "RECV_NEXT" => todo = <<>>

\* No assert that http_parser_execute can reach in a response fails, whatever the
\* server sends: the error is OK whenever a callback runs (lines 82 and 107), the
\* switches over header_state and state have a case for it (1436, 1582, 2061), the
\* lengths, the flag and the count of header bytes are what the cases of the body
\* rely on (1893 to 2053), and when a call has run out of bytes at most one callback
\* is left over (2077), whether the call ends there or parses on.
AssertionsHold ==
  /\ ch # NoChar =>
       /\ http_errno = "OK"
       /\ state \in States
       /\ state = "s_header_field" => header_state \in FieldStates
       /\ state = "s_header_value" =>
            header_state \notin {"h_connection", "h_transfer_encoding"}
       /\ state = "s_chunk_size_start" => nread = 1
       /\ state \in ChunkStates => "CHUNKED" \in flags
       /\ state \in {"s_body_identity", "s_chunk_data"} =>
            content_length \notin {0, NoLength}
       /\ state = "s_chunk_data_almost_done" => content_length = 0
  /\ ch = NoChar /\ http_errno = "OK" => \A m, n \in marks : m = n

\* What makes TypeOK and AssertionsHold inductive: what each state knows of the
\* length, the flags and the count of header bytes.
StateInv ==
  /\ ch # NoChar => http_errno = "OK"
  /\ http_errno = "OK" => nread <= MaxHeader /\ status_code <= 999
  /\ state = "s_header_value" =>
       header_state \notin {"h_connection", "h_transfer_encoding"}
  /\ state \in ChunkStates => "CHUNKED" \in flags
  /\ state = "s_chunk_size_start" /\ http_errno = "OK" =>
       nread = IF ch = NoChar THEN 0 ELSE 1
  /\ state \in ChunkSizeStates \ {"s_chunk_size_start"} =>
       content_length # NoLength
  /\ state \in {"s_body_identity", "s_chunk_data"} =>
       content_length \notin {0, NoLength}
  /\ state = "s_chunk_data_almost_done" => content_length = 0
  /\ counted <= 999
  /\ todo \in Seq(Char \cup {AnyChar})

ParserInv == TypeOK /\ StateInv

\* The one mark a state may have.
MarksIn(s) ==
  CASE s = "s_header_field" -> {"header_field"}
    [] s = "s_header_value" -> {"header_value"}
    [] s = "s_res_status" -> {"status"}
    [] s \in {"s_body_identity", "s_body_identity_eof", "s_chunk_data",
              "s_chunk_data_almost_done"} -> {"body"}
    [] OTHER -> {}

\* What makes the asserts on the marks and on the header state inductive.
MarkInv ==
  http_errno = "OK" =>
    /\ marks \subseteq MarksIn(state)
    /\ state = "s_header_field" => header_state \in FieldStates

\* Whatever the server sends, the status counted is an index of g_status_code_map.
StatusInMap == counted # NoCode => counted \in StatusMap

\* A digit never makes a length smaller: no length wraps round.
LengthGrows ==
  [][state = state' /\ state \in {"s_header_value", "s_chunk_size"}
       => content_length' >= content_length]_vars
=============================================================================
