--------------------------- MODULE HttpParser_proofs ---------------------------
(***************************************************************************)
(* What holds of HttpParser for every set of digits, every width of        *)
(* content_length, every limit of the head and everything a server sends.  *)
(* ParserInv is proved inductive: one lemma per case of the switch, each   *)
(* with the ranges of TypeOK first and StateInv last.  FrameInv, what the  *)
(* parser knows at each place of a correct response, follows: one lemma    *)
(* per kind of line, then the steps of the server and the calls.           *)
(***************************************************************************)
EXTENDS HttpPosition, TLAPS

\* Members of the sets of names, spelt out for the provers.
LEMMA Names ==
  /\ States = {"s_start_res", "s_res_first_status_code", "s_res_status_code", "s_res_status",
               "s_res_line_almost_done", "s_header_field_start", "s_header_field",
               "s_header_value_discard_ws", "s_header_value_discard_ws_almost_done",
               "s_header_value_discard_lws", "s_header_value_start", "s_header_value",
               "s_header_value_lws", "s_header_almost_done", "s_headers_almost_done",
               "s_headers_done", "s_chunk_size_start", "s_chunk_size", "s_chunk_parameters",
               "s_chunk_size_almost_done", "s_chunk_data", "s_chunk_data_almost_done",
               "s_chunk_data_done", "s_body_identity", "s_body_identity_eof",
               "s_message_done"}
  /\ {"OK", "INVALID_CONSTANT", "INVALID_STATUS", "STRICT", "INVALID_HEADER_TOKEN",
      "INVALID_CONTENT_LENGTH", "INVALID_CHUNK_SIZE", "HEADER_OVERFLOW",
      "CB_message_complete"} \subseteq Errors
  /\ "h_general" \in HeaderStates
  BY DEF States, HeadStates, ChunkStates, ChunkSizeStates, Errors, HeaderStates

LEMMA ConnectionStateType ==
  ASSUME NEW w
  PROVE  ConnectionState(w) \in HeaderStates \ {"h_connection", "h_transfer_encoding"}
  BY DEF ConnectionState, HeaderStates

LEMMA FieldStateType == ASSUME NEW w PROVE FieldState(w) \in HeaderStates
  BY DEF FieldState, HeaderStates

LEMMA FirstOfValueType ==
  FirstOfValue \in HeaderStates \ {"h_connection", "h_transfer_encoding"}
  <1>1. CASE header_state = "h_connection"
    BY <1>1, ConnectionStateType DEF FirstOfValue
  <1>2. CASE header_state # "h_connection"
    BY <1>2 DEF FirstOfValue, HeaderStates
  <1> QED BY <1>1, <1>2

LEMMA RestOfValueType ==
  ASSUME header_state \in HeaderStates \ {"h_connection", "h_transfer_encoding"}
  PROVE  RestOfValue \in HeaderStates \ {"h_connection", "h_transfer_encoding"}
  <1>1. CASE header_state = "h_matching_connection_token_start"
    BY <1>1, ConnectionStateType DEF RestOfValue, HeaderStates
  <1>2. CASE header_state # "h_matching_connection_token_start"
    BY <1>2 DEF RestOfValue, ConnectionWords, HeaderStates
  <1> QED BY <1>1, <1>2

LEMMA FlagType == Flag \subseteq Flags
  BY DEF Flag, Flags

\* What the values of digits are.
LEMMA NumberType ==
  /\ \A d \in HexDigit : Number(d) \in 0 .. 15
  /\ \A d \in Digit : d \in HexDigit /\ Number(d) \in 0 .. 9
  <1>1. ASSUME NEW d \in HexDigit PROVE Number(d) \in 0 .. 15
    BY DigitAssumption DEF Number
  <1>2. ASSUME NEW d \in Digit PROVE d \in HexDigit /\ Number(d) <= 9
    BY DigitAssumption DEF Number
  <1> QED BY <1>1, <1>2

LEMMA Small == ASSUME NEW m \in Nat, NEW x \in 0 .. m PROVE x % (m + 1) = x
  OBVIOUS

\* What the guards of http_parser.c:1602 and 1984 leave room for.
LEMMA Dec ==
  ASSUME NEW m \in Nat, NEW x \in Nat, m >= 16, x <= (m - 10) \div 10
  PROVE  10 * x + 10 <= m
  OBVIOUS

LEMMA Hex ==
  ASSUME NEW m \in Nat, NEW x \in Nat, m >= 16, x <= (m - 16) \div 16
  PROVE  16 * x + 16 <= m
  OBVIOUS

\* A digit let through makes the length longer and leaves it below NoLength.
LEMMA LengthDigitGrows ==
  ASSUME NEW base \in {10, 16}, content_length \in 0 .. MaxLength,
         Number(ch) \in 0 .. base - 1, NextDigit(base), ~NearLimit(base)
  PROVE  content_length' \in content_length .. MaxLength - 1
  <1> DEFINE n == base * content_length + Number(ch)
  <1>1. n \in content_length .. MaxLength - 1
    <2>1. CASE base = 10
      BY <2>1, Dec, SizeAssumption DEF NearLimit
    <2>2. CASE base = 16
      BY <2>2, Hex, SizeAssumption DEF NearLimit
    <2> QED BY <2>1, <2>2
  <1> HIDE DEF n
  <1>2. Wrap(n) = n
    BY <1>1, Small, SizeAssumption DEF Wrap
  <1> QED BY <1>1, <1>2 DEF NextDigit, n

LEMMA StartResKeeps ==
  ASSUME ParserInv, StartRes, UNCHANGED <<server, outcome>>
  PROVE  ParserInv'
  <1>1. state' \in States /\ http_errno' \in Errors
    BY Names DEF StartRes, In, Take, Error, ParserInv, TypeOK
  <1>2. header_state' \in HeaderStates /\ flags' \subseteq Flags
    BY DEF StartRes, ParserInv, TypeOK
  <1>3. /\ content_length' \in 0 .. MaxLength /\ status_code' \in 0 .. CodeMax
        /\ nread' \in 0 .. MaxHeader + 1 /\ upgrade' \in BOOLEAN
    BY SizeAssumption DEF StartRes, In, StateInv, NoLength, ParserInv, TypeOK
  <1>4. /\ ch' \in Char \cup {NoChar} /\ nparsed' \in {0, 1}
        /\ counted' \in {NoCode} \cup 0 .. CodeMax
    BY DEF StartRes, In, Take, Error, ParserInv, TypeOK
  <1>5. TypeOK'
    BY <1>1, <1>2, <1>3, <1>4 DEF ParserInv, TypeOK, server
  <1>6. StateInv'
    BY DEF StartRes, In, Take, Error, ParserInv, TypeOK, StateInv,
           ChunkStates, ChunkSizeStates, server, NoLength
  <1> QED BY <1>5, <1>6 DEF ParserInv

LEMMA FirstStatusCodeKeeps ==
  ASSUME ParserInv, FirstStatusCode, UNCHANGED <<server, outcome>>
  PROVE  ParserInv'
  <1>1. state' \in States /\ http_errno' \in Errors
    BY Names DEF FirstStatusCode, In, Take, Error, ParserInv, TypeOK
  <1>2. header_state' \in HeaderStates /\ flags' \subseteq Flags
    BY DEF FirstStatusCode, ParserInv, TypeOK
  <1>3. /\ content_length' \in 0 .. MaxLength /\ nread' \in 0 .. MaxHeader + 1
        /\ upgrade' \in BOOLEAN
    BY DEF FirstStatusCode, ParserInv, TypeOK
  <1>4. status_code' = status_code \/ (ch \in Digit /\ status_code' = Number(ch))
    BY DEF FirstStatusCode
  <1>5. status_code' \in 0 .. CodeMax
    <2>1. status_code \in 0 .. CodeMax
      BY DEF ParserInv, TypeOK
    <2>2. CASE status_code' = status_code
      BY <2>1, <2>2
    <2>3. CASE ch \in Digit /\ status_code' = Number(ch)
      <3>1. \E n \in 0 .. 9 : status_code' = n
        BY <2>3, NumberType, Zenon
      <3> QED BY <3>1 DEF CodeMax
    <2> QED BY <1>4, <2>2, <2>3
  <1>6. ch' \in Char \cup {NoChar} /\ nparsed' \in {0, 1} /\ counted' \in {NoCode} \cup 0 .. CodeMax
    BY DEF FirstStatusCode, In, Take, Error, ParserInv, TypeOK
  <1>7. TypeOK'
    BY <1>1, <1>2, <1>3, <1>5, <1>6 DEF ParserInv, TypeOK, server
  <1>8. StateInv'
    BY NumberType DEF FirstStatusCode, In, Take, Error, ParserInv, TypeOK, StateInv, ChunkStates,
                      ChunkSizeStates, server, NoLength, NoCode
  <1> QED BY <1>7, <1>8 DEF ParserInv

LEMMA StatusCodeKeeps ==
  ASSUME ParserInv, StatusCode, UNCHANGED <<server, outcome>>
  PROVE  ParserInv'
  <1>1. state' \in States /\ http_errno' \in Errors
    BY Names DEF StatusCode, In, Take, Error, StatusDigit, EndOfCode, ParserInv, TypeOK
  <1>2. header_state' \in HeaderStates /\ flags' \subseteq Flags
    BY DEF StatusCode, ParserInv, TypeOK
  <1>3. /\ content_length' \in 0 .. MaxLength /\ nread' \in 0 .. MaxHeader + 1
        /\ upgrade' \in BOOLEAN
    BY DEF StatusCode, ParserInv, TypeOK
  <1>4. status_code' = status_code \/ (ch \in Digit /\ status_code' = 10 * status_code + Number(ch))
    BY DEF StatusCode, StatusDigit, EndOfCode
  <1>5. status_code \in 0 .. 999
    <2>1. http_errno = "OK"
      BY DEF ParserInv, StateInv, StatusCode, In
    <2>2. status_code <= 999
      BY <2>1 DEF ParserInv, StateInv
    <2>3. status_code \in 0 .. CodeMax
      BY DEF ParserInv, TypeOK
    <2> QED BY <2>2, <2>3 DEF CodeMax
  <1>6. status_code' \in 0 .. CodeMax
    <2>1. CASE status_code' = status_code
      BY <2>1, <1>5 DEF CodeMax
    <2>2. CASE ch \in Digit /\ status_code' = 10 * status_code + Number(ch)
      <3>1. \E n \in 0 .. 9 : status_code' = 10 * status_code + n
        BY <2>2, NumberType, Zenon
      <3> QED BY <3>1, <1>5 DEF CodeMax
    <2> QED BY <1>4, <2>1, <2>2
  <1>7. ch' \in Char \cup {NoChar} /\ nparsed' \in {0, 1} /\ counted' \in {NoCode} \cup 0 .. CodeMax
    BY DEF StatusCode, In, Take, Error, StatusDigit, EndOfCode, ParserInv, TypeOK
  <1>8. TypeOK'
    BY <1>1, <1>2, <1>3, <1>6, <1>7 DEF ParserInv, TypeOK, server
  <1>9. StateInv'
    BY NumberType DEF StatusCode, In, Take, Error, StatusDigit, EndOfCode, ParserInv, TypeOK,
                      StateInv, ChunkStates, ChunkSizeStates, server, NoLength, NoCode
  <1> QED BY <1>8, <1>9 DEF ParserInv

LEMMA StatusTextKeeps ==
  ASSUME ParserInv, StatusText, UNCHANGED <<server, outcome>>
  PROVE  ParserInv'
  <1>1. state' \in States /\ http_errno' \in Errors
    BY Names DEF StatusText, In, Take, ParserInv, TypeOK
  <1>2. header_state' \in HeaderStates /\ flags' \subseteq Flags
    BY DEF StatusText, ParserInv, TypeOK
  <1>3. /\ content_length' \in 0 .. MaxLength /\ status_code' \in 0 .. CodeMax
        /\ nread' \in 0 .. MaxHeader + 1 /\ upgrade' \in BOOLEAN
    BY DEF StatusText, ParserInv, TypeOK
  <1>4. /\ ch' \in Char \cup {NoChar} /\ nparsed' \in {0, 1}
        /\ counted' \in {NoCode} \cup 0 .. CodeMax
    BY DEF StatusText, In, Take, ParserInv, TypeOK
  <1>5. TypeOK'
    BY <1>1, <1>2, <1>3, <1>4 DEF ParserInv, TypeOK, server
  <1>6. StateInv'
    BY DEF StatusText, In, Take, ParserInv, TypeOK, StateInv,
           ChunkStates, ChunkSizeStates, server
  <1> QED BY <1>5, <1>6 DEF ParserInv

LEMMA LineAlmostDoneKeeps ==
  ASSUME ParserInv, LineAlmostDone, UNCHANGED <<server, outcome>>
  PROVE  ParserInv'
  <1>1. state' \in States /\ http_errno' \in Errors
    BY Names DEF LineAlmostDone, In, Take, Error, Expect, ParserInv, TypeOK
  <1>2. header_state' \in HeaderStates /\ flags' \subseteq Flags
    BY DEF LineAlmostDone, ParserInv, TypeOK
  <1>3. /\ content_length' \in 0 .. MaxLength /\ status_code' \in 0 .. CodeMax
        /\ nread' \in 0 .. MaxHeader + 1 /\ upgrade' \in BOOLEAN
    BY DEF LineAlmostDone, ParserInv, TypeOK
  <1>4. /\ ch' \in Char \cup {NoChar} /\ nparsed' \in {0, 1}
        /\ counted' \in {NoCode} \cup 0 .. CodeMax
    BY DEF LineAlmostDone, In, Take, Error, Expect, ParserInv, TypeOK
  <1>5. TypeOK'
    BY <1>1, <1>2, <1>3, <1>4 DEF ParserInv, TypeOK, server
  <1>6. StateInv'
    BY DEF LineAlmostDone, In, Take, Error, Expect, ParserInv, TypeOK, StateInv,
           ChunkStates, ChunkSizeStates, server
  <1> QED BY <1>5, <1>6 DEF ParserInv

LEMMA HeaderFieldStartKeeps ==
  ASSUME ParserInv, HeaderFieldStart, UNCHANGED <<server, outcome>>
  PROVE  ParserInv'
  <1>1. state' \in States /\ http_errno' \in Errors
    BY Names DEF HeaderFieldStart, In, Take, Again, Error, ParserInv, TypeOK
  <1>2. header_state' \in HeaderStates /\ flags' \subseteq Flags
    BY Names, FieldStateType DEF HeaderFieldStart, ParserInv, TypeOK
  <1>3. /\ content_length' \in 0 .. MaxLength /\ status_code' \in 0 .. CodeMax
        /\ nread' \in 0 .. MaxHeader + 1 /\ upgrade' \in BOOLEAN
    BY DEF HeaderFieldStart, ParserInv, TypeOK
  <1>4. /\ ch' \in Char \cup {NoChar} /\ nparsed' \in {0, 1}
        /\ counted' \in {NoCode} \cup 0 .. CodeMax
    BY DEF HeaderFieldStart, In, Take, Again, Error, ParserInv, TypeOK
  <1>5. TypeOK'
    BY <1>1, <1>2, <1>3, <1>4 DEF ParserInv, TypeOK, server
  <1>6. StateInv'
    BY DEF HeaderFieldStart, In, Take, Again, Error, ParserInv, TypeOK, StateInv,
           ChunkStates, ChunkSizeStates, server
  <1> QED BY <1>5, <1>6 DEF ParserInv

LEMMA HeaderFieldKeeps ==
  ASSUME ParserInv, HeaderField, UNCHANGED <<server, outcome>>
  PROVE  ParserInv'
  <1>1. state' \in States /\ http_errno' \in Errors
    BY Names DEF HeaderField, In, Take, Error, ParserInv, TypeOK
  <1>2. header_state' \in HeaderStates /\ flags' \subseteq Flags
    BY Names DEF HeaderField, ParserInv, TypeOK
  <1>3. /\ content_length' \in 0 .. MaxLength /\ status_code' \in 0 .. CodeMax
        /\ nread' \in 0 .. MaxHeader + 1 /\ upgrade' \in BOOLEAN
    BY DEF HeaderField, ParserInv, TypeOK
  <1>4. /\ ch' \in Char \cup {NoChar} /\ nparsed' \in {0, 1}
        /\ counted' \in {NoCode} \cup 0 .. CodeMax
    BY DEF HeaderField, In, Take, Error, ParserInv, TypeOK
  <1>5. TypeOK'
    BY <1>1, <1>2, <1>3, <1>4 DEF ParserInv, TypeOK, server
  <1>6. StateInv'
    BY DEF HeaderField, In, Take, Error, ParserInv, TypeOK, StateInv,
           ChunkStates, ChunkSizeStates, server
  <1> QED BY <1>5, <1>6 DEF ParserInv

LEMMA ValueDiscardWsKeeps ==
  ASSUME ParserInv, ValueDiscardWs, UNCHANGED <<server, outcome>>
  PROVE  ParserInv'
  <1>1. state' \in States /\ http_errno' \in Errors
    BY Names DEF ValueDiscardWs, In, Take, Again, ParserInv, TypeOK
  <1>2. header_state' \in HeaderStates /\ flags' \subseteq Flags
    BY DEF ValueDiscardWs, ParserInv, TypeOK
  <1>3. /\ content_length' \in 0 .. MaxLength /\ status_code' \in 0 .. CodeMax
        /\ nread' \in 0 .. MaxHeader + 1 /\ upgrade' \in BOOLEAN
    BY DEF ValueDiscardWs, ParserInv, TypeOK
  <1>4. /\ ch' \in Char \cup {NoChar} /\ nparsed' \in {0, 1}
        /\ counted' \in {NoCode} \cup 0 .. CodeMax
    BY DEF ValueDiscardWs, In, Take, Again, ParserInv, TypeOK
  <1>5. TypeOK'
    BY <1>1, <1>2, <1>3, <1>4 DEF ParserInv, TypeOK, server
  <1>6. StateInv'
    BY DEF ValueDiscardWs, In, Take, Again, ParserInv, TypeOK, StateInv,
           ChunkStates, ChunkSizeStates, server
  <1> QED BY <1>5, <1>6 DEF ParserInv

LEMMA ValueStartKeeps ==
  ASSUME ParserInv, ValueStart, UNCHANGED <<server, outcome>>
  PROVE  ParserInv'
  <1>1. state' \in States /\ http_errno' \in Errors
    BY Names DEF ValueStart, In, Take, Error, ParserInv, TypeOK
  <1>2. header_state' \in HeaderStates \ {"h_connection", "h_transfer_encoding"}
    BY FirstOfValueType DEF ValueStart
  <1>3. flags' \subseteq Flags /\ flags \subseteq flags'
    BY DEF ValueStart, Flags, ParserInv, TypeOK
  <1>4. \/ content_length' = content_length
        \/ ch \in Digit /\ content_length' = Number(ch)
    BY DEF ValueStart
  <1>5. content_length' \in 0 .. MaxLength
    BY <1>4, NumberType, SizeAssumption DEF ParserInv, TypeOK
  <1>6. status_code' \in 0 .. CodeMax /\ nread' \in 0 .. MaxHeader + 1 /\ upgrade' \in BOOLEAN
    BY DEF ValueStart, ParserInv, TypeOK
  <1>7. ch' \in Char \cup {NoChar} /\ nparsed' \in {0, 1} /\ counted' \in {NoCode} \cup 0 .. CodeMax
    BY DEF ValueStart, In, Take, Error, ParserInv, TypeOK
  <1>8. TypeOK'
    BY <1>1, <1>2, <1>3, <1>5, <1>6, <1>7 DEF ParserInv, TypeOK, server
  <1>9. state' \in {"s_header_value", "s_header_value_start"}
    BY DEF ValueStart, In, Take, Error
  <1>10. StateInv'
    BY <1>2, <1>9 DEF ValueStart, In, Take, Error, ParserInv, TypeOK, StateInv, ChunkStates,
                      ChunkSizeStates, server
  <1> QED BY <1>8, <1>10 DEF ParserInv

LEMMA HeaderValueKeeps ==
  ASSUME ParserInv, HeaderValue, UNCHANGED <<server, outcome>>
  PROVE  ParserInv'
  <1>1. /\ state = "s_header_value" /\ ch # NoChar
        /\ header_state \in HeaderStates \ {"h_connection", "h_transfer_encoding"}
        /\ content_length \in 0 .. MaxLength
    <2>1. header_state \in HeaderStates /\ content_length \in 0 .. MaxLength
      BY DEF ParserInv, TypeOK
    <2> QED BY <2>1 DEF HeaderValue, In, ParserInv, StateInv
  <1>2. ASSUME ch \in Digit, LengthDigit(10)
        PROVE  /\ content_length' \in 0 .. MaxLength
               /\ Take(state) \/ Error("INVALID_CONTENT_LENGTH")
    <2>1. Number(ch) \in 0 .. 10 - 1
      BY <1>2, NumberType
    <2> QED BY <1>1, <1>2, <2>1, LengthDigitGrows, SizeAssumption DEF LengthDigit, NextDigit
  <1>3. content_length' \in 0 .. MaxLength
    BY <1>1, <1>2 DEF HeaderValue
  <1>4. \/ Take("s_header_almost_done") \/ Again("s_header_almost_done")
        \/ Take(state) \/ Error("INVALID_CONTENT_LENGTH")
    BY <1>2 DEF HeaderValue
  <1>5. /\ state' \in {"s_header_value", "s_header_almost_done"} /\ http_errno' \in Errors
        /\ state' \in States /\ ch' \in {ch, NoChar} /\ nparsed' \in {0, 1}
        /\ counted' = counted /\ http_errno \in {"OK", http_errno'}
        /\ ch' # NoChar => http_errno' = http_errno
    BY <1>1, <1>4, Names DEF Take, Again, Error, ParserInv, TypeOK, StateInv
  <1>6. /\ header_state' \in HeaderStates \ {"h_connection", "h_transfer_encoding"}
        /\ flags' \subseteq Flags
    <2>1. header_state' = header_state \/ header_state' = RestOfValue
      BY DEF HeaderValue
    <2>2. flags' = flags \/ flags' = flags \cup Flag \/ flags' = flags \cup {}
      BY DEF HeaderValue
    <2>3. flags \subseteq Flags
      BY DEF ParserInv, TypeOK
    <2>4. flags' \subseteq Flags
      BY <2>2, <2>3, FlagType
    <2> QED BY <1>1, <2>1, <2>4, RestOfValueType
  <1>7. UNCHANGED <<status_code, nread, upgrade>>
    BY DEF HeaderValue
  <1>8. TypeOK'
    BY <1>3, <1>5, <1>6, <1>7 DEF ParserInv, TypeOK, server
  <1>9. StateInv'
    BY <1>1, <1>5, <1>6, <1>7 DEF ParserInv, TypeOK, StateInv, ChunkStates,
        ChunkSizeStates, server
  <1> QED BY <1>8, <1>9 DEF ParserInv

LEMMA HeaderAlmostDoneKeeps ==
  ASSUME ParserInv, HeaderAlmostDone, UNCHANGED <<server, outcome>>
  PROVE  ParserInv'
  <1>1. state' \in States /\ http_errno' \in Errors
    BY Names DEF HeaderAlmostDone, In, Take, Error, Expect, ParserInv, TypeOK
  <1>2. header_state' \in HeaderStates /\ flags' \subseteq Flags
    BY DEF HeaderAlmostDone, ParserInv, TypeOK
  <1>3. /\ content_length' \in 0 .. MaxLength /\ status_code' \in 0 .. CodeMax
        /\ nread' \in 0 .. MaxHeader + 1 /\ upgrade' \in BOOLEAN
    BY DEF HeaderAlmostDone, ParserInv, TypeOK
  <1>4. /\ ch' \in Char \cup {NoChar} /\ nparsed' \in {0, 1}
        /\ counted' \in {NoCode} \cup 0 .. CodeMax
    BY DEF HeaderAlmostDone, In, Take, Error, Expect, ParserInv, TypeOK
  <1>5. TypeOK'
    BY <1>1, <1>2, <1>3, <1>4 DEF ParserInv, TypeOK, server
  <1>6. StateInv'
    BY DEF HeaderAlmostDone, In, Take, Error, Expect, ParserInv, TypeOK, StateInv,
           ChunkStates, ChunkSizeStates, server
  <1> QED BY <1>5, <1>6 DEF ParserInv

LEMMA ValueLwsKeeps ==
  ASSUME ParserInv, ValueLws, UNCHANGED <<server, outcome>>
  PROVE  ParserInv'
  <1>1. state' \in States /\ http_errno' \in Errors
    BY Names DEF ValueLws, In, Again, ParserInv, TypeOK
  <1>2. header_state' \in HeaderStates /\ flags' \subseteq Flags
    BY FlagType DEF ValueLws, ParserInv, TypeOK
  <1>3. /\ content_length' \in 0 .. MaxLength /\ status_code' \in 0 .. CodeMax
        /\ nread' \in 0 .. MaxHeader + 1 /\ upgrade' \in BOOLEAN
    BY DEF ValueLws, ParserInv, TypeOK
  <1>4. /\ ch' \in Char \cup {NoChar} /\ nparsed' \in {0, 1}
        /\ counted' \in {NoCode} \cup 0 .. CodeMax
    BY DEF ValueLws, In, Again, ParserInv, TypeOK
  <1>5. TypeOK'
    BY <1>1, <1>2, <1>3, <1>4 DEF ParserInv, TypeOK, server
  <1>6. StateInv'
    BY DEF ValueLws, In, Again, ParserInv, TypeOK, StateInv,
           ChunkStates, ChunkSizeStates, server
  <1> QED BY <1>5, <1>6 DEF ParserInv

LEMMA DiscardWsAlmostDoneKeeps ==
  ASSUME ParserInv, DiscardWsAlmostDone, UNCHANGED <<server, outcome>>
  PROVE  ParserInv'
  <1>1. state' \in States /\ http_errno' \in Errors
    BY Names DEF DiscardWsAlmostDone, In, Take, Error, Expect, ParserInv, TypeOK
  <1>2. header_state' \in HeaderStates /\ flags' \subseteq Flags
    BY DEF DiscardWsAlmostDone, ParserInv, TypeOK
  <1>3. /\ content_length' \in 0 .. MaxLength /\ status_code' \in 0 .. CodeMax
        /\ nread' \in 0 .. MaxHeader + 1 /\ upgrade' \in BOOLEAN
    BY DEF DiscardWsAlmostDone, ParserInv, TypeOK
  <1>4. /\ ch' \in Char \cup {NoChar} /\ nparsed' \in {0, 1}
        /\ counted' \in {NoCode} \cup 0 .. CodeMax
    BY DEF DiscardWsAlmostDone, In, Take, Error, Expect, ParserInv, TypeOK
  <1>5. TypeOK'
    BY <1>1, <1>2, <1>3, <1>4 DEF ParserInv, TypeOK, server
  <1>6. StateInv'
    BY DEF DiscardWsAlmostDone, In, Take, Error, Expect, ParserInv, TypeOK, StateInv,
           ChunkStates, ChunkSizeStates, server
  <1> QED BY <1>5, <1>6 DEF ParserInv

LEMMA DiscardLwsKeeps ==
  ASSUME ParserInv, DiscardLws, UNCHANGED <<server, outcome>>
  PROVE  ParserInv'
  <1>1. state' \in States /\ http_errno' \in Errors
    BY Names DEF DiscardLws, In, Take, Again, ParserInv, TypeOK
  <1>2. header_state' \in HeaderStates /\ flags' \subseteq Flags
    BY FlagType DEF DiscardLws, ParserInv, TypeOK
  <1>3. /\ content_length' \in 0 .. MaxLength /\ status_code' \in 0 .. CodeMax
        /\ nread' \in 0 .. MaxHeader + 1 /\ upgrade' \in BOOLEAN
    BY DEF DiscardLws, ParserInv, TypeOK
  <1>4. /\ ch' \in Char \cup {NoChar} /\ nparsed' \in {0, 1}
        /\ counted' \in {NoCode} \cup 0 .. CodeMax
    BY DEF DiscardLws, In, Take, Again, ParserInv, TypeOK
  <1>5. TypeOK'
    BY <1>1, <1>2, <1>3, <1>4 DEF ParserInv, TypeOK, server
  <1>6. StateInv'
    BY DEF DiscardLws, In, Take, Again, ParserInv, TypeOK, StateInv,
           ChunkStates, ChunkSizeStates, server
  <1> QED BY <1>5, <1>6 DEF ParserInv

LEMMA HeadersAlmostDoneKeeps ==
  ASSUME ParserInv, HeadersAlmostDone, UNCHANGED <<server, outcome>>
  PROVE  ParserInv'
  <1>1. state' \in States /\ http_errno' \in Errors
    BY Names DEF HeadersAlmostDone, In, Again, Error, ParserInv, TypeOK
  <1>2. header_state' \in HeaderStates /\ flags' \subseteq Flags
    BY DEF HeadersAlmostDone, ParserInv, TypeOK
  <1>3. /\ content_length' \in 0 .. MaxLength /\ status_code' \in 0 .. CodeMax
        /\ nread' \in 0 .. MaxHeader + 1
    BY DEF HeadersAlmostDone, ParserInv, TypeOK
  <1>4. upgrade' \in BOOLEAN
    <2>1. upgrade' = upgrade \/ upgrade' = ({"UPGRADE", "CONNECTION_UPGRADE"} \subseteq flags)
      BY DEF HeadersAlmostDone
    <2>2. upgrade \in BOOLEAN
      BY DEF ParserInv, TypeOK
    <2> QED BY <2>1, <2>2, Zenon
  <1>5. ch' \in Char \cup {NoChar} /\ nparsed' \in {0, 1} /\ counted' \in {NoCode} \cup 0 .. CodeMax
    BY DEF HeadersAlmostDone, In, Again, Error, ParserInv, TypeOK
  <1>6. TypeOK'
    BY <1>1, <1>2, <1>3, <1>4, <1>5 DEF ParserInv, TypeOK, server
  <1>7. StateInv'
    BY DEF HeadersAlmostDone, In, Again, Error, ParserInv, TypeOK, StateInv, ChunkStates,
           ChunkSizeStates, server
  <1> QED BY <1>6, <1>7 DEF ParserInv

\* response_complete leaves the parser as http_parser_init does.
LEMMA CompleteKeeps ==
  ASSUME ParserInv, ch # NoChar, Complete, UNCHANGED <<server, outcome>>
  PROVE  ParserInv'
  <1>1. counted' \in 0 .. 999
    <2>1. http_errno = "OK"
      BY DEF ParserInv, StateInv
    <2>2. status_code <= 999
      BY <2>1 DEF ParserInv, StateInv
    <2>3. status_code \in 0 .. CodeMax
      BY DEF ParserInv, TypeOK
    <2> QED BY <2>2, <2>3 DEF Complete, CodeMax
  <1>2. upgrade' \in BOOLEAN
    <2>1. upgrade' = FALSE
      BY DEF Complete, Reset
    <2> QED BY <2>1, Zenon
  <1>3. /\ state' = "s_start_res" /\ header_state' = "h_general" /\ flags' = {}
        /\ content_length' = 0 /\ status_code' = 0 /\ nread' = 0
        /\ http_errno' = "CB_message_complete" /\ ch' = NoChar /\ nparsed' = 1
    BY DEF Complete, Reset
  <1>4. counted' \in 0 .. CodeMax /\ 0 \in 0 .. CodeMax
    BY <1>1 DEF CodeMax
  <1>5. TypeOK'
    BY <1>2, <1>3, <1>4, Names, SizeAssumption DEF ParserInv, TypeOK, server
  <1>6. StateInv'
    BY <1>1, <1>3, SizeAssumption
        DEF ParserInv, StateInv, ChunkStates, ChunkSizeStates, server
  <1> QED BY <1>5, <1>6 DEF ParserInv

LEMMA HeadersDoneKeeps ==
  ASSUME ParserInv, HeadersDone, UNCHANGED <<server, outcome>>
  PROVE  ParserInv'
  <1>1. CASE Complete
    BY <1>1, CompleteKeeps DEF HeadersDone, In
  <1>2. CASE /\ ~EndsHere /\ Take(BodyState) /\ nread' = 0
             /\ UNCHANGED <<header_state, flags, content_length, status_code, upgrade>>
    <2>1. /\ state' \in States
          /\ state' \in {"s_chunk_size_start", "s_body_identity", "s_body_identity_eof"}
          /\ state' = "s_chunk_size_start" => "CHUNKED" \in flags
          /\ state' = "s_body_identity" => content_length \notin {0, NoLength}
      BY <1>2, Names DEF Take, BodyState, HasBody
    <2>2. ch' = NoChar /\ nparsed' = 1 /\ UNCHANGED <<http_errno, counted>>
      BY <1>2 DEF Take
    <2>3. TypeOK'
      BY <1>2, <2>1, <2>2, SizeAssumption DEF ParserInv, TypeOK, server
    <2>4. StateInv'
      BY <1>2, <2>1, <2>2, SizeAssumption
        DEF ParserInv, StateInv, ChunkStates, ChunkSizeStates, server
    <2> QED BY <2>3, <2>4 DEF ParserInv
  <1> QED BY <1>1, <1>2 DEF HeadersDone

LEMMA BodyIdentityKeeps ==
  ASSUME ParserInv, BodyIdentity, UNCHANGED <<server, outcome>>
  PROVE  ParserInv'
  <1>1. state' \in States /\ http_errno' \in Errors
    BY Names DEF BodyIdentity, In, Take, Again, ParserInv, TypeOK
  <1>2. header_state' \in HeaderStates /\ flags' \subseteq Flags
    BY DEF BodyIdentity, ParserInv, TypeOK
  <1>3. /\ content_length' \in 0 .. MaxLength /\ status_code' \in 0 .. CodeMax
        /\ nread' \in 0 .. MaxHeader + 1 /\ upgrade' \in BOOLEAN
    BY SizeAssumption DEF BodyIdentity, In, StateInv, NoLength, ParserInv, TypeOK
  <1>4. /\ ch' \in Char \cup {NoChar} /\ nparsed' \in {0, 1}
        /\ counted' \in {NoCode} \cup 0 .. CodeMax
    BY DEF BodyIdentity, In, Take, Again, ParserInv, TypeOK
  <1>5. TypeOK'
    BY <1>1, <1>2, <1>3, <1>4 DEF ParserInv, TypeOK, server
  <1>6. StateInv'
    BY DEF BodyIdentity, In, Take, Again, ParserInv, TypeOK, StateInv,
           ChunkStates, ChunkSizeStates, server, NoLength
  <1> QED BY <1>5, <1>6 DEF ParserInv

LEMMA BodyIdentityEofKeeps ==
  ASSUME ParserInv, BodyIdentityEof, UNCHANGED <<server, outcome>>
  PROVE  ParserInv'
  <1>1. state' \in States /\ http_errno' \in Errors
    BY Names DEF BodyIdentityEof, In, Take, ParserInv, TypeOK
  <1>2. header_state' \in HeaderStates /\ flags' \subseteq Flags
    BY DEF BodyIdentityEof, ParserInv, TypeOK
  <1>3. /\ content_length' \in 0 .. MaxLength /\ status_code' \in 0 .. CodeMax
        /\ nread' \in 0 .. MaxHeader + 1 /\ upgrade' \in BOOLEAN
    BY DEF BodyIdentityEof, ParserInv, TypeOK
  <1>4. /\ ch' \in Char \cup {NoChar} /\ nparsed' \in {0, 1}
        /\ counted' \in {NoCode} \cup 0 .. CodeMax
    BY DEF BodyIdentityEof, In, Take, ParserInv, TypeOK
  <1>5. TypeOK'
    BY <1>1, <1>2, <1>3, <1>4 DEF ParserInv, TypeOK, server
  <1>6. StateInv'
    BY DEF BodyIdentityEof, In, Take, ParserInv, TypeOK, StateInv,
           ChunkStates, ChunkSizeStates, server
  <1> QED BY <1>5, <1>6 DEF ParserInv

LEMMA MessageDoneKeeps ==
  ASSUME ParserInv, MessageDone, UNCHANGED <<server, outcome>>
  PROVE  ParserInv'
  BY CompleteKeeps DEF MessageDone, In

LEMMA ChunkSizeStartKeeps ==
  ASSUME ParserInv, ChunkSizeStart, UNCHANGED <<server, outcome>>
  PROVE  ParserInv'
  <1>1. \/ ch \in HexDigit /\ content_length' = Number(ch) /\ Take("s_chunk_size")
        \/ Error("INVALID_CHUNK_SIZE") /\ UNCHANGED content_length
    BY DEF ChunkSizeStart
  <1>2. /\ state = "s_chunk_size_start" /\ ch # NoChar
        /\ UNCHANGED <<header_state, flags, status_code, nread, upgrade>>
    BY DEF ChunkSizeStart, In
  <1>3. /\ content_length' \in 0 .. MaxLength
        /\ content_length' = content_length \/ content_length' # NoLength
    BY <1>1, NumberType, SizeAssumption DEF ParserInv, TypeOK, NoLength
  <1>4. /\ state' \in States /\ ch' = NoChar /\ nparsed' \in {0, 1} /\ counted' = counted
        /\ \/ state' = "s_chunk_size" /\ http_errno' = http_errno /\ content_length' # NoLength
           \/ state' = state /\ http_errno' = "INVALID_CHUNK_SIZE"
    BY <1>1, <1>2, NumberType, SizeAssumption, Names DEF Take, Error, ParserInv, TypeOK, NoLength
  <1>5. TypeOK'
    BY <1>2, <1>3, <1>4, Names DEF ParserInv, TypeOK, server
  <1>6. StateInv'
    BY <1>2, <1>4 DEF ParserInv, TypeOK, StateInv, ChunkStates,
        ChunkSizeStates, server
  <1> QED BY <1>5, <1>6 DEF ParserInv

LEMMA ChunkSizeKeeps ==
  ASSUME ParserInv, ChunkSize, UNCHANGED <<server, outcome>>
  PROVE  ParserInv'
  <1>1. /\ state = "s_chunk_size" /\ ch # NoChar
        /\ content_length \in 0 .. MaxLength /\ content_length # NoLength
        /\ UNCHANGED <<header_state, flags, status_code, nread, upgrade>>
    BY DEF ChunkSize, In, ParserInv, TypeOK, StateInv, ChunkSizeStates
  <1>2. ASSUME ch \in HexDigit, LengthDigit(16)
        PROVE  /\ content_length' \in 0 .. MaxLength /\ content_length' # NoLength
               /\ Take(state) \/ Error("INVALID_CHUNK_SIZE")
                              \/ Error("INVALID_CONTENT_LENGTH")
    <2>1. Number(ch) \in 0 .. 16 - 1
      BY <1>2, NumberType
    <2> QED BY <1>1, <1>2, <2>1, LengthDigitGrows, SizeAssumption
            DEF LengthDigit, NextDigit, NoLength
  <1>3. content_length' \in 0 .. MaxLength /\ content_length' # NoLength
    BY <1>1, <1>2 DEF ChunkSize, EndOfSize
  <1>4. \/ Take(state) \/ Take("s_chunk_size_almost_done") \/ Take("s_chunk_parameters")
        \/ Error("INVALID_CHUNK_SIZE") \/ Error("INVALID_CONTENT_LENGTH")
    BY <1>2 DEF ChunkSize, EndOfSize
  <1>5. /\ state' \in States /\ http_errno' \in Errors
        /\ state' \in ChunkSizeStates \ {"s_chunk_size_start"}
        /\ ch' = NoChar /\ nparsed' \in {0, 1}
        /\ http_errno' \in {http_errno, "INVALID_CHUNK_SIZE", "INVALID_CONTENT_LENGTH"}
    BY <1>1, <1>4, Names DEF Take, Error, ParserInv, TypeOK, ChunkSizeStates
  <1>6. counted' = counted
    BY <1>4 DEF Take, Error
  <1>7. TypeOK'
    BY <1>1, <1>3, <1>5, <1>6 DEF ParserInv, TypeOK, server
  <1>8. StateInv'
    BY <1>1, <1>3, <1>5, <1>6 DEF ParserInv, TypeOK, StateInv, ChunkStates,
        ChunkSizeStates, server
  <1> QED BY <1>7, <1>8 DEF ParserInv

LEMMA ChunkParametersKeeps ==
  ASSUME ParserInv, ChunkParameters, UNCHANGED <<server, outcome>>
  PROVE  ParserInv'
  <1>1. state' \in States /\ http_errno' \in Errors
    BY Names DEF ChunkParameters, In, Take, ParserInv, TypeOK
  <1>2. header_state' \in HeaderStates /\ flags' \subseteq Flags
    BY DEF ChunkParameters, ParserInv, TypeOK
  <1>3. /\ content_length' \in 0 .. MaxLength /\ status_code' \in 0 .. CodeMax
        /\ nread' \in 0 .. MaxHeader + 1 /\ upgrade' \in BOOLEAN
    BY DEF ChunkParameters, ParserInv, TypeOK
  <1>4. /\ ch' \in Char \cup {NoChar} /\ nparsed' \in {0, 1}
        /\ counted' \in {NoCode} \cup 0 .. CodeMax
    BY DEF ChunkParameters, In, Take, ParserInv, TypeOK
  <1>5. TypeOK'
    BY <1>1, <1>2, <1>3, <1>4 DEF ParserInv, TypeOK, server
  <1>6. StateInv'
    BY DEF ChunkParameters, In, Take, ParserInv, TypeOK, StateInv,
           ChunkStates, ChunkSizeStates, server
  <1> QED BY <1>5, <1>6 DEF ParserInv

LEMMA ChunkSizeAlmostDoneKeeps ==
  ASSUME ParserInv, ChunkSizeAlmostDone, UNCHANGED <<server, outcome>>
  PROVE  ParserInv'
  <1>1. /\ state = "s_chunk_size_almost_done" /\ ch # NoChar
        /\ content_length # NoLength /\ "CHUNKED" \in flags
        /\ UNCHANGED <<header_state, content_length, status_code, upgrade>>
    BY DEF ChunkSizeAlmostDone, In, ParserInv, StateInv, ChunkStates, ChunkSizeStates
  <1>2. flags' = flags \/ flags' = flags \cup {"TRAILING"}
    BY DEF ChunkSizeAlmostDone
  <1>3. flags' \subseteq Flags /\ "CHUNKED" \in flags'
    <2>1. flags \subseteq Flags
      BY DEF ParserInv, TypeOK
    <2> QED BY <1>1, <1>2, <2>1 DEF Flags
  <1>4. \/ Error("STRICT") /\ nread' = nread
        \/ Take("s_header_field_start") /\ nread' = 0
        \/ Take("s_chunk_data") /\ nread' = 0 /\ content_length # 0
    BY DEF ChunkSizeAlmostDone
  <1>5. /\ state' \in States /\ http_errno' \in Errors
        /\ state' \in {state, "s_header_field_start", "s_chunk_data"}
        /\ state' = "s_chunk_data" => content_length # 0
        /\ ch' = NoChar /\ nparsed' \in {0, 1} /\ counted' = counted
        /\ nread' \in {0, nread} /\ http_errno' \in {http_errno, "STRICT"}
    BY <1>1, <1>4, Names DEF Take, Error, ParserInv, TypeOK
  <1>6. TypeOK'
    BY <1>1, <1>3, <1>5, SizeAssumption DEF ParserInv, TypeOK, server
  <1>7. StateInv'
    BY <1>1, <1>3, <1>5, SizeAssumption DEF ParserInv, TypeOK, StateInv, ChunkStates,
        ChunkSizeStates, server
  <1> QED BY <1>6, <1>7 DEF ParserInv

LEMMA ChunkDataKeeps ==
  ASSUME ParserInv, ChunkData, UNCHANGED <<server, outcome>>
  PROVE  ParserInv'
  <1>1. state' \in States /\ http_errno' \in Errors
    BY Names DEF ChunkData, In, Take, ParserInv, TypeOK
  <1>2. header_state' \in HeaderStates /\ flags' \subseteq Flags
    BY DEF ChunkData, ParserInv, TypeOK
  <1>3. /\ content_length' \in 0 .. MaxLength /\ status_code' \in 0 .. CodeMax
        /\ nread' \in 0 .. MaxHeader + 1 /\ upgrade' \in BOOLEAN
    BY SizeAssumption DEF ChunkData, In, StateInv, NoLength, ParserInv, TypeOK
  <1>4. /\ ch' \in Char \cup {NoChar} /\ nparsed' \in {0, 1}
        /\ counted' \in {NoCode} \cup 0 .. CodeMax
    BY DEF ChunkData, In, Take, ParserInv, TypeOK
  <1>5. TypeOK'
    BY <1>1, <1>2, <1>3, <1>4 DEF ParserInv, TypeOK, server
  <1>6. StateInv'
    BY DEF ChunkData, In, Take, ParserInv, TypeOK, StateInv,
           ChunkStates, ChunkSizeStates, server, NoLength
  <1> QED BY <1>5, <1>6 DEF ParserInv

LEMMA ChunkDataAlmostDoneKeeps ==
  ASSUME ParserInv, ChunkDataAlmostDone, UNCHANGED <<server, outcome>>
  PROVE  ParserInv'
  <1>1. state' \in States /\ http_errno' \in Errors
    BY Names DEF ChunkDataAlmostDone, In, Take, Error, Expect, ParserInv, TypeOK
  <1>2. header_state' \in HeaderStates /\ flags' \subseteq Flags
    BY DEF ChunkDataAlmostDone, ParserInv, TypeOK
  <1>3. /\ content_length' \in 0 .. MaxLength /\ status_code' \in 0 .. CodeMax
        /\ nread' \in 0 .. MaxHeader + 1 /\ upgrade' \in BOOLEAN
    BY DEF ChunkDataAlmostDone, ParserInv, TypeOK
  <1>4. /\ ch' \in Char \cup {NoChar} /\ nparsed' \in {0, 1}
        /\ counted' \in {NoCode} \cup 0 .. CodeMax
    BY DEF ChunkDataAlmostDone, In, Take, Error, Expect, ParserInv, TypeOK
  <1>5. TypeOK'
    BY <1>1, <1>2, <1>3, <1>4 DEF ParserInv, TypeOK, server
  <1>6. StateInv'
    BY DEF ChunkDataAlmostDone, In, Take, Error, Expect, ParserInv, TypeOK, StateInv,
           ChunkStates, ChunkSizeStates, server
  <1> QED BY <1>5, <1>6 DEF ParserInv

LEMMA ChunkDataDoneKeeps ==
  ASSUME ParserInv, ChunkDataDone, UNCHANGED <<server, outcome>>
  PROVE  ParserInv'
  <1>1. /\ state = "s_chunk_data_done" /\ ch # NoChar /\ "CHUNKED" \in flags
        /\ UNCHANGED <<header_state, flags, content_length, status_code, upgrade>>
    BY DEF ChunkDataDone, In, ParserInv, StateInv, ChunkStates, ChunkSizeStates
  <1>2. \/ Error("STRICT") /\ nread' = nread
        \/ Take("s_chunk_size_start") /\ nread' = 0
    BY DEF ChunkDataDone
  <1>3. /\ state' \in States /\ http_errno' \in Errors
        /\ state' \in {state, "s_chunk_size_start"}
        /\ state' = "s_chunk_size_start" => nread' = 0
        /\ ch' = NoChar /\ nparsed' \in {0, 1} /\ counted' = counted
        /\ nread' \in {0, nread} /\ http_errno' \in {http_errno, "STRICT"}
    BY <1>1, <1>2, Names DEF Take, Error, ParserInv, TypeOK
  <1>4. TypeOK'
    BY <1>1, <1>3, SizeAssumption DEF ParserInv, TypeOK, server
  <1>5. StateInv'
    BY <1>1, <1>3, SizeAssumption DEF ParserInv, TypeOK, StateInv, ChunkStates,
        ChunkSizeStates, server
  <1> QED BY <1>4, <1>5 DEF ParserInv

-----------------------------------------------------------------------------
(* The connection.                                                          *)

LEMMA SwitchKeeps ==
  ASSUME ParserInv, Switch
  PROVE  ParserInv'
  <1>1. UNCHANGED <<server, outcome>>
    BY DEF Switch
  <1> QED
    BY <1>1, StartResKeeps, FirstStatusCodeKeeps, StatusCodeKeeps, StatusTextKeeps,
       LineAlmostDoneKeeps, HeaderFieldStartKeeps, HeaderFieldKeeps, ValueDiscardWsKeeps,
       ValueStartKeeps, HeaderValueKeeps, HeaderAlmostDoneKeeps, ValueLwsKeeps,
       DiscardWsAlmostDoneKeeps, DiscardLwsKeeps, HeadersAlmostDoneKeeps, HeadersDoneKeeps,
       BodyIdentityKeeps, BodyIdentityEofKeeps, MessageDoneKeeps, ChunkSizeStartKeeps,
       ChunkSizeKeeps, ChunkParametersKeeps, ChunkSizeAlmostDoneKeeps, ChunkDataKeeps,
       ChunkDataAlmostDoneKeeps, ChunkDataDoneKeeps
    DEF Switch

LEMMA InitHolds == Init => ParserInv
  <1> SUFFICES ASSUME Init PROVE ParserInv
    OBVIOUS
  <1>1. upgrade \in BOOLEAN
    BY Zenon DEF Init
  <1>2. TypeOK
    BY <1>1, Names, SizeAssumption, ServerAssumption DEF Init, TypeOK, NoCode, CodeMax
  <1>3. StateInv
    <2>1. todo \in Seq(Char \cup {AnyChar})
      BY DEF Init
    <2>2. counted <= 999
      BY DEF Init, NoCode
    <2>3. nread <= MaxHeader /\ status_code <= 999
      BY SizeAssumption DEF Init
    <2>4. ch = NoChar /\ state = "s_start_res"
      BY DEF Init
    <2> QED BY <2>1, <2>2, <2>3, <2>4 DEF StateInv, ChunkStates, ChunkSizeStates
  <1> QED BY <1>2, <1>3 DEF ParserInv

LEMMA WireChars ==
  ASSUME todo \in Seq(Char \cup {AnyChar}), todo # <<>>
  PROVE  /\ Tail(todo) \in Seq(Char \cup {AnyChar})
         /\ Head(todo) = AnyChar \/ Head(todo) \in Char
  OBVIOUS

\* The next byte may be any character; only s_chunk_size_start has counted it exactly.
LEMMA ByteKeeps ==
  ASSUME ParserInv, NEW c \in Char, Byte(c), ch = NoChar, http_errno = "OK",
         UNCHANGED <<nparsed, counted>>, outcome' = "none",
         stray' \in 0 .. MaxStray, todo' \in Seq(Char \cup {AnyChar})
  PROVE  ParserInv'
  <1>1. nread \in 0 .. MaxHeader
    <2>1. nread <= MaxHeader
      BY DEF ParserInv, StateInv
    <2>2. nread \in 0 .. MaxHeader + 1
      BY DEF ParserInv, TypeOK
    <2> QED BY <2>1, <2>2, SizeAssumption
  <1>2. UNCHANGED <<state, header_state, flags, content_length, status_code, upgrade>>
    BY DEF Byte
  <1>3. nread' = nread \/ nread' = nread + 1
    BY <1>1 DEF Byte
  <1>4. nread' \in 0 .. MaxHeader + 1
    BY <1>1, <1>3, SizeAssumption
  <1>5. /\ http_errno' \in {http_errno, "HEADER_OVERFLOW"}
        /\ http_errno' = "OK" => nread' <= MaxHeader
        /\ ch' \in {c, NoChar}
        /\ http_errno' # "OK" <=> ch' = NoChar
    <2>1. c # NoChar
      BY DigitAssumption DEF Char, Token, Word, Mark, NoChar
    <2> QED BY <2>1 DEF Byte
  <1>6. TypeOK'
    BY <1>2, <1>4, <1>5 DEF ParserInv, TypeOK, Errors
  <1>7. state = "s_chunk_size_start" => nread = 0 /\ nread' = 1
    BY DEF ParserInv, StateInv, Byte, HeadStates, ChunkSizeStates
  <1>8. StateInv'
    BY <1>2, <1>5, <1>7 DEF ParserInv, StateInv
  <1> QED BY <1>6, <1>8 DEF ParserInv

LEMMA ArriveKeeps ==
  ASSUME ParserInv, Arrive
  PROVE  ParserInv'
  <1>1. PICK c \in Char : Byte(c)
    BY WireChars, ServerAssumption DEF Arrive, ParserInv, StateInv
  <1>2. todo' \in Seq(Char \cup {AnyChar})
    BY WireChars DEF Arrive, ParserInv, StateInv
  <1>3. stray' \in 0 .. MaxStray
    BY DEF Arrive, ParserInv, TypeOK
  <1> QED BY <1>1, <1>2, <1>3, ByteKeeps DEF Arrive, Listening

LEMMA StrayKeeps ==
  ASSUME ParserInv, Stray
  PROVE  ParserInv'
  <1>1. PICK c \in Char : Byte(c)
    BY ServerAssumption DEF Stray
  <1>2. todo' \in Seq(Char \cup {AnyChar})
    BY WireChars DEF Stray, ParserInv, StateInv
  <1>3. stray' \in 0 .. MaxStray
    BY ServerAssumption DEF Stray, ParserInv, TypeOK
  <1> QED BY <1>1, <1>2, <1>3, ByteKeeps DEF Stray, Listening

\* The parser starts over, as http_parser_init and set_nparse leave it.
LEMMA ResetKeeps ==
  ASSUME ParserInv, Reset("OK"), nparsed' = 0, ch' = NoChar, UNCHANGED <<counted, server>>,
         outcome' \in {"RECV_NEXT", "RECV_ERROR", "closed"}
  PROVE  ParserInv'
  <1>1. upgrade' \in BOOLEAN
    <2>1. upgrade' = FALSE
      BY DEF Reset
    <2> QED BY <2>1, Zenon
  <1>2. /\ state' = "s_start_res" /\ header_state' = "h_general" /\ flags' = {}
        /\ content_length' = 0 /\ status_code' = 0 /\ nread' = 0 /\ http_errno' = "OK"
    BY DEF Reset
  <1>3. 0 \in 0 .. CodeMax
    BY DEF CodeMax
  <1>4. TypeOK'
    BY <1>1, <1>2, <1>3, Names, SizeAssumption DEF ParserInv, TypeOK, server
  <1>5. StateInv'
    BY <1>2, SizeAssumption DEF ParserInv, StateInv, ChunkStates, ChunkSizeStates, server
  <1> QED BY <1>4, <1>5 DEF ParserInv

LEMMA AnswerKeeps ==
  ASSUME ParserInv, Answer
  PROVE  ParserInv'
  <1>1. todo' \in Seq(Char \cup {AnyChar}) /\ stray' \in 0 .. MaxStray
    <2>1. \A r \in Responses : r.wire \in Seq(Char \cup {AnyChar})
      BY ResponsesAssumption DEF IsResponse, InOrder
    <2> QED BY <2>1, ServerAssumption DEF Answer
  <1>2. TypeOK'
    BY <1>1 DEF Answer, parser, ParserInv, TypeOK
  <1>3. StateInv'
    BY <1>1 DEF Answer, parser, ParserInv, StateInv, NoCode
  <1> QED BY <1>2, <1>3 DEF ParserInv

LEMMA ArriveUnreadKeeps ==
  ASSUME ParserInv, ArriveUnread
  PROVE  ParserInv'
  <1>1. todo' \in Seq(Char \cup {AnyChar})
    BY WireChars DEF ArriveUnread, ParserInv, StateInv
  <1>2. /\ UNCHANGED <<state, header_state, flags, content_length, status_code, nread,
                       http_errno, upgrade, ch, nparsed, counted, stray>>
        /\ outcome' = "none"
    BY DEF ArriveUnread, parser
  <1>3. TypeOK'
    BY <1>2 DEF ParserInv, TypeOK
  <1>4. StateInv'
    BY <1>1, <1>2 DEF ParserInv, StateInv
  <1> QED BY <1>3, <1>4 DEF ParserInv

LEMMA ReceiveKeeps ==
  ASSUME ParserInv, Receive
  PROVE  ParserInv'
  <1>1. CASE Verdict = "bytes"
    <2>1. UNCHANGED <<parser, nparsed, ch, counted, server>> /\ outcome' = "bytes"
      BY <1>1 DEF Receive
    <2>2. TypeOK'
      BY <2>1 DEF parser, server, ParserInv, TypeOK
    <2>3. StateInv'
      BY <2>1 DEF parser, server, ParserInv, StateInv
    <2> QED BY <2>2, <2>3 DEF ParserInv
  <1>2. CASE Verdict # "bytes"
    <2>1. Verdict \in {"RECV_NEXT", "RECV_ERROR"}
      BY <1>2 DEF Verdict
    <2> QED BY <1>2, <2>1, ResetKeeps DEF Receive
  <1> QED BY <1>1, <1>2

LEMMA CloseKeeps ==
  ASSUME ParserInv, Close
  PROVE  ParserInv'
  BY ResetKeeps DEF Close

LEMMA StutterKeeps ==
  ASSUME ParserInv, UNCHANGED vars
  PROVE  ParserInv'
  <1>1. TypeOK'
    BY DEF vars, ParserInv, TypeOK
  <1>2. StateInv'
    BY DEF vars, ParserInv, StateInv
  <1> QED BY <1>1, <1>2 DEF ParserInv

LEMMA NextKeeps == ParserInv /\ [Next]_vars => ParserInv'
  BY SwitchKeeps, AnswerKeeps, ArriveKeeps, StrayKeeps, ArriveUnreadKeeps, ReceiveKeeps,
     CloseKeeps, StutterKeeps DEF Next

\* The invariant of the parser: whatever bytes arrive, in whatever pieces, every
\* state of the switch knows what it relies on of the length, the flags and the
\* count of header bytes.
THEOREM Invariance == Spec => []ParserInv
  BY InitHolds, NextKeeps, PTL DEF Spec

\* Every field of struct http_parser and every counter stays in its range.
THEOREM Types == Spec => []TypeOK
  <1>1. ParserInv => TypeOK
    BY DEF ParserInv
  <1> QED BY <1>1, Invariance, PTL

-----------------------------------------------------------------------------
(* The marks.                                                              *)

LEMMA FieldStateIs == ASSUME NEW w PROVE FieldState(w) \in FieldStates
  BY DEF FieldState, FieldStates

LEMMA NotTokens ==
  /\ \A t \in Token : t \notin {":", "CR", "LF"}
  /\ ":" # "CR" /\ ":" # "LF"
  BY DigitAssumption DEF Token, Word, Mark

\* A byte of the status line or of a header.
LEMMA HeadMarks ==
  ASSUME ParserInv, MarkInv, http_errno' = "OK", http_errno = "OK", marks' = MarksAfter,
         \/ StartRes \/ FirstStatusCode \/ StatusCode \/ StatusText \/ LineAlmostDone
         \/ HeaderFieldStart \/ HeaderField \/ ValueDiscardWs \/ ValueStart \/ HeaderValue
         \/ HeaderAlmostDone \/ ValueLws \/ DiscardWsAlmostDone \/ DiscardLws
         \/ HeadersAlmostDone \/ HeadersDone \/ MessageDone
  PROVE  MarkInv'
  <1>1. marks \subseteq MarksIn(state)
    BY DEF MarkInv
  <1>2. CASE StartRes
    BY <1>1, <1>2 DEF StartRes, In, Take, Error, MarkInv, MarksIn, MarksAfter, Opened, Closed
  <1>3. CASE FirstStatusCode
    BY <1>1, <1>3 DEF FirstStatusCode, In, Take, Error, MarkInv, MarksIn, MarksAfter, Opened, Closed
  <1>4. CASE StatusCode
    BY <1>1, <1>4 DEF StatusCode, StatusDigit, EndOfCode, In, Take, Error, MarkInv, MarksIn,
                      MarksAfter, Opened, Closed
  <1>5. CASE StatusText
    BY <1>1, <1>5 DEF StatusText, In, Take, MarkInv, MarksIn, MarksAfter, Opened, Closed
  <1>6. CASE LineAlmostDone
    BY <1>1, <1>6 DEF LineAlmostDone, In, Take, Error, Expect, MarkInv, MarksIn, MarksAfter,
                      Opened, Closed
  <1>7. CASE HeaderFieldStart
    <2>1. CASE ch \in Token /\ header_state' = FieldState(ch) /\ Take("s_header_field")
      BY <1>1, <1>7, <2>1, FieldStateIs
      DEF HeaderFieldStart, In, Take, MarkInv, MarksIn, MarksAfter, Opened, Closed
    <2>2. CASE ch \in {"CR", "LF"} /\ state' = "s_headers_almost_done"
      BY <1>1, <1>7, <2>2, NotTokens
      DEF HeaderFieldStart, In, MarkInv, MarksIn, MarksAfter, Opened, Closed
    <2> QED BY <1>7, <2>1, <2>2 DEF HeaderFieldStart, Take, Again, Error
  <1>8. CASE HeaderField
    <2>1. CASE ch \in Token /\ header_state' = "h_general" /\ Take(state)
      BY <1>1, <1>8, <2>1, NotTokens
      DEF HeaderField, In, Take, MarkInv, MarksIn, MarksAfter, Opened, Closed, FieldStates
    <2>2. CASE ch = ":" /\ state' = "s_header_value_discard_ws"
      BY <1>1, <1>8, <2>2 DEF HeaderField, In, MarkInv, MarksIn, MarksAfter, Opened, Closed
    <2> QED BY <1>8, <2>1, <2>2 DEF HeaderField, Take, Error
  <1>9. CASE ValueDiscardWs
    BY <1>1, <1>9 DEF ValueDiscardWs, In, Take, Again, MarkInv, MarksIn, MarksAfter, Opened, Closed
  <1>10. CASE ValueStart
    BY <1>1, <1>10 DEF ValueStart, In, Take, Error, MarkInv, MarksIn, MarksAfter, Opened, Closed
  <1>11. CASE HeaderValue
    <2>1. CASE ch \in {"CR", "LF"}
      <3>1. state = "s_header_value" /\ state' \in {"s_header_almost_done", "s_header_value"}
        BY <1>11 DEF HeaderValue, In, Take, Again, Error, LengthDigit, NextDigit
      <3>2. marks' = {}
        BY <1>1, <2>1, <3>1 DEF MarksIn, MarksAfter, Opened, Closed
      <3> QED BY <3>1, <3>2 DEF MarkInv
    <2>2. CASE ch \notin {"CR", "LF"}
      <3>1. state = "s_header_value" /\ state' = "s_header_value"
        BY <1>11, <2>2 DEF HeaderValue, In, Take, Again, Error, LengthDigit, NextDigit
      <3> QED BY <1>1, <3>1 DEF MarkInv, MarksIn, MarksAfter, Opened, Closed
    <2> QED BY <2>1, <2>2
  <1>12. CASE HeaderAlmostDone
    BY <1>1, <1>12 DEF HeaderAlmostDone, In, Take, Error, Expect, MarkInv, MarksIn, MarksAfter,
                       Opened, Closed
  <1>13. CASE ValueLws \/ DiscardLws
    BY <1>1, <1>13 DEF ValueLws, DiscardLws, In, Take, Again, MarkInv, MarksIn, MarksAfter,
                       Opened, Closed
  <1>14. CASE DiscardWsAlmostDone
    BY <1>1, <1>14 DEF DiscardWsAlmostDone, In, Take, Error, Expect, MarkInv, MarksIn, MarksAfter,
                       Opened, Closed
  <1>15. CASE HeadersAlmostDone
    BY <1>1, <1>15 DEF HeadersAlmostDone, In, Again, Error, MarkInv, MarksIn, MarksAfter,
                       Opened, Closed
  <1>16. CASE HeadersDone
    BY <1>1, <1>16 DEF HeadersDone, In, Take, Complete, Reset, BodyState, MarkInv, MarksIn,
                       MarksAfter, Opened, Closed
  <1>17. CASE MessageDone
    BY <1>17 DEF MessageDone, Complete, Reset
  <1> QED BY <1>2, <1>3, <1>4, <1>5, <1>6, <1>7, <1>8, <1>9, <1>10, <1>11, <1>12, <1>13, <1>14,
             <1>15, <1>16, <1>17

\* A byte of the body.
LEMMA BodyMarks ==
  ASSUME ParserInv, MarkInv, http_errno' = "OK", http_errno = "OK", marks' = MarksAfter,
         \/ BodyIdentity \/ BodyIdentityEof
         \/ ChunkSizeStart \/ ChunkSize \/ ChunkParameters \/ ChunkSizeAlmostDone
         \/ ChunkData \/ ChunkDataAlmostDone \/ ChunkDataDone
  PROVE  MarkInv'
  <1>1. marks \subseteq MarksIn(state)
    BY DEF MarkInv
  <1>2. CASE BodyIdentity
    <2>1. content_length' = 0 <=> content_length = 1
      BY <1>2 DEF BodyIdentity, ParserInv, TypeOK
    <2> QED BY <1>1, <1>2, <2>1 DEF BodyIdentity, In, Take, Again, MarkInv, MarksIn, MarksAfter,
                                    Opened, Closed
  <1>3. CASE BodyIdentityEof
    BY <1>1, <1>3 DEF BodyIdentityEof, In, Take, MarkInv, MarksIn, MarksAfter, Opened, Closed
  <1>4. CASE ChunkSizeStart
    BY <1>1, <1>4 DEF ChunkSizeStart, In, Take, Error, MarkInv, MarksIn, MarksAfter, Opened, Closed
  <1>5. CASE ChunkSize
    BY <1>1, <1>5 DEF ChunkSize, EndOfSize, LengthDigit, NextDigit, In, Take, Error, MarkInv,
                      MarksIn, MarksAfter, Opened, Closed
  <1>6. CASE ChunkParameters
    BY <1>1, <1>6 DEF ChunkParameters, In, Take, MarkInv, MarksIn, MarksAfter, Opened, Closed
  <1>7. CASE ChunkSizeAlmostDone
    BY <1>1, <1>7 DEF ChunkSizeAlmostDone, In, Take, Error, MarkInv, MarksIn, MarksAfter,
                      Opened, Closed
  <1>8. CASE ChunkData
    BY <1>1, <1>8 DEF ChunkData, In, Take, MarkInv, MarksIn, MarksAfter, Opened, Closed
  <1>9. CASE ChunkDataAlmostDone
    BY <1>1, <1>9 DEF ChunkDataAlmostDone, In, Take, Error, Expect, MarkInv, MarksIn, MarksAfter,
                      Opened, Closed
  <1>10. CASE ChunkDataDone
    BY <1>1, <1>10 DEF ChunkDataDone, In, Take, Error, MarkInv, MarksIn, MarksAfter, Opened, Closed
  <1> QED BY <1>2, <1>3, <1>4, <1>5, <1>6, <1>7, <1>8, <1>9, <1>10

LEMMA InSwitch == ASSUME Switch PROVE ch # NoChar
BY DEF Switch, StartRes, FirstStatusCode, StatusCode, StatusText, LineAlmostDone, HeaderFieldStart,
     HeaderField, ValueDiscardWs, ValueStart, HeaderValue, HeaderAlmostDone, ValueLws,
     DiscardWsAlmostDone, DiscardLws, HeadersAlmostDone, HeadersDone, BodyIdentity,
     BodyIdentityEof, MessageDone, ChunkSizeStart, ChunkSize, ChunkParameters,
     ChunkSizeAlmostDone, ChunkData, ChunkDataAlmostDone, ChunkDataDone, In

LEMMA MarkStep == ASSUME ParserInv, MarkInv, [Next]_vars PROVE MarkInv'
  <1>1. CASE Switch
    <2>1. ch # NoChar
      BY <1>1, InSwitch
    <2>2. http_errno = "OK"
      BY <2>1 DEF ParserInv, StateInv
    <2>3. CASE http_errno' = "OK"
      BY <1>1, <2>2, <2>3, HeadMarks, BodyMarks DEF Switch
    <2>4. CASE http_errno' # "OK"
      BY <2>4 DEF MarkInv
    <2> QED BY <2>3, <2>4
  <1>2. CASE Answer \/ ArriveUnread
    BY <1>2 DEF Answer, ArriveUnread, parser, MarkInv
  <1>3. CASE Arrive \/ Stray
    BY <1>3 DEF Arrive, Stray, Byte, MarkInv
  <1>4. CASE Receive
    BY <1>4 DEF Receive, parser, Reset, MarkInv
  <1>5. CASE Close
    BY <1>5 DEF Close, Reset, MarkInv
  <1>6. CASE UNCHANGED vars
    BY <1>6 DEF vars, MarkInv
  <1> QED BY <1>1, <1>2, <1>3, <1>4, <1>5, <1>6 DEF Next

\* Marks are set and closed in step with the states of the parser, and a name leaves
\* none but its own header states behind, whatever bytes arrive.
THEOREM Marks == Spec => []MarkInv
  <1>1. Init => MarkInv
    BY DEF Init, MarkInv
  <1> QED BY <1>1, MarkStep, Invariance, PTL DEF Spec

\* No assert that http_parser_execute can reach in a response fails, for every server
\* and every width of content_length.
THEOREM Asserts == Spec => []AssertionsHold
  <1>1. ASSUME ParserInv, MarkInv PROVE AssertionsHold
    <2>1. ASSUME NEW m \in marks, NEW n \in marks, http_errno = "OK" PROVE m = n
      BY <1>1, <2>1 DEF MarkInv, MarksIn
    <2> QED BY <1>1, <2>1 DEF ParserInv, TypeOK, StateInv, MarkInv, AssertionsHold
  <1> QED BY <1>1, Invariance, Marks, PTL

\* The status response_complete counts a response under is an index of g_status_code_map.
THEOREM Status == Spec => []StatusInMap
  <1>1. ASSUME ParserInv PROVE StatusInMap
    <2>1. counted <= 999
      BY <1>1 DEF ParserInv, StateInv
    <2>2. counted = NoCode \/ counted \in 0 .. CodeMax
      BY <1>1 DEF ParserInv, TypeOK
    <2>3. counted \in 0 .. CodeMax => counted \in StatusMap
      BY <2>1 DEF StatusMap, CodeMax
    <2> QED BY <2>2, <2>3 DEF StatusInMap
  <1> QED BY <1>1, Invariance, PTL

\* No digit of a Content-Length or of a chunk size makes the length wrap round.
THEOREM Lengths == Spec => LengthGrows
  <1>1. ASSUME ParserInv, [Next]_vars, state = state', state \in {"s_header_value", "s_chunk_size"}
        PROVE  content_length' >= content_length
    <2>1. content_length \in 0 .. MaxLength
      BY <1>1 DEF ParserInv, TypeOK
    <2>2. CASE content_length' = content_length
      BY <2>1, <2>2, SizeAssumption
    <2>3. ASSUME NEW base \in {10, 16}, LengthDigit(base), Number(ch) \in 0 .. base - 1
          PROVE  content_length' >= content_length
      BY <2>1, <2>2, <2>3, LengthDigitGrows, SizeAssumption DEF LengthDigit
    <2>4. CASE HeaderValue
      <3>1. content_length' = content_length \/ (ch \in Digit /\ LengthDigit(10))
        BY <2>4 DEF HeaderValue
      <3>2. ch \in Digit => Number(ch) \in 0 .. 10 - 1
        BY NumberType
      <3> QED BY <2>2, <2>3, <3>1, <3>2
    <2>5. CASE ChunkSize
      <3>1. content_length' = content_length \/ (ch \in HexDigit /\ LengthDigit(16))
        BY <2>5 DEF ChunkSize, EndOfSize
      <3>2. ch \in HexDigit => Number(ch) \in 0 .. 16 - 1
        BY NumberType
      <3> QED BY <2>2, <2>3, <3>1, <3>2
    <2>6. CASE Switch /\ ~HeaderValue /\ ~ChunkSize
      BY <1>1, <2>6 DEF Switch, In, StartRes, FirstStatusCode, StatusCode, StatusText,
         LineAlmostDone, HeaderFieldStart, HeaderField, ValueDiscardWs, ValueStart,
         HeaderAlmostDone, ValueLws, DiscardWsAlmostDone, DiscardLws, HeadersAlmostDone,
         HeadersDone, BodyIdentity, BodyIdentityEof, MessageDone, ChunkSizeStart,
         ChunkParameters, ChunkSizeAlmostDone, ChunkData, ChunkDataAlmostDone, ChunkDataDone
    <2>7. CASE ~Switch
      <3>1. UNCHANGED content_length \/ Reset("OK")
        BY <1>1, <2>7 DEF Next, Answer, Arrive, Stray, ArriveUnread, Receive, Close, Byte,
                          parser, vars
      <3>2. ~Reset("OK")
        BY <1>1 DEF Reset
      <3> QED BY <2>2, <3>1, <3>2
    <2> QED BY <2>4, <2>5, <2>6, <2>7
  <1> QED BY <1>1, Invariance, PTL DEF LengthGrows, Spec

-----------------------------------------------------------------------------
(* The framing of the responses of a correct server: FrameInv.             *)


-----------------------------------------------------------------------------
(* The lines of a correct response.                                        *)

LEMMA Letters ==
  /\ \A d \in HexDigit : d \notin Word /\ d \notin Mark /\ d # NoChar /\ d # AnyChar
  /\ \A d \in Digit : d \in HexDigit
  /\ Word \subseteq Token /\ Token \subseteq Char /\ Mark \subseteq Char
  /\ Word \cap Mark = {} /\ NoChar \notin Char /\ AnyChar \notin Char
  /\ \A c \in Token : c \notin Mark
<1>1. /\ \A d \in HexDigit : d \notin Word /\ d \notin Mark /\ d # NoChar /\ d # AnyChar
      /\ \A d \in Digit : d \in HexDigit
  BY DigitAssumption
<1>2. Word \cap Mark = {}
  BY DEF Word, Mark
<1>3. NoChar \notin Word \cup Mark /\ AnyChar \notin Word \cup Mark
  BY DEF Word, Mark, NoChar, AnyChar
<1> QED BY <1>1, <1>2, <1>3 DEF Char, Token

LEMMA Chars ==
  /\ \A c \in {"SP", ":", ";", ",", "CR", "LF", "version", "chunked"} : c \in Char
  /\ \A d \in HexDigit : d \in Char /\ d \notin {"SP", ":", ";", ",", "CR", "LF"}
  /\ \A d \in Digit : d \in HexDigit /\ d \in Char /\ d \notin {"SP", ":", ";", ",", "CR", "LF"}
<1>1. \A c \in {"SP", ":", ";", ",", "CR", "LF", "version", "chunked"} : c \in Char
  BY DEF Word, Mark, Token, Char
<1>2. \A d \in HexDigit : d \in Char /\ d \notin {"SP", ":", ";", ",", "CR", "LF"}
  <2>1. \A d \in HexDigit : d \in Char
    BY DEF Token, Char
  <2>2. \A d \in HexDigit : d \notin Mark
    BY Letters
  <2> QED BY <2>1, <2>2 DEF Mark
<1> QED BY <1>1, <1>2, Letters

LEMMA LineFacts ==
  ASSUME NEW r \in Responses, NEW i \in 1 .. Len(r.lines)
  PROVE  LET l == r.lines[i]
         IN  /\ l.text \in Seq(Char \cup {AnyChar}) /\ Len(l.text) \in Nat
             /\ l.from \in Nat /\ l.mark \in Nat /\ l.first \in Nat /\ l.stop \in Nat
             /\ l.number \in Seq(Nat) /\ l.kind \in Kinds
             /\ WellFormed(l) /\ Len(r.lines) \in Nat /\ Len(r.wire) \in Nat
             /\ r.wire \in Seq(Char \cup {AnyChar})
             /\ l.from + Len(l.text) <= Len(r.wire)
             /\ i < Len(r.lines) => l.from + Len(l.text) = r.lines[i + 1].from
             /\ i = Len(r.lines) => l.from + Len(l.text) = Len(r.wire)
             /\ \A j \in 1 .. Len(l.text) : r.wire[l.from + j] = l.text[j]
             /\ r.lines[1].from = 0
<1>1. InOrder(r)
  BY ResponsesAssumption DEF IsResponse
<1>2. r.lines \in Seq(Line) /\ r.wire \in Seq(Char \cup {AnyChar}) /\ Len(r.lines) \in Nat
  BY <1>1 DEF InOrder
<1> DEFINE l == r.lines[i]
<1>3. l \in Line
  BY <1>2
<1>4. /\ l.text \in Seq(Char \cup {AnyChar})
      /\ l.from \in Nat /\ l.mark \in Nat /\ l.first \in Nat /\ l.stop \in Nat
      /\ l.number \in Seq(Nat) /\ l.kind \in Kinds
  <2> HIDE DEF l
  <2> QED BY <1>3 DEF Line
<1>5. /\ WellFormed(l)
      /\ l.from + Len(l.text) = IF i = Len(r.lines) THEN Len(r.wire) ELSE r.lines[i + 1].from
      /\ l.from + Len(l.text) <= Len(r.wire)
      /\ \A j \in 1 .. Len(l.text) : r.wire[l.from + j] = l.text[j]
      /\ r.lines[1].from = 0
  BY <1>1 DEF InOrder
<1> HIDE DEF l
<1>6. Len(l.text) \in Nat
  BY <1>4
<1>7. Len(r.wire) \in Nat
  BY <1>2
<1>8. /\ i < Len(r.lines) => l.from + Len(l.text) = r.lines[i + 1].from
      /\ i = Len(r.lines) => l.from + Len(l.text) = Len(r.wire)
  BY <1>2, <1>5
<1> QED BY <1>2, <1>4, <1>5, <1>6, <1>7, <1>8, Zenon DEF l

\* Which lines come behind which.
LEMMA Sequel ==
  ASSUME NEW r \in Responses, NEW i \in 1 .. Len(r.lines)
  PROVE  LET n == Len(r.lines)
         IN  /\ r.head \in 2 .. n /\ r.last \in r.head .. n
             /\ Kind(r, i) = "status" <=> i = 1
             /\ Kind(r, 1) = "status"
             /\ i < r.head <=> Kind(r, i) = "status" \/ (Kind(r, i) \in Headers /\ ~(i > r.last))
             /\ i < r.head \/ (Kind(r, i) \in Headers /\ i > r.last) =>
                  i < n /\ Kind(r, i + 1) \in Headers \cup {"end"}
             /\ Kind(r, i) = "end" <=> i = r.head \/ (i = n /\ i > r.last)
             /\ Kind(r, i) = "end" /\ i > r.last => i = n
             /\ Kind(r, i) = "end" /\ ~(i > r.last) => i = r.head
             /\ Kind(r, i) = "data" => i = n /\ i > r.head /\ i = r.last
             /\ Kind(r, i) = "chunk" => i > r.head /\ i < r.last /\ Kind(r, i + 1) \in {"chunk", "last"}
             /\ Kind(r, i) = "last" => i > r.head /\ i = r.last /\ i < n /\ Kind(r, i + 1) \in Headers \cup {"end"}
<1> DEFINE n == Len(r.lines)
           K(j) == Kind(r, j)
<1>1. /\ n \in Nat /\ r.head \in 2 .. n
      /\ K(1) = "status" /\ K(r.head) = "end"
      /\ \A j \in 2 .. r.head - 1 : K(j) \in Headers
  <2>1. IsResponse(r)
    BY ResponsesAssumption
  <2>2. n \in Nat
    BY LineFacts
  <2> QED BY <2>1, <2>2 DEF IsResponse, HeadIsRight
<1>2. \/ /\ r.last \in Nat /\ r.head < r.last /\ r.last < n
         /\ \A j \in r.head + 1 .. r.last - 1 : K(j) = "chunk"
         /\ K(r.last) = "last"
         /\ \A j \in r.last + 1 .. n - 1 : K(j) \in Headers
         /\ K(n) = "end"
      \/ n = r.head + 1 /\ r.last = n /\ K(n) = "data"
      \/ n = r.head /\ r.last = n
  <2>1. BodyIsRight(r)
    BY ResponsesAssumption DEF IsResponse
  <2> QED BY <1>1, <2>1 DEF BodyIsRight
<1> HIDE DEF K, n
<1>3. i \in 1 .. n
  BY DEF n
<1>4. /\ r.head \in 2 .. n /\ r.last \in r.head .. n
      /\ K(i) = "status" <=> i = 1
      /\ i < r.head <=> K(i) = "status" \/ (K(i) \in Headers /\ ~(i > r.last))
      /\ i < r.head \/ (K(i) \in Headers /\ i > r.last) => i < n /\ K(i + 1) \in Headers \cup {"end"}
      /\ K(i) = "end" <=> i = r.head \/ (i = n /\ i > r.last)
      /\ K(i) = "data" => i = n /\ i > r.head /\ i = r.last
      /\ K(i) = "chunk" => i > r.head /\ i < r.last /\ K(i + 1) \in {"chunk", "last"}
      /\ K(i) = "last" => i > r.head /\ i = r.last /\ i < n /\ K(i + 1) \in Headers \cup {"end"}
  <2>1. CASE i = 1 \/ i \in 2 .. r.head - 1
    BY <1>1, <1>2, <1>3, <2>1 DEF Headers
  <2>2. CASE i = r.head
    BY <1>1, <1>2, <1>3, <2>2 DEF Headers
  <2>3. CASE i > r.head
    <3>1. K(i) # "status" /\ ~(i < r.head) /\ i # r.head /\ i # 1
      BY <1>1, <1>2, <1>3, <2>3 DEF Headers
    <3>2. CASE r.head < r.last /\ i < r.last
      BY <1>1, <1>2, <1>3, <2>3, <3>1, <3>2 DEF Headers
    <3>3. CASE r.head < r.last /\ i = r.last
      BY <1>1, <1>2, <1>3, <2>3, <3>1, <3>3 DEF Headers
    <3>4. CASE i > r.last
      BY <1>1, <1>2, <1>3, <2>3, <3>1, <3>4 DEF Headers
    <3> QED BY <1>1, <1>2, <1>3, <2>3, <3>2, <3>3, <3>4
  <2> QED BY <1>1, <1>3, <2>1, <2>2, <2>3
<1> QED BY <1>1, <1>4 DEF K, n

-----------------------------------------------------------------------------
(* One character on.                                                       *)

LEMMA Within ==
  ASSUME NEW r \in Responses, NEW i \in 1 .. Len(r.lines), NEW k \in Nat, k < Len(r.lines[i].text)
  PROVE  k \in 0 .. Len(r.lines[i].text)
<1>1. Len(r.lines[i].text) \in Nat
  BY LineFacts
<1> QED BY <1>1


\* A line has at least one character.
LEMMA NotEmpty == ASSUME NEW r \in Responses, NEW i \in 1 .. Len(r.lines) PROVE Len(r.lines[i].text) > 0
<1> DEFINE l == r.lines[i]
<1>1. l.kind \in Kinds /\ WellFormed(l) /\ Len(l.text) \in Nat /\ l.mark \in Nat /\ l.first \in Nat /\ l.stop \in Nat
  BY LineFacts
<1> HIDE DEF l
<1>2. l.kind \in {"length", "chunked"} => Len(l.text) > 0
  <2>1. l.kind \in {"length", "chunked"} => l.stop < Len(l.text)
    BY <1>1 DEF WellFormed, LengthLine, ChunkedLine, Framing, Ends
  <2> QED BY <1>1, <2>1
<1>3. l.kind = "other" => Len(l.text) > 0
  <2>1. l.kind = "other" => 1 < l.mark /\ l.mark < Len(l.text)
    BY <1>1 DEF WellFormed, OtherLine
  <2> QED BY <1>1, <2>1
<1>4. l.kind = "end" => Len(l.text) > 0
  BY <1>1 DEF WellFormed, Ends
<1>5. l.kind \in {"chunk", "last"} => Len(l.text) > 0
  <2>1. l.kind \in {"chunk", "last"} => l.stop + 2 <= l.mark /\ l.mark <= Len(l.text)
    BY <1>1 DEF WellFormed, ChunkLine, LastLine, SizeLine
  <2> QED BY <1>1, <2>1
<1>6. l.kind \in {"status", "data"} => Len(l.text) > 0
  BY <1>1 DEF WellFormed
<1>7. Len(l.text) > 0
  BY <1>1, <1>2, <1>3, <1>4, <1>5, <1>6 DEF Kinds, Headers
<1> QED BY <1>7 DEF l

LEMMA Ahead ==
  ASSUME NEW a \in Nat, NEW b \in Nat, NEW c \in Nat, NEW d \in Nat, a + b = c, d + 1 = b
  PROVE  c + 0 + 0 = a + d + 1
OBVIOUS

LEMMA Sums == \A a, b \in Nat : a + (b + 1) + 0 = a + b + 1
OBVIOUS

\* The switch looks at the byte behind k characters of line i.
Looking(r, i, k) ==
  /\ ParserInv /\ ch # NoChar
  /\ counted = NoCode /\ http_errno = "OK" /\ outcome \in {"none", "bytes"}
  /\ Place(r, i, k) /\ AtLine(r.lines[i], k) /\ Knows(r, i, k)

Still == UNCHANGED <<ch, todo, counted, http_errno, outcome, nparsed>>
Taken == ch' = NoChar /\ nparsed' = 1 /\ UNCHANGED <<todo, counted, http_errno, outcome>>

LEMMA Sees ==
  ASSUME NEW r \in Responses, NEW i \in 1 .. Len(r.lines), NEW k \in Nat, Looking(r, i, k)
  PROVE  /\ k < Len(r.lines[i].text) /\ k + 1 \in 1 .. Len(r.lines[i].text)
         /\ ch \in Char
         /\ r.lines[i].text[k + 1] \in Char => ch = r.lines[i].text[k + 1]
<1>1. ch \in Char /\ (r.lines[i].text[k + 1] # AnyChar => ch = r.lines[i].text[k + 1])
  BY DEF Looking, ParserInv, TypeOK, Place
<1>2. k < Len(r.lines[i].text)
  BY DEF Looking, Place
<1>3. k + 1 \in 1 .. Len(r.lines[i].text)
  BY <1>2, LineFacts
<1> QED BY <1>1, <1>2, <1>3, Letters

LEMMA StaysHere ==
  ASSUME NEW r \in Responses, NEW i \in 1 .. Len(r.lines), NEW k \in Nat, Looking(r, i, k),
         Still, AtLine(r.lines[i], k)', Knows(r, i, k)'
  PROVE  Reading(r)'
<1>1. Place(r, i, k)'
  BY DEF Looking, Place, Still, Pending
<1>2. /\ counted' = NoCode /\ http_errno' = "OK" /\ outcome' \in {"none", "bytes"}
  BY DEF Looking, Still
<1>3. k \in 0 .. Len(r.lines[i].text)
  BY Within DEF Looking, Place
<1> QED BY <1>1, <1>2, <1>3 DEF Reading

LEMMA GoesOn ==
  ASSUME NEW r \in Responses, NEW i \in 1 .. Len(r.lines), NEW k \in Nat, Looking(r, i, k),
         Taken, k + 1 < Len(r.lines[i].text), AtLine(r.lines[i], k + 1)', Knows(r, i, k + 1)'
  PROVE  Reading(r)'
<1> DEFINE l == r.lines[i]
<1>1. /\ Len(todo) = Len(r.wire) - (l.from + k + 1) /\ todo' = todo
      /\ \A j \in 1 .. Len(todo) : todo[j] = r.wire[l.from + k + 1 + j]
      /\ l.from \in Nat /\ Len(l.text) \in Nat /\ Len(r.wire) \in Nat
  BY LineFacts DEF Looking, Place, Taken, Pending
<1>2. Pending' = 0 /\ ch' = NoChar
  BY DEF Pending, Taken
<1>3. k + 1 < Len(l.text)
  OBVIOUS
<1> HIDE DEF l
<1>8. l.from + (k + 1) + 0 = l.from + k + 1
  <2>1. l.from \in Nat
    BY <1>1
  <2> QED BY <2>1, Sums
<1>4. /\ Len(todo') = Len(r.wire) - (l.from + (k + 1) + 0)
      /\ \A j \in 1 .. Len(todo') : todo'[j] = r.wire[l.from + (k + 1) + 0 + j]
  BY <1>1, <1>8
<1>5. Place(r, i, k + 1)'
  BY <1>2, <1>3, <1>4 DEF Place, l
<1>6. /\ counted' = NoCode /\ http_errno' = "OK" /\ outcome' \in {"none", "bytes"}
  BY DEF Looking, Taken
<1>7. k + 1 \in 0 .. Len(r.lines[i].text)
  BY Within
<1> QED BY <1>5, <1>6, <1>7 DEF Reading

LEMMA GoesNext ==
  ASSUME NEW r \in Responses, NEW i \in 1 .. Len(r.lines), NEW k \in Nat, Looking(r, i, k),
         Taken, k + 1 = Len(r.lines[i].text), i < Len(r.lines),
         AtLine(r.lines[i + 1], 0)', Knows(r, i + 1, 0)'
  PROVE  Reading(r)'
<1> DEFINE l == r.lines[i]
           m == r.lines[i + 1]
<1>1. /\ Len(todo) = Len(r.wire) - (l.from + k + 1) /\ todo' = todo
      /\ \A j \in 1 .. Len(todo) : todo[j] = r.wire[l.from + k + 1 + j]
      /\ l.from \in Nat /\ Len(l.text) \in Nat /\ Len(r.wire) \in Nat
      /\ l.from + Len(l.text) = m.from /\ Len(r.lines) \in Nat
  BY LineFacts DEF Looking, Place, Taken, Pending
<1>2. Pending' = 0 /\ ch' = NoChar
  BY DEF Pending, Taken
<1>3. i + 1 \in 1 .. Len(r.lines)
  BY <1>1
<1>4. 0 < Len(m.text)
  BY <1>3, NotEmpty
<1>9. k + 1 = Len(l.text)
  OBVIOUS
<1> HIDE DEF l, m
<1>10. m.from + 0 + 0 = l.from + k + 1
  <2>1. l.from \in Nat /\ Len(l.text) \in Nat /\ m.from \in Nat /\ l.from + Len(l.text) = m.from
    BY <1>1, <1>3, LineFacts DEF l, m
  <2> DEFINE a == l.from
             b == Len(l.text)
             c == m.from
  <2>2. a \in Nat /\ b \in Nat /\ c \in Nat /\ a + b = c /\ k + 1 = b
    BY <1>9, <2>1
  <2> HIDE DEF a, b, c
  <2>3. c + 0 + 0 = a + k + 1
    BY <2>2
  <2> QED BY <2>3 DEF a, c
<1>5. /\ Len(todo') = Len(r.wire) - (m.from + 0 + 0)
      /\ \A j \in 1 .. Len(todo') : todo'[j] = r.wire[m.from + 0 + 0 + j]
  BY <1>1, <1>10
<1>6. Place(r, i + 1, 0)'
  BY <1>2, <1>4, <1>5, LineFacts DEF Place, m
<1>7. /\ counted' = NoCode /\ http_errno' = "OK" /\ outcome' \in {"none", "bytes"}
  BY DEF Looking, Taken
<1>8. 0 \in 0 .. Len(r.lines[i + 1].text)
  BY <1>3, <1>4, Within DEF m
<1> QED BY <1>3, <1>6, <1>7, <1>8 DEF Reading

-----------------------------------------------------------------------------
(* What is known of the response one character on.                         *)

LEMMA KnowsStays ==
  ASSUME NEW r \in Responses, NEW i \in 1 .. Len(r.lines), NEW k \in Nat, Looking(r, i, k),
         Still, UNCHANGED <<status_code, nread, content_length>>,
         "TRAILING" \in flags' <=> "TRAILING" \in flags,
         upgrade' => ~Plain(r) /\ (i > r.head \/ state' = "s_headers_done"),
         i <= r.head => /\ "CHUNKED" \in Seen' <=> "CHUNKED" \in Seen
                        /\ Plain(r) => "UPGRADE" \notin flags' /\ header_state' # "h_upgrade"
  PROVE  Knows(r, i, k)'
<1>1. Pending' = Pending
  BY DEF Still, Pending
<1>2. i <= r.head => KnowsHead(r, i, k)'
  BY <1>1 DEF Looking, Knows, KnowsHead, Before, Still
<1> QED BY <1>1, <1>2 DEF Looking, Knows, Still

LEMMA KnowsOn ==
  ASSUME NEW r \in Responses, NEW i \in 1 .. Len(r.lines), NEW k \in Nat, Looking(r, i, k),
         Taken, nread' = nread,
         i > 1 \/ k > 2 => status_code' = r.code,
         "TRAILING" \in flags' <=> "TRAILING" \in flags,
         upgrade' => ~Plain(r) /\ i > r.head,
         i <= r.head =>
           /\ "CHUNKED" \in Seen' <=> "CHUNKED" \in Seen
           /\ Plain(r) => "UPGRADE" \notin flags' /\ header_state' # "h_upgrade"
           /\ ~(Kind(r, i) = "length" /\ k + 1 > r.lines[i].first) =>
                content_length' = IF Before(r, i, "length") THEN r.length ELSE NoLength
  PROVE  Knows(r, i, k + 1)'
<1>1. Pending' = 0 /\ Pending = 1 /\ nparsed' = 1
  BY DEF Taken, Pending, Looking
<1>2. r.lines[i].from \in Nat /\ i \in Nat
  BY LineFacts
<1>3. r.lines[i].from + (k + 1) + 0 = r.lines[i].from + k + 1
  BY <1>2
<1>4. i <= r.head => KnowsHead(r, i, k + 1)'
  BY <1>1, <1>2, <1>3 DEF Looking, Knows, KnowsHead, Before
<1>5. i > r.last => nread' = (r.lines[i].from + (k + 1) + Pending') - r.lines[r.last + 1].from
  <2>1. i > r.last => nread = (r.lines[i].from + k + 1) - r.lines[r.last + 1].from
    BY <1>1 DEF Looking, Knows
  <2>2. r.lines[i].from + (k + 1) + Pending' = r.lines[i].from + k + 1
    BY <1>1, <1>3
  <2>3. nread' = nread
    OBVIOUS
  <2> QED BY <2>1, <2>2, <2>3
<1>6. /\ i > 1 \/ k + 1 > 3 => status_code' = r.code
      /\ "TRAILING" \in flags' <=> i > r.last
  BY DEF Looking, Knows
<1> QED BY <1>1, <1>4, <1>5, <1>6 DEF Knows

\* Between two lines of the head, or of the trailers.
LEMMA KnowsNext ==
  ASSUME NEW r \in Responses, NEW i \in 1 .. Len(r.lines), NEW k \in Nat, Looking(r, i, k),
         Taken, nread' = nread, k + 1 = Len(r.lines[i].text),
         i < Len(r.lines), i < r.head \/ i > r.last,
         status_code' = r.code,
         "TRAILING" \in flags' <=> "TRAILING" \in flags,
         upgrade' => ~Plain(r) /\ i > r.head,
         i < r.head =>
           /\ "CHUNKED" \in Seen' <=> Before(r, i, "chunked") \/ Kind(r, i) = "chunked"
           /\ Plain(r) => "UPGRADE" \notin flags' /\ header_state' # "h_upgrade"
           /\ content_length' = IF Before(r, i, "length") \/ Kind(r, i) = "length" THEN r.length ELSE NoLength
  PROVE  Knows(r, i + 1, 0)'
<1> DEFINE l == r.lines[i]
           m == r.lines[i + 1]
           n == Len(r.lines)
           base == r.lines[r.last + 1].from
<1>1. Pending' = 0 /\ Pending = 1 /\ nparsed' = 1
  BY DEF Taken, Pending, Looking
<1>2. l.from \in Nat /\ i \in Nat /\ l.from + Len(l.text) = m.from /\ i >= 1 /\ n \in Nat
  BY LineFacts
<1>3. r.head \in 2 .. n /\ r.last \in r.head .. n
  BY Sequel
<1>4. m.from + 0 + 0 = l.from + k + 1
  <2>1. k + 1 = Len(l.text) /\ Len(l.text) \in Nat /\ m.from \in Nat
    BY <1>2, LineFacts
  <2> DEFINE a == l.from
             b == Len(l.text)
             c == m.from
  <2>2. a \in Nat /\ b \in Nat /\ c \in Nat /\ a + b = c /\ k + 1 = b
    BY <1>2, <2>1
  <2> HIDE DEF a, b, c
  <2>3. c + 0 + 0 = a + k + 1
    BY <2>2
  <2> QED BY <2>3 DEF a, c
<1>5. \A kind : Before(r, i + 1, kind) <=> Before(r, i, kind) \/ (i > 1 /\ Kind(r, i) = kind)
  BY <1>2 DEF Before
<1>6. Kind(r, i) \in {"chunked", "length"} => i > 1
  BY <1>2, Sequel
<1>7. i < r.head => KnowsHead(r, i + 1, 0)'
  <2> SUFFICES ASSUME i < r.head PROVE KnowsHead(r, i + 1, 0)'
    OBVIOUS
  <2>1. nread = l.from + k + 1
    BY <1>1, <1>2, <1>3 DEF Looking, Knows, KnowsHead
  <2>2. nread' = m.from + 0 + Pending'
    BY <1>1, <1>4, <2>1
  <2>3. "CHUNKED" \in Seen' <=> Before(r, i + 1, "chunked")
    BY <1>5, <1>6
  <2>4. content_length' = IF Before(r, i + 1, "length") THEN r.length ELSE NoLength
    BY <1>5, <1>6
  <2>5. Before(r, i + 1, "chunked")' = Before(r, i + 1, "chunked") /\ Before(r, i + 1, "length")' = Before(r, i + 1, "length")
    BY DEF Before
  <2> QED BY <2>2, <2>3, <2>4, <2>5 DEF KnowsHead
<1>8. i + 1 > r.last <=> i > r.last
  BY <1>2, <1>3
<1>9. i > r.last => nread' = (m.from + 0 + Pending') - base
  <2>1. i > r.last => nread = (l.from + k + 1) - base
    BY <1>1 DEF Looking, Knows
  <2>2. m.from + 0 + Pending' = l.from + k + 1
    BY <1>1, <1>4
  <2>3. nread' = nread
    OBVIOUS
  <2> HIDE DEF l, m, n, base
  <2> QED BY <2>1, <2>2, <2>3
<1>10. /\ "TRAILING" \in flags' <=> i + 1 > r.last
       /\ upgrade' => ~Plain(r) /\ (i + 1 > r.head \/ state' = "s_headers_done")
  BY <1>2, <1>3, <1>8 DEF Looking, Knows
<1>11. i + 1 <= r.head <=> i < r.head
  BY <1>2, <1>3
<1> HIDE DEF l, n, base
<1>12. i + 1 > r.last => nread' = (r.lines[i + 1].from + 0 + Pending') - r.lines[r.last + 1].from
  BY <1>8, <1>9 DEF base
<1> HIDE DEF m
<1> QED BY <1>1, <1>7, <1>10, <1>11, <1>12 DEF Knows


-----------------------------------------------------------------------------
(* The steps of the switch in a correct response.                          *)

LEMMA Digits == \A d \in Digit : Value[d] \in 0 .. 9
<1> TAKE d \in Digit
<1> DEFINE v == Value[d]
<1>1. v \in 0 .. 15 /\ v <= 9
  BY DigitAssumption
<1> HIDE DEF v
<1>2. v \in 0 .. 9
  BY <1>1
<1> QED BY <1>2 DEF v

LEMMA OneState ==
  /\ StartRes => state = "s_start_res"
  /\ FirstStatusCode => state = "s_res_first_status_code"
  /\ StatusCode => state = "s_res_status_code"
  /\ StatusText => state = "s_res_status"
  /\ LineAlmostDone => state = "s_res_line_almost_done"
  /\ HeaderFieldStart => state = "s_header_field_start"
  /\ HeaderField => state = "s_header_field"
  /\ ValueDiscardWs => state = "s_header_value_discard_ws"
  /\ ValueStart => state = "s_header_value_start"
  /\ HeaderValue => state = "s_header_value"
  /\ HeaderAlmostDone => state = "s_header_almost_done"
  /\ ValueLws => state = "s_header_value_lws"
  /\ DiscardWsAlmostDone => state = "s_header_value_discard_ws_almost_done"
  /\ DiscardLws => state = "s_header_value_discard_lws"
  /\ HeadersAlmostDone => state = "s_headers_almost_done"
  /\ HeadersDone => state = "s_headers_done"
  /\ BodyIdentity => state = "s_body_identity"
  /\ BodyIdentityEof => state = "s_body_identity_eof"
  /\ MessageDone => state = "s_message_done"
  /\ ChunkSizeStart => state = "s_chunk_size_start"
  /\ ChunkSize => state = "s_chunk_size"
  /\ ChunkParameters => state = "s_chunk_parameters"
  /\ ChunkSizeAlmostDone => state = "s_chunk_size_almost_done"
  /\ ChunkData => state = "s_chunk_data"
  /\ ChunkDataAlmostDone => state = "s_chunk_data_almost_done"
  /\ ChunkDataDone => state = "s_chunk_data_done"
BY DEF StartRes, FirstStatusCode, StatusCode, StatusText, LineAlmostDone, HeaderFieldStart,
       HeaderField, ValueDiscardWs, ValueStart, HeaderValue, HeaderAlmostDone, ValueLws,
       DiscardWsAlmostDone, DiscardLws, HeadersAlmostDone, HeadersDone, BodyIdentity,
       BodyIdentityEof, MessageDone, ChunkSizeStart, ChunkSize, ChunkParameters,
       ChunkSizeAlmostDone, ChunkData, ChunkDataAlmostDone, ChunkDataDone, In

\* The state says which case of the switch it is.
LEMMA Which ==
  ASSUME Switch
  PROVE  /\ state = "s_start_res" => StartRes
         /\ state = "s_res_first_status_code" => FirstStatusCode
         /\ state = "s_res_status_code" => StatusCode
         /\ state = "s_res_status" => StatusText
         /\ state = "s_res_line_almost_done" => LineAlmostDone
         /\ state = "s_header_field_start" => HeaderFieldStart
         /\ state = "s_header_field" => HeaderField
         /\ state = "s_header_value_discard_ws" => ValueDiscardWs
         /\ state = "s_header_value_start" => ValueStart
         /\ state = "s_header_value" => HeaderValue
         /\ state = "s_header_almost_done" => HeaderAlmostDone
         /\ state = "s_header_value_lws" => ValueLws
         /\ state = "s_header_value_discard_ws_almost_done" => DiscardWsAlmostDone
         /\ state = "s_header_value_discard_lws" => DiscardLws
         /\ state = "s_headers_almost_done" => HeadersAlmostDone
         /\ state = "s_headers_done" => HeadersDone
         /\ state = "s_body_identity" => BodyIdentity
         /\ state = "s_message_done" => MessageDone
         /\ state = "s_chunk_size_start" => ChunkSizeStart
         /\ state = "s_chunk_size" => ChunkSize
         /\ state = "s_chunk_parameters" => ChunkParameters
         /\ state = "s_chunk_size_almost_done" => ChunkSizeAlmostDone
         /\ state = "s_chunk_data" => ChunkData
         /\ state = "s_chunk_data_almost_done" => ChunkDataAlmostDone
         /\ state = "s_chunk_data_done" => ChunkDataDone
         /\ UNCHANGED <<server, outcome>>
BY OneState DEF Switch

LEMMA TakesIt ==
  ASSUME NEW s, Take(s), UNCHANGED <<server, outcome>>
  PROVE  Taken /\ state' = s
BY DEF Take, Taken, server

LEMMA LooksAgain ==
  ASSUME NEW s, Again(s), UNCHANGED <<server, outcome>>
  PROVE  Still /\ state' = s
BY DEF Again, Still, server

\* A value leaves a flag that matters behind only if it is chunked.
LEMMA FlagIs ==
  /\ "TRAILING" \notin Flag /\ "UPGRADE" \notin Flag
  /\ "CHUNKED" \in Flag <=> header_state = "h_transfer_encoding_chunked"
BY DEF Flag

LEMMA Starts ==
  ASSUME NEW r \in Responses, NEW i \in 1 .. Len(r.lines), Kind(r, i) \in Headers \cup {"end"}, AtStart'
  PROVE  AtLine(r.lines[i], 0)'
<1> DEFINE m == r.lines[i]
<1>1. WellFormed(m) /\ m.first \in Nat /\ m.mark \in Nat
  BY LineFacts
<1>2. m.kind \in {"length", "chunked", "other", "end"}
  BY DEF Kind, Headers
<1> HIDE DEF m
<1>3. state' # "s_headers_done" /\ state' # "s_message_done"
  BY DEF AtStart, LwsStates
<1>4. AtFraming(m, 0, "h_content_length")' /\ AtFraming(m, 0, "h_transfer_encoding_chunked")'
  BY <1>1 DEF AtFraming
<1>5. AtLength(m, 0)'
  BY <1>1, <1>4 DEF AtLength
<1>6. m.kind = "other" => AtOther(m, 0)'
  <2>1. m.kind = "other" => 1 < m.mark
    BY <1>1 DEF WellFormed, OtherLine
  <2> QED BY <1>1, <2>1 DEF AtOther
<1>7. AtEnd(m, 0)'
  BY <1>3 DEF AtEnd
<1>8. AtLine(m, 0)'
  BY <1>2, <1>4, <1>5, <1>6, <1>7 DEF AtLine
<1> QED BY <1>8 DEF m

\* In the head or the trailers, a line is followed by a header or the empty line.
LEMMA StartsNext ==
  ASSUME NEW r \in Responses, NEW i \in 1 .. Len(r.lines), i < Len(r.lines),
         Kind(r, i + 1) \in Headers \cup {"end"}, AtStart'
  PROVE  AtLine(r.lines[i + 1], 0)'
<1>1. i + 1 \in 1 .. Len(r.lines)
  BY LineFacts
<1> QED BY <1>1, Starts

\* A header is over when the next line does not begin with a space.
LEMMA StartsAgain ==
  ASSUME NEW r \in Responses, NEW i \in 1 .. Len(r.lines), Looking(r, i, 0),
         Kind(r, i) \in Headers \cup {"end"}, Switch, state \in LwsStates, ch # "SP"
  PROVE  Reading(r)'
<1>1. /\ Again("s_header_field_start") /\ flags' = flags \cup Flag
      /\ UNCHANGED <<header_state, content_length, status_code, nread, upgrade, server, outcome>>
  <2>1. UNCHANGED <<server, outcome>> /\ (ValueLws \/ DiscardLws)
    BY Which DEF LwsStates
  <2> QED BY <2>1 DEF ValueLws, DiscardLws
<1>2. Still /\ state' = "s_header_field_start"
  BY <1>1, LooksAgain
<1>3. "TRAILING" \in flags' <=> "TRAILING" \in flags
  BY <1>1, FlagIs
<1>4. Seen' = Seen
  BY <1>1, <1>2 DEF Seen, LwsStates
<1>5. /\ upgrade' => ~Plain(r) /\ (i > r.head \/ state' = "s_headers_done")
      /\ i <= r.head => (Plain(r) => "UPGRADE" \notin flags' /\ header_state' # "h_upgrade")
  <2>1. state # "s_headers_done"
    BY DEF LwsStates
  <2> QED BY <1>1, <2>1, FlagIs DEF Looking, Knows, KnowsHead
<1>6. Knows(r, i, 0)'
  BY <1>1, <1>2, <1>3, <1>4, <1>5, KnowsStays
<1>7. AtLine(r.lines[i], 0)'
  BY <1>2, Starts DEF AtStart
<1> QED BY <1>2, <1>6, <1>7, StaysHere

-----------------------------------------------------------------------------
(* In the status line.                                                     *)

LEMMA StatusSteps ==
  ASSUME NEW r \in Responses, NEW i \in 1 .. Len(r.lines), NEW k \in Nat, Looking(r, i, k),
         Kind(r, i) = "status", Switch
  PROVE  Reading(r)'
<1> DEFINE l == r.lines[i]
           x == l.text
           n == Len(x)
<1>1. i = 1 /\ r.head \in 2 .. Len(r.lines) /\ r.last \in r.head .. Len(r.lines) /\ 1 < Len(r.lines)
  <2>1. i = 1 /\ r.head \in 2 .. Len(r.lines) /\ r.last \in r.head .. Len(r.lines)
    BY Sequel
  <2>2. Len(r.lines) \in Nat
    BY LineFacts
  <2> QED BY <2>1, <2>2
<1>2. StatusLine(l, r.code)
  BY <1>1, ResponsesAssumption DEF IsResponse, HeadIsRight
<1>3. /\ n \in Nat /\ n >= 5 /\ x[1] = "version" /\ x[2] \in Digit /\ x[3] \in Digit /\ x[4] \in Digit
      /\ x[5] \in {"SP", "CR", "LF"} /\ x[n] = "LF"
      /\ \A j \in 5 .. n - 1 : x[j] \in Char \ {"CR", "LF"} \/ (j = n - 1 /\ x[j] = "CR")
      /\ r.code = 10 * (10 * Value[x[2]] + Value[x[3]]) + Value[x[4]]
  <2>1. n \in Nat
    BY LineFacts
  <2>2. \A j \in 2 .. 4 : x[j] \in Digit
    BY <1>2 DEF StatusLine
  <2>3. x[2] \in Digit /\ x[3] \in Digit /\ x[4] \in Digit
    BY <2>2
  <2> QED BY <1>2, <2>1, <2>3 DEF StatusLine, Ends
<1>4. AtStatus(l, k)
  BY DEF Looking, AtLine, Kind
<1>5. k < n /\ ch \in Char /\ (x[k + 1] \in Char => ch = x[k + 1]) /\ k + 1 \in 1 .. n
  BY Sees
<1>6. \A s : Take(s) => Taken /\ state' = s
  BY Which, TakesIt
<1>7. /\ "TRAILING" \notin flags /\ (upgrade => state = "s_headers_done")
      /\ nread = l.from + k + 1
      /\ "CHUNKED" \in Seen <=> Before(r, i, "chunked")
      /\ Plain(r) => "UPGRADE" \notin flags /\ header_state # "h_upgrade"
      /\ k > 0 => content_length = IF Before(r, i, "length") THEN r.length ELSE NoLength
  BY <1>1 DEF Looking, Knows, KnowsHead, Pending, Kind
<1>8. ~Before(r, i, "length") /\ ~Before(r, i, "chunked")
  BY <1>1 DEF Before
<1>9. k \in 0 .. 4 \/ k > 4
  OBVIOUS
<1>10. "LF" \in Char /\ "CR" \in Char /\ "SP" \in Char /\ "version" \in Char
  BY Letters DEF Mark
<1>11. \A d \in Digit : d \in Char /\ d \notin {"SP", "CR", "LF"}
  BY Letters DEF Mark, Char, Token
<1>12. /\ k = 0 => StartRes
       /\ k = 1 => FirstStatusCode
       /\ k \in 2 .. 4 => StatusCode
       /\ k > 4 => StatusText \/ LineAlmostDone
       /\ state # "s_headers_done" /\ state \notin LwsStates
  BY <1>4, <1>9, Which DEF AtStatus, LwsStates
<1>13. ASSUME Taken, UNCHANGED <<header_state, nread, upgrade>>, state' \notin LwsStates,
              k = 0 => flags' = {} /\ content_length' = NoLength,
              k > 0 => UNCHANGED <<flags, content_length>>,
              k > 2 => status_code' = r.code
       PROVE  /\ k + 1 < n /\ AtStatus(l, k + 1)' => Reading(r)'
              /\ k + 1 = n /\ state' = "s_header_field_start" => Reading(r)'
  <2>1. /\ "TRAILING" \in flags' <=> "TRAILING" \in flags
        /\ ~upgrade'
    BY <1>7, <1>12, <1>13
  <2>2. "CHUNKED" \notin Seen /\ "CHUNKED" \notin Seen'
    BY <1>7, <1>8, <1>12, <1>13 DEF Seen
  <2>3. /\ Plain(r) => "UPGRADE" \notin flags' /\ header_state' # "h_upgrade"
        /\ content_length' = IF Before(r, i, "length") THEN r.length ELSE NoLength
    BY <1>7, <1>8, <1>13
  <2>4. k + 1 < n /\ AtStatus(l, k + 1)' => Reading(r)'
    <3> SUFFICES ASSUME k + 1 < n, AtStatus(l, k + 1)' PROVE Reading(r)'
      OBVIOUS
    <3>1. AtLine(l, k + 1)'
      BY DEF AtLine, Kind
    <3>2. i > 1 \/ k > 2 => status_code' = r.code
      BY <1>1, <1>13
    <3>3. Knows(r, i, k + 1)'
      BY <1>13, <2>1, <2>2, <2>3, <3>2, KnowsOn
    <3> QED BY <1>13, <3>1, <3>3, GoesOn
  <2>5. k + 1 = n /\ state' = "s_header_field_start" => Reading(r)'
    <3> SUFFICES ASSUME k + 1 = n, state' = "s_header_field_start" PROVE Reading(r)'
      OBVIOUS
    <3>1. i < Len(r.lines) /\ Kind(r, i + 1) \in Headers \cup {"end"} /\ i < r.head
      BY <1>1, Sequel
    <3>2. AtLine(r.lines[i + 1], 0)'
      BY <3>1, StartsNext DEF AtStart
    <3>3. status_code' = r.code
      BY <1>3, <1>13
    <3>4. Kind(r, i) # "chunked" /\ Kind(r, i) # "length"
      OBVIOUS
    <3>5. Knows(r, i + 1, 0)'
      BY <1>8, <1>13, <2>1, <2>2, <2>3, <3>1, <3>3, <3>4, KnowsNext
    <3> QED BY <1>13, <3>1, <3>2, <3>5, GoesNext
  <2> QED BY <2>4, <2>5
<1> HIDE DEF n, x, l
<1>14. CASE k = 0
  <2>1. ch = "version"
    BY <1>3, <1>5, <1>10, <1>14
  <2>2. Take("s_res_first_status_code") /\ flags' = {} /\ content_length' = NoLength
        /\ UNCHANGED <<header_state, nread, upgrade>>
    BY <1>12, <1>14, <2>1 DEF StartRes
  <2>3. Taken /\ state' = "s_res_first_status_code"
    BY <1>6, <2>2
  <2>4. AtStatus(l, k + 1)' /\ state' \notin LwsStates
    BY <1>14, <2>3 DEF AtStatus, LwsStates
  <2>5. k + 1 < n
    BY <1>3, <1>14
  <2> QED BY <1>13, <1>14, <2>2, <2>3, <2>4, <2>5
<1>15. CASE k = 1
  <2>1. ch = x[2] /\ ch \in Digit
    BY <1>3, <1>5, <1>11, <1>15
  <2>2. Take("s_res_status_code") /\ status_code' = Value[x[2]]
        /\ UNCHANGED <<header_state, flags, content_length, nread, upgrade>>
    BY <1>11, <1>12, <1>15, <2>1 DEF FirstStatusCode, Number
  <2>3. Taken /\ state' = "s_res_status_code"
    BY <1>6, <2>2
  <2>4. AtStatus(l, k + 1)' /\ state' \notin LwsStates
    BY <1>15, <2>2, <2>3 DEF AtStatus, LwsStates, l, x
  <2>5. k + 1 < n
    BY <1>3, <1>15
  <2> QED BY <1>13, <1>15, <2>2, <2>3, <2>4, <2>5
<1>16. CASE k \in {2, 3}
  <2>1. ch = x[k + 1] /\ ch \in Digit
    BY <1>3, <1>5, <1>11, <1>16
  <2>2. status_code' = 10 * status_code + Value[x[k + 1]] /\ (Take(state) \/ status_code' > 999)
        /\ UNCHANGED <<header_state, flags, content_length, nread, upgrade>>
    BY <1>11, <1>12, <1>16, <2>1 DEF StatusCode, StatusDigit, EndOfCode, Number
  <2>3. Value[x[2]] \in 0 .. 9 /\ Value[x[3]] \in 0 .. 9 /\ Value[x[4]] \in 0 .. 9
    BY <1>3, Digits
  <2>4. /\ k = 2 => status_code' = 10 * Value[x[2]] + Value[x[3]]
        /\ k = 3 => status_code' = r.code
        /\ status_code' \in Int /\ status_code' <= 999
    <3>1. /\ k = 2 => status_code = Value[x[2]]
          /\ k = 3 => status_code = 10 * Value[x[2]] + Value[x[3]]
      BY <1>4 DEF AtStatus, x
    <3> DEFINE a == Value[x[2]]
               b == Value[x[3]]
               c == Value[x[4]]
    <3>2. a \in 0 .. 9 /\ b \in 0 .. 9 /\ c \in 0 .. 9 /\ r.code = 10 * (10 * a + b) + c
      BY <1>3, <2>3
    <3>3. /\ k = 2 => status_code = a /\ status_code' = 10 * status_code + b
          /\ k = 3 => status_code = 10 * a + b /\ status_code' = 10 * status_code + c
      BY <2>2, <3>1
    <3> HIDE DEF a, b, c
    <3>4. /\ k = 2 => status_code' = 10 * a + b
          /\ k = 3 => status_code' = r.code
          /\ status_code' \in Int /\ status_code' <= 999
      BY <1>16, <3>2, <3>3
    <3> QED BY <3>4 DEF a, b
  <2>5. Take(state) /\ state = "s_res_status_code"
    <3>1. ~(status_code' > 999)
      BY <2>4
    <3>2. state = "s_res_status_code"
      BY <1>4, <1>16 DEF AtStatus
    <3> QED BY <2>2, <3>1, <3>2
  <2>6. Taken /\ state' = "s_res_status_code"
    BY <1>6, <2>5
  <2>7. AtStatus(l, k + 1)' /\ state' \notin LwsStates
    BY <1>16, <2>4, <2>6 DEF AtStatus, LwsStates, l, x
  <2>8. k + 1 < n
    BY <1>3, <1>16
  <2> QED BY <1>13, <1>16, <2>2, <2>4, <2>6, <2>7, <2>8
<1>17. status_code = r.code \/ k < 4
  BY <1>1 DEF Looking, Knows
<1>18. CASE k = 4
  <2>1. ch = x[5] /\ ch \in {"SP", "CR", "LF"}
    BY <1>3, <1>5, <1>10, <1>18
  <2>2. EndOfCode /\ UNCHANGED <<header_state, flags, content_length, nread, upgrade>>
    BY <1>11, <1>12, <1>18, <2>1 DEF StatusCode, StatusDigit
  <2>3. /\ status_code' = r.code
        /\ ch = "SP" => Take("s_res_status")
        /\ ch = "CR" => Take("s_res_line_almost_done")
        /\ ch = "LF" => Take("s_header_field_start")
    BY <1>17, <1>18, <2>1, <2>2 DEF EndOfCode
  <2>4. n = 5 => ch = "LF"
    BY <1>3, <2>1
  <2>5. n > 5 => ch # "LF" /\ (ch = "CR" => n = 6)
    BY <1>3, <1>18, <2>1
  <2>6. CASE n = 5
    <3>1. Taken /\ state' = "s_header_field_start"
      BY <1>6, <2>3, <2>4, <2>6
    <3> QED BY <1>13, <1>18, <2>2, <2>3, <2>6, <3>1 DEF LwsStates
  <2>7. CASE n > 5
    <3>1. Taken /\ state' = IF ch = "SP" THEN "s_res_status" ELSE "s_res_line_almost_done"
      BY <1>6, <2>1, <2>3, <2>5, <2>7
    <3>2. AtStatus(l, k + 1)' /\ state' \notin LwsStates
      BY <1>18, <2>1, <2>5, <2>7, <3>1 DEF AtStatus, LwsStates, n, x
    <3> QED BY <1>13, <1>18, <2>2, <2>3, <2>7, <3>1, <3>2
  <2> QED BY <1>3, <2>6, <2>7
<1>19. CASE k > 4
  <2>1. state = "s_res_status" \/ (state = "s_res_line_almost_done" /\ k = n - 1)
    BY <1>4, <1>19 DEF AtStatus, n, x
  <2>2. /\ x[k + 1] \in Char /\ ch = x[k + 1]
        /\ k + 1 = n => ch = "LF"
        /\ k + 1 < n => ch # "LF" /\ (ch = "CR" => k = n - 2)
    <3>1. k + 1 = n => x[k + 1] = "LF"
      BY <1>3
    <3>2. k + 1 < n => k + 1 \in 5 .. n - 1
      BY <1>3, <1>19
    <3>3. k + 1 < n => x[k + 1] \in Char \ {"CR", "LF"} \/ (k + 1 = n - 1 /\ x[k + 1] = "CR")
      BY <1>3, <3>2
    <3>4. k + 1 = n \/ k + 1 < n
      BY <1>3, <1>5
    <3>5. x[k + 1] \in Char /\ ch = x[k + 1]
      BY <1>5, <1>10, <3>1, <3>3, <3>4
    <3> QED BY <1>3, <3>1, <3>3, <3>5
  <2>3. /\ UNCHANGED <<header_state, flags, content_length, status_code, nread, upgrade>>
        /\ ch = "LF" => Take("s_header_field_start")
        /\ ch # "LF" => state = "s_res_status"
        /\ ch = "CR" => Take("s_res_line_almost_done")
        /\ ch \notin {"CR", "LF"} => Take("s_res_status")
    <3>1. CASE state = "s_res_status"
      BY <3>1, OneState, <1>12, <1>19 DEF StatusText
    <3>2. CASE state = "s_res_line_almost_done" /\ k = n - 1
      <4>1. ch = "LF"
        BY <1>3, <2>2, <3>2
      <4> QED BY <3>2, <4>1, OneState, <1>12, <1>19 DEF LineAlmostDone, Expect
    <3> QED BY <2>1, <3>1, <3>2
  <2>4. CASE k + 1 = n
    <3>1. Taken /\ state' = "s_header_field_start"
      BY <1>6, <2>2, <2>3, <2>4
    <3> QED BY <1>13, <1>17, <1>19, <2>3, <2>4, <3>1 DEF LwsStates
  <2>5. CASE k + 1 < n
    <3>1. Taken /\ state' = IF ch = "CR" THEN "s_res_line_almost_done" ELSE "s_res_status"
      BY <1>6, <2>2, <2>3, <2>5
    <3>2. AtStatus(l, k + 1)' /\ state' \notin LwsStates
      <4>1. ch = "CR" => k + 1 = n - 1
        BY <1>3, <2>2, <2>5
      <4> QED BY <1>19, <3>1, <4>1 DEF AtStatus, LwsStates, n, x
    <3> QED BY <1>13, <1>17, <1>19, <2>3, <2>5, <3>1, <3>2
  <2> QED BY <1>3, <1>5, <2>4, <2>5
<1> QED BY <1>9, <1>14, <1>15, <1>16, <1>18, <1>19


-----------------------------------------------------------------------------
(* In a header.                                                            *)

\* The value of a header leaves no upgrade flag in a plain head.
Quiet(r, i) == i <= r.head /\ Plain(r) => "UPGRADE" \notin flags /\ header_state # "h_upgrade"

LEMMA InHeader ==
  ASSUME NEW r \in Responses, NEW i \in 1 .. Len(r.lines), NEW k \in Nat, Looking(r, i, k),
         Kind(r, i) \in Headers
  PROVE  /\ i > 1 /\ i < Len(r.lines) /\ i # r.head
         /\ i < r.head \/ i > r.last
         /\ Kind(r, i + 1) \in Headers \cup {"end"}
         /\ i > r.last => ~(i <= r.head) /\ i > r.head
         /\ status_code = r.code
         /\ state # "s_headers_done"
         /\ upgrade => ~Plain(r) /\ i > r.head
         /\ Quiet(r, i)
         /\ i <= r.head =>
              /\ "CHUNKED" \in Seen <=> Before(r, i, "chunked")
              /\ ~(Kind(r, i) = "length" /\ k > r.lines[i].first) =>
                   content_length = IF Before(r, i, "length") THEN r.length ELSE NoLength
<1> DEFINE l == r.lines[i]
<1>1. /\ i > 1 /\ i < Len(r.lines) /\ i # r.head
      /\ i < r.head \/ i > r.last
      /\ Kind(r, i + 1) \in Headers \cup {"end"}
      /\ i > r.last => ~(i <= r.head) /\ i > r.head
  <2>1. i > r.last => ~(i <= r.head) /\ i > r.head
    <3>1. r.head \in 2 .. Len(r.lines) /\ r.last \in r.head .. Len(r.lines)
      BY Sequel
    <3>2. Len(r.lines) \in Nat
      BY LineFacts
    <3> QED BY <3>1, <3>2
  <2>2. Kind(r, i) # "status" /\ Kind(r, i) # "end"
    BY DEF Headers
  <2>3. i # 1 /\ i # r.head /\ (i < r.head \/ i > r.last)
    BY <2>2, Sequel
  <2>4. i < Len(r.lines) /\ Kind(r, i + 1) \in Headers \cup {"end"}
    BY <2>3, Sequel
  <2> QED BY <2>1, <2>3, <2>4
<1>2. state # "s_headers_done"
  <2>1. AtLine(l, k) /\ l.kind \in Headers
    BY DEF Looking, Kind
  <2> HIDE DEF l
  <2>2. l.kind \in {"length", "chunked"} =>
          AtFraming(l, k, IF l.kind = "length" THEN "h_content_length" ELSE "h_transfer_encoding_chunked")
    BY <2>1 DEF AtLine, AtLength, Headers
  <2>3. l.kind = "other" => AtOther(l, k)
    BY <2>1 DEF AtLine
  <2>4. l.first \in Nat /\ l.mark \in Nat /\ (l.kind \in {"length", "chunked"} => l.first >= 2)
    BY LineFacts DEF l, WellFormed, LengthLine, ChunkedLine, Framing
  <2>5. l.kind \in {"length", "chunked"} => state # "s_headers_done"
    <3>1. k = 0 \/ k = 1 \/ (1 < k /\ k <= l.first) \/ k > l.first
      BY <2>4
    <3> QED BY <2>2, <3>1 DEF AtFraming, AtStart, LwsStates
  <2>6. l.kind = "other" => state # "s_headers_done"
    <3>1. k = 0 \/ (0 < k /\ k < l.mark) \/ k >= l.mark
      BY <2>4
    <3> QED BY <2>3, <3>1 DEF AtOther, AtStart, LwsStates
  <2> QED BY <2>1, <2>5, <2>6 DEF Headers
<1>3. Knows(r, i, k)
  BY DEF Looking
<1> QED BY <1>1, <1>2, <1>3 DEF Knows, KnowsHead, Quiet

LEMMA HeaderStays ==
  ASSUME NEW r \in Responses, NEW i \in 1 .. Len(r.lines), NEW k \in Nat, Looking(r, i, k),
         Kind(r, i) \in Headers, Still, UNCHANGED <<status_code, nread, content_length, upgrade>>,
         "TRAILING" \in flags' <=> "TRAILING" \in flags, "CHUNKED" \in Seen' <=> "CHUNKED" \in Seen,
         Quiet(r, i)', AtLine(r.lines[i], k)'
  PROVE  Reading(r)'
<1>1. Knows(r, i, k)'
  BY InHeader, KnowsStays DEF Quiet
<1> QED BY <1>1, StaysHere

LEMMA HeaderGoesOn ==
  ASSUME NEW r \in Responses, NEW i \in 1 .. Len(r.lines), NEW k \in Nat, Looking(r, i, k),
         Kind(r, i) \in Headers, Taken, UNCHANGED <<status_code, nread, upgrade>>,
         "TRAILING" \in flags' <=> "TRAILING" \in flags, "CHUNKED" \in Seen' <=> "CHUNKED" \in Seen,
         (Kind(r, i) = "length" /\ k + 1 > r.lines[i].first) \/ UNCHANGED content_length,
         Quiet(r, i)', k + 1 < Len(r.lines[i].text), AtLine(r.lines[i], k + 1)'
  PROVE  Reading(r)'
<1>1. r.lines[i].first \in Nat
  BY LineFacts
<1>2. i <= r.head /\ ~(Kind(r, i) = "length" /\ k + 1 > r.lines[i].first) =>
        content_length' = IF Before(r, i, "length") THEN r.length ELSE NoLength
  BY <1>1, InHeader
<1>3. Knows(r, i, k + 1)'
  BY <1>2, InHeader, KnowsOn DEF Quiet
<1> QED BY <1>3, GoesOn

LEMMA HeaderEnds ==
  ASSUME NEW r \in Responses, NEW i \in 1 .. Len(r.lines), NEW k \in Nat, Looking(r, i, k),
         Kind(r, i) \in Headers, Taken, UNCHANGED <<status_code, nread, upgrade, content_length>>,
         "TRAILING" \in flags' <=> "TRAILING" \in flags,
         "CHUNKED" \in Seen' <=> "CHUNKED" \in Seen \/ Kind(r, i) = "chunked",
         Kind(r, i) = "length" /\ i < r.head => content_length = r.length,
         Quiet(r, i)', k + 1 = Len(r.lines[i].text), AtStart'
  PROVE  Reading(r)'
<1>1. AtLine(r.lines[i + 1], 0)'
  BY InHeader, StartsNext
<1>2. i < r.head => i <= r.head
  <2>1. r.head \in Nat
    BY Sequel
  <2> QED BY <2>1
<1>3. i < r.head =>
        content_length' = IF Before(r, i, "length") \/ Kind(r, i) = "length" THEN r.length ELSE NoLength
  BY <1>2, InHeader
<1>4. Knows(r, i + 1, 0)'
  BY <1>2, <1>3, InHeader, KnowsNext DEF Quiet
<1> QED BY <1>1, <1>4, InHeader, GoesNext


LEMMA DecFits == ASSUME NEW m \in Nat, NEW c \in Nat, m >= 16, 10 * c <= m - 10 PROVE ~((m - 10) \div 10 < c)
OBVIOUS

LEMMA HexFits == ASSUME NEW m \in Nat, NEW c \in Nat, m >= 16, 16 * c <= m - 16 PROVE ~((m - 16) \div 16 < c)
OBVIOUS

\* A digit of a number the parser takes.
LEMMA DigitTaken ==
  ASSUME NEW base \in {10, 16}, content_length \in Nat, Number(ch) \in 0 .. base - 1,
         NEW m \in Nat, m = base * content_length + Number(ch), m <= MaxLength - base,
         LengthDigit(base)
  PROVE  content_length' = m /\ Take(state)
<1>1. ~NearLimit(base)
  <2>1. CASE base = 10
    <3>1. 10 * content_length <= MaxLength - 10
      BY <2>1, SizeAssumption
    <3> QED BY <2>1, <3>1, DecFits, SizeAssumption DEF NearLimit
  <2>2. CASE base = 16
    <3>1. 16 * content_length <= MaxLength - 16
      BY <2>2, SizeAssumption
    <3> QED BY <2>2, <3>1, HexFits, SizeAssumption DEF NearLimit
  <2> QED BY <2>1, <2>2
<1>2. NextDigit(base)
  BY <1>1 DEF LengthDigit
<1>3. m \in 0 .. MaxLength
  BY SizeAssumption
<1>4. Wrap(m) = m
  BY <1>3, Small, SizeAssumption DEF Wrap
<1> QED BY <1>2, <1>4 DEF NextDigit

\* What is known of a header that frames the body.
LEMMA FramingFacts ==
  ASSUME NEW r \in Responses, NEW i \in 1 .. Len(r.lines), Kind(r, i) \in {"length", "chunked"}
  PROVE  LET l == r.lines[i]
             x == l.text
             name == IF Kind(r, i) = "length" THEN "content-length" ELSE "transfer-encoding"
         IN  /\ Len(x) \in Nat /\ l.first \in Nat /\ l.stop \in Nat
             /\ 2 <= l.first /\ l.first < l.stop /\ l.stop < Len(x)
             /\ x[1] = name /\ x[2] = ":" /\ x[Len(x)] = "LF"
             /\ \A j \in 3 .. l.first : x[j] = "SP"
             /\ \A j \in l.stop + 1 .. Len(x) - 1 : x[j] = "SP" \/ (j = Len(x) - 1 /\ x[j] = "CR")
             /\ Kind(r, i) = "chunked" => l.stop = l.first + 1 /\ x[l.stop] = "chunked"
             /\ Kind(r, i) = "length" => Counts(l, Digit, 10)
             /\ Kind(r, i) = "length" /\ i < r.head => Size(l) = r.length
<1> DEFINE l == r.lines[i]
<1>1. l.kind \in {"length", "chunked"} /\ WellFormed(l) /\ Len(l.text) \in Nat /\ l.first \in Nat /\ l.stop \in Nat
  BY LineFacts DEF Kind
<1>2. LengthIsRight(r) /\ r.head \in 2 .. Len(r.lines) /\ i # 1
  <2>1. i # 1
    BY Sequel
  <2> QED BY <2>1, Sequel, ResponsesAssumption DEF IsResponse
<1>3. Kind(r, i) = "length" /\ i < r.head => Size(l) = r.length
  <2>1. i < r.head => i \in 2 .. r.head - 1
    BY <1>2
  <2> QED BY <1>2, <2>1 DEF LengthIsRight
<1>4. Kind(r, i) = l.kind
  BY DEF Kind
<1> HIDE DEF l
<1>5. /\ l.kind = "length" => Framing(l, "content-length") /\ Counts(l, Digit, 10)
      /\ l.kind = "chunked" => Framing(l, "transfer-encoding") /\ l.stop = l.first + 1 /\ l.text[l.stop] = "chunked"
  BY <1>1 DEF WellFormed, LengthLine, ChunkedLine
<1>6. Framing(l, IF l.kind = "length" THEN "content-length" ELSE "transfer-encoding")
  BY <1>1, <1>5
<1>7. /\ 2 <= l.first /\ l.first < l.stop /\ l.stop < Len(l.text)
      /\ l.text[1] = IF l.kind = "length" THEN "content-length" ELSE "transfer-encoding"
      /\ l.text[2] = ":" /\ l.text[Len(l.text)] = "LF"
      /\ \A j \in 3 .. l.first : l.text[j] = "SP"
      /\ \A j \in l.stop + 1 .. Len(l.text) - 1 : l.text[j] = "SP" \/ (j = Len(l.text) - 1 /\ l.text[j] = "CR")
  BY <1>1, <1>6 DEF Framing, Ends
<1>8. Kind(r, i) = "length" /\ i < r.head => Size(l) = r.length
  BY <1>3 DEF l
<1> QED BY <1>1, <1>4, <1>5, <1>7, <1>8 DEF l


LEMMA AtFramingLine ==
  ASSUME NEW r \in Responses, NEW i \in 1 .. Len(r.lines), NEW k \in Nat, Kind(r, i) \in {"length", "chunked"},
         AtFraming(r.lines[i], k, IF Kind(r, i) = "length" THEN "h_content_length" ELSE "h_transfer_encoding_chunked")',
         Kind(r, i) = "length" /\ k > r.lines[i].first =>
           content_length' = r.lines[i].number[IF k < r.lines[i].stop THEN k ELSE r.lines[i].stop]
  PROVE  AtLine(r.lines[i], k)'
BY DEF AtLine, AtLength, Kind

\* The name of a header that frames the body.
LEMMA FramingName ==
  ASSUME NEW r \in Responses, NEW i \in 1 .. Len(r.lines), NEW k \in Nat, Looking(r, i, k),
         Kind(r, i) \in {"length", "chunked"}, Switch, k \in {0, 1}
  PROVE  Reading(r)'
<1> DEFINE l == r.lines[i]
           x == l.text
           n == Len(x)
           name == IF Kind(r, i) = "length" THEN "content-length" ELSE "transfer-encoding"
           kept == IF Kind(r, i) = "length" THEN "h_content_length" ELSE "h_transfer_encoding_chunked"
<1>1. /\ n \in Nat /\ l.first \in Nat /\ l.stop \in Nat /\ Kind(r, i) \in Headers
      /\ 2 <= l.first /\ l.first < l.stop /\ l.stop < n
      /\ x[1] = name /\ x[2] = ":"
  BY FramingFacts DEF Headers
<1>2. AtFraming(l, k, kept)
  BY DEF Looking, AtLine, AtLength, Kind
<1>3. x[k + 1] \in Char => ch = x[k + 1]
  BY Sees
<1>4. name \in Token /\ name \in Char /\ ":" \in Char /\ name \notin Mark /\ name # "SP"
      /\ name # ":" /\ ":" \notin Token
  BY Letters DEF Word, Mark
<1>5. state # "s_headers_done" /\ Quiet(r, i)
  BY <1>1, InHeader
<1>6. UNCHANGED <<server, outcome>>
  BY Which
<1> HIDE DEF kept, name, n, x, l
<1>7. CASE k = 0
  <2>1. ch = name
    BY <1>1, <1>3, <1>4, <1>7
  <2>2. AtStart
    BY <1>2, <1>7 DEF AtFraming
  <2>3. CASE state \in LwsStates
    BY <1>1, <1>4, <1>7, <2>1, <2>3, StartsAgain
  <2>4. CASE state = "s_header_field_start"
    <3>1. /\ header_state' = FieldState(name) /\ Take("s_header_field")
          /\ UNCHANGED <<flags, content_length, status_code, nread, upgrade>>
      <4>1. HeaderFieldStart
        BY <2>4, Which
      <4>2. ch \notin {"CR", "LF"}
        BY <1>4, <2>1 DEF Mark
      <4> QED BY <1>4, <2>1, <4>1, <4>2 DEF HeaderFieldStart
    <3>2. Taken /\ state' = "s_header_field"
      BY <1>6, <3>1, TakesIt
    <3>3. header_state' # "h_upgrade"
      BY <3>1 DEF FieldState, name
    <3>4. Seen' = Seen
      BY <2>4, <3>1, <3>2 DEF Seen, LwsStates
    <3>5. Quiet(r, i)'
      BY <1>5, <3>1, <3>3 DEF Quiet
    <3>6. AtFraming(l, k + 1, kept)' /\ ~(k + 1 > l.first) /\ k + 1 < n
      BY <1>1, <1>7, <3>1, <3>2 DEF AtFraming, x
    <3>7. AtLine(l, k + 1)'
      BY <3>6, AtFramingLine DEF l, kept
    <3> QED BY <1>1, <3>1, <3>2, <3>4, <3>5, <3>6, <3>7, HeaderGoesOn DEF l, x, n
  <2> QED BY <2>2, <2>3, <2>4 DEF AtStart
<1>8. CASE k = 1
  <2>1. ch = ":"
    BY <1>1, <1>3, <1>4, <1>8
  <2>2. state = "s_header_field" /\ header_state = FieldState(name)
    BY <1>1, <1>2, <1>8 DEF AtFraming, x
  <2>3. /\ Take("s_header_value_discard_ws")
        /\ UNCHANGED <<header_state, flags, content_length, status_code, nread, upgrade>>
    <3>1. HeaderField
      BY <2>2, Which
    <3> QED BY <1>4, <2>1, <3>1 DEF HeaderField
  <2>4. Taken /\ state' = "s_header_value_discard_ws"
    BY <1>6, <2>3, TakesIt
  <2>5. Seen' = Seen
    BY <2>2, <2>3, <2>4 DEF Seen, LwsStates
  <2>6. Quiet(r, i)'
    BY <1>5, <2>3 DEF Quiet
  <2>7. AtFraming(l, k + 1, kept)' /\ ~(k + 1 > l.first) /\ k + 1 < n
    BY <1>1, <1>8, <2>2, <2>3, <2>4 DEF AtFraming, x
  <2>8. AtLine(l, k + 1)'
    BY <2>7, AtFramingLine DEF l, kept
  <2> QED BY <1>1, <2>3, <2>4, <2>5, <2>6, <2>7, <2>8, HeaderGoesOn DEF l, x, n
<1> QED BY <1>7, <1>8


\* The spaces before its value, and the value's first character.
LEMMA FramingSpace ==
  ASSUME NEW r \in Responses, NEW i \in 1 .. Len(r.lines), NEW k \in Nat, Looking(r, i, k),
         Kind(r, i) \in {"length", "chunked"}, Switch, 1 < k, k <= r.lines[i].first
  PROVE  Reading(r)'
<1> DEFINE l == r.lines[i]
           x == l.text
           n == Len(x)
           name == IF Kind(r, i) = "length" THEN "content-length" ELSE "transfer-encoding"
           kept == IF Kind(r, i) = "length" THEN "h_content_length" ELSE "h_transfer_encoding_chunked"
<1>1. /\ n \in Nat /\ l.first \in Nat /\ l.stop \in Nat /\ Kind(r, i) \in Headers
      /\ 2 <= l.first /\ l.first < l.stop /\ l.stop < n
      /\ x[1] = name /\ \A j \in 3 .. l.first : x[j] = "SP"
      /\ Kind(r, i) = "chunked" => x[l.first + 1] = "chunked"
      /\ Kind(r, i) = "length" => /\ x[l.first + 1] \in Digit
                                  /\ l.number[l.first + 1] = Value[x[l.first + 1]]
  <2>1. Kind(r, i) = "length" => Counts(l, Digit, 10)
    BY FramingFacts
  <2>2. l.first + 1 \in l.first + 1 .. l.stop
    BY FramingFacts
  <2>3. Kind(r, i) = "length" => x[l.first + 1] \in Digit /\ l.number[l.first + 1] = Value[x[l.first + 1]]
    BY <2>1, <2>2 DEF Counts
  <2> QED BY <2>3, FramingFacts DEF Headers
<1>2. AtFraming(l, k, kept)
  BY DEF Looking, AtLine, AtLength, Kind
<1>3. x[k + 1] \in Char => ch = x[k + 1]
  BY Sees
<1>4. /\ "SP" \in Char /\ "chunked" \in Char /\ "chunked" \notin {"SP", "CR", "LF"}
      /\ \A d \in Digit : d \in Char /\ d \notin {"SP", "CR", "LF"}
  <2>1. "SP" \in Char /\ "chunked" \in Char
    BY Chars
  <2>2. \A d \in Digit : d \in Char /\ d \notin {"SP", "CR", "LF"}
    BY Chars
  <2> QED BY <2>1, <2>2
<1>5. state # "s_headers_done" /\ Quiet(r, i)
  BY <1>1, InHeader
<1>6. UNCHANGED <<server, outcome>>
  BY Which
<1>0. k \in Nat /\ 1 < k /\ k <= l.first /\ k + 1 < n
  BY <1>1
<1>7. l.kind = Kind(r, i)
  BY DEF Kind
<1> HIDE DEF kept, name, n, x, l
<1>8. header_state = FieldState(name) /\ header_state # "h_upgrade"
      /\ (state = "s_header_value_discard_ws" \/ (state = "s_header_value_start" /\ k = l.first))
  BY <1>0, <1>1, <1>2 DEF AtFraming, x, FieldState, name
<1>9. CASE state = "s_header_value_discard_ws"
  <2>1. ValueDiscardWs
    BY <1>9, Which
  <2>2. CASE k < l.first
    <3>1. ch = "SP"
      <4>1. k + 1 \in 3 .. l.first
        BY <1>0, <1>1, <2>2
      <4> QED BY <1>1, <1>3, <1>4, <4>1
    <3>2. /\ Take("s_header_value_discard_ws")
          /\ UNCHANGED <<header_state, flags, content_length, status_code, nread, upgrade>>
      BY <1>9, <2>1, <3>1 DEF ValueDiscardWs
    <3>3. Taken /\ state' = "s_header_value_discard_ws"
      BY <1>6, <3>2, TakesIt
    <3>4. Seen' = Seen
      BY <1>9, <3>2, <3>3 DEF Seen, LwsStates
    <3>5. Quiet(r, i)'
      BY <1>5, <3>2 DEF Quiet
    <3>6. AtFraming(l, k + 1, kept)' /\ ~(k + 1 > l.first)
      BY <1>0, <1>1, <1>8, <2>2, <3>2, <3>3 DEF AtFraming, x
    <3>7. AtLine(l, k + 1)'
      BY <3>6, AtFramingLine DEF l, kept
    <3> QED BY <1>0, <1>1, <3>2, <3>3, <3>4, <3>5, <3>6, <3>7, HeaderGoesOn DEF l, x, n
  <2>3. CASE k = l.first
    <3>1. ch \notin {"SP", "CR", "LF"}
      BY <1>1, <1>3, <1>4, <2>3
    <3>2. /\ Again("s_header_value_start")
          /\ UNCHANGED <<header_state, flags, content_length, status_code, nread, upgrade>>
      BY <2>1, <3>1 DEF ValueDiscardWs
    <3>3. Still /\ state' = "s_header_value_start"
      BY <1>6, <3>2, LooksAgain
    <3>4. Seen' = Seen
      BY <1>9, <3>2, <3>3 DEF Seen, LwsStates
    <3>5. Quiet(r, i)'
      BY <1>5, <3>2 DEF Quiet
    <3>6. AtFraming(l, k, kept)' /\ ~(k > l.first)
      BY <1>0, <1>1, <1>8, <2>3, <3>2, <3>3 DEF AtFraming, x
    <3>7. AtLine(l, k)'
      BY <3>6, AtFramingLine DEF l, kept
    <3> QED BY <1>1, <3>2, <3>3, <3>4, <3>5, <3>7, HeaderStays DEF l
  <2> QED BY <1>0, <1>1, <2>2, <2>3
<1>10. CASE state = "s_header_value_start" /\ k = l.first
  <2>1. ValueStart /\ ch = x[l.first + 1]
    BY <1>1, <1>3, <1>4, <1>10, Which
  <2>2. /\ header_state' = kept /\ flags' = flags
        /\ Take("s_header_value") /\ UNCHANGED <<status_code, nread, upgrade>>
        /\ Kind(r, i) = "length" => content_length' = l.number[l.first + 1]
        /\ Kind(r, i) = "chunked" => UNCHANGED content_length
    <3>1. CASE Kind(r, i) = "length"
      <4>1. header_state = "h_content_length" /\ ch \in Digit
        BY <1>1, <1>8, <2>1, <3>1 DEF FieldState, name
      <4> QED BY <1>1, <2>1, <3>1, <4>1 DEF ValueStart, FirstOfValue, Number, kept
    <3>2. CASE Kind(r, i) = "chunked"
      <4>1. header_state = "h_transfer_encoding" /\ ch = "chunked"
        BY <1>1, <1>8, <2>1, <3>2 DEF FieldState, name
      <4> QED BY <2>1, <3>2, <4>1 DEF ValueStart, FirstOfValue, kept
    <3> QED BY <3>1, <3>2
  <2>3. Taken /\ state' = "s_header_value"
    BY <1>6, <2>2, TakesIt
  <2>4. Seen' = Seen
    BY <1>10, <2>2, <2>3 DEF Seen, LwsStates
  <2>5. Quiet(r, i)'
    BY <1>5, <2>2 DEF Quiet, kept
  <2>6. AtFraming(l, k + 1, kept)' /\ k + 1 > l.first
    BY <1>0, <1>1, <1>10, <2>2, <2>3 DEF AtFraming, x
  <2>7. Kind(r, i) = "length" => content_length' = l.number[IF k + 1 < l.stop THEN k + 1 ELSE l.stop]
    <3>1. (IF k + 1 < l.stop THEN k + 1 ELSE l.stop) = l.first + 1
      BY <1>1, <1>10
    <3> QED BY <2>2, <3>1
  <2>8. AtLine(l, k + 1)'
    BY <2>6, <2>7, AtFramingLine DEF l, kept
  <2> QED BY <1>0, <1>1, <2>2, <2>3, <2>4, <2>5, <2>6, <2>8, HeaderGoesOn DEF l, x, n
<1> QED BY <1>8, <1>9, <1>10


\* Its value, behind the first character.
LEMMA FramingValue ==
  ASSUME NEW r \in Responses, NEW i \in 1 .. Len(r.lines), NEW k \in Nat, Looking(r, i, k),
         Kind(r, i) \in {"length", "chunked"}, Switch, k > r.lines[i].first
  PROVE  Reading(r)'
<1> DEFINE l == r.lines[i]
           x == l.text
           n == Len(x)
           kept == IF Kind(r, i) = "length" THEN "h_content_length" ELSE "h_transfer_encoding_chunked"
<1>1. /\ n \in Nat /\ l.first \in Nat /\ l.stop \in Nat /\ Kind(r, i) \in Headers
      /\ 2 <= l.first /\ l.first < l.stop /\ l.stop < n /\ k > l.first /\ k < n
      /\ Kind(r, i) = "chunked" => l.stop = l.first + 1
      /\ Kind(r, i) = "length" /\ i < r.head => Size(l) = r.length
  <2>1. k < n /\ k > l.first /\ Kind(r, i) \in Headers
    BY Sees DEF Headers
  <2>2. /\ n \in Nat /\ l.first \in Nat /\ l.stop \in Nat
        /\ 2 <= l.first /\ l.first < l.stop /\ l.stop < n
        /\ Kind(r, i) = "chunked" => l.stop = l.first + 1
        /\ Kind(r, i) = "length" /\ i < r.head => Size(l) = r.length
    BY FramingFacts
  <2> HIDE DEF l, x, n
  <2> QED BY <2>1, <2>2
<1>2. AtFraming(l, k, kept) /\ (Kind(r, i) = "length" => content_length = l.number[IF k < l.stop THEN k ELSE l.stop])
  BY DEF Looking, AtLine, AtLength, Kind
<1>3. x[k + 1] \in Char => ch = x[k + 1]
  BY Sees
<1>4. /\ "SP" \in Char /\ "CR" \in Char /\ "LF" \in Char
      /\ \A d \in Digit : d \in Char /\ d \notin {"SP", "CR", "LF"}
  <2>1. "SP" \in Char /\ "CR" \in Char /\ "LF" \in Char
    BY Chars
  <2>2. \A d \in Digit : d \in Char /\ d \notin {"SP", "CR", "LF"}
    BY Chars
  <2> QED BY <2>1, <2>2
<1>5. state # "s_headers_done" /\ Quiet(r, i) /\ header_state # "h_upgrade"
  BY <1>1, <1>2, InHeader DEF AtFraming
<1>6. UNCHANGED <<server, outcome>>
  BY Which
<1>7. k >= l.stop =>
        /\ ch \in {"SP", "CR", "LF"} /\ ch \notin Digit
        /\ ch = "LF" <=> k + 1 = n
        /\ ch = "CR" => k + 1 = n - 1
  <2> SUFFICES ASSUME k >= l.stop
      PROVE  /\ ch \in {"SP", "CR", "LF"} /\ ch \notin Digit
             /\ ch = "LF" <=> k + 1 = n
             /\ ch = "CR" => k + 1 = n - 1
    OBVIOUS
  <2>1. x[n] = "LF" /\ \A j \in l.stop + 1 .. n - 1 : x[j] = "SP" \/ (j = n - 1 /\ x[j] = "CR")
    BY FramingFacts
  <2>2. k + 1 = n \/ k + 1 \in l.stop + 1 .. n - 1
    BY <1>1
  <2>3. /\ k + 1 = n => x[k + 1] = "LF"
        /\ k + 1 # n => x[k + 1] = "SP" \/ (k + 1 = n - 1 /\ x[k + 1] = "CR")
    BY <2>1, <2>2
  <2>4. ch = x[k + 1]
    BY <1>3, <1>4, <2>3
  <2> QED BY <1>4, <2>3, <2>4
<1>8. k < l.stop =>
        /\ Kind(r, i) = "length" /\ ch \in Digit
        /\ l.number[k] \in Nat /\ l.number[k + 1] \in Nat /\ l.number[k + 1] <= MaxLength - 10
        /\ l.number[k + 1] = 10 * l.number[k] + Number(ch)
  <2> SUFFICES ASSUME k < l.stop
      PROVE  /\ Kind(r, i) = "length" /\ ch \in Digit
             /\ l.number[k] \in Nat /\ l.number[k + 1] \in Nat /\ l.number[k + 1] <= MaxLength - 10
             /\ l.number[k + 1] = 10 * l.number[k] + Number(ch)
    OBVIOUS
  <2>1. Kind(r, i) = "length"
    BY <1>1
  <2>2. Counts(l, Digit, 10) /\ l.number \in Seq(Nat)
    BY <2>1, FramingFacts, LineFacts
  <2>3. k \in l.first + 1 .. l.stop - 1 /\ k + 1 \in l.first + 1 .. l.stop
    BY <1>1
  <2>4. /\ x[k + 1] \in Digit /\ l.number[k + 1] <= MaxLength - 10
        /\ l.number[k + 1] = 10 * l.number[k] + Value[x[k + 1]]
    BY <2>2, <2>3 DEF Counts
  <2>5. l.number[k] \in Nat /\ l.number[k + 1] \in Nat
    <3>1. Len(l.number) \in Nat /\ l.stop <= Len(l.number)
      BY <2>2 DEF Counts
    <3>2. k \in 1 .. Len(l.number) /\ k + 1 \in 1 .. Len(l.number)
      BY <1>1, <2>3, <3>1
    <3> DEFINE num == l.number
    <3>3. num \in Seq(Nat) /\ k \in 1 .. Len(num) /\ k + 1 \in 1 .. Len(num)
      BY <2>2, <3>2
    <3> HIDE DEF num
    <3>4. num[k] \in Nat /\ num[k + 1] \in Nat
      BY <3>3
    <3> QED BY <3>4 DEF num
  <2> QED BY <1>3, <1>4, <2>1, <2>4, <2>5 DEF Number
<1> HIDE DEF kept, n, x, l
<1>9. /\ header_state = kept
      /\ state = "s_header_value" \/ (state = "s_header_almost_done" /\ k = n - 1)
  BY <1>1, <1>2 DEF AtFraming, n, x
<1>10. CASE state = "s_header_value"
  <2>1. HeaderValue
    BY <1>10, Which
  <2>2. ASSUME UNCHANGED <<header_state, flags, status_code, nread, upgrade>>, state' \notin LwsStates
        PROVE  Seen' = Seen /\ Quiet(r, i)' /\ ("TRAILING" \in flags' <=> "TRAILING" \in flags)
    BY <1>5, <1>10, <2>2 DEF Seen, LwsStates, Quiet
  <2>3. CASE k < l.stop
    <3>1. /\ LengthDigit(10) /\ UNCHANGED <<header_state, flags, status_code, nread, upgrade>>
      <4>1. header_state = "h_content_length" /\ ch \in Digit /\ ch \notin {"SP", "CR", "LF"}
        BY <1>4, <1>8, <1>9, <2>3 DEF kept
      <4> QED BY <2>1, <4>1 DEF HeaderValue
    <3>2. content_length' = l.number[k + 1] /\ Take("s_header_value")
      <4>1. Number(ch) \in 0 .. 9
        BY <1>8, <2>3, Digits DEF Number
      <4>2. content_length = l.number[k]
        BY <1>2, <1>8, <2>3
      <4> DEFINE a == l.number[k]
                 b == l.number[k + 1]
      <4>3. a \in Nat /\ b \in Nat /\ b <= MaxLength - 10 /\ b = 10 * a + Number(ch) /\ content_length = a
        BY <1>8, <2>3, <4>2
      <4> HIDE DEF a, b
      <4>4. content_length' = b /\ Take(state)
        BY <3>1, <4>1, <4>3, DigitTaken
      <4> QED BY <1>10, <4>4 DEF b
    <3>3. Taken /\ state' = "s_header_value" /\ state' \notin LwsStates
      BY <1>6, <3>2, TakesIt DEF LwsStates
    <3>4. AtFraming(l, k + 1, kept)' /\ k + 1 > l.first /\ k + 1 < n
      BY <1>1, <1>9, <2>3, <3>1, <3>3 DEF AtFraming, x
    <3>5. content_length' = l.number[IF k + 1 < l.stop THEN k + 1 ELSE l.stop]
      <4>1. (IF k + 1 < l.stop THEN k + 1 ELSE l.stop) = k + 1
        BY <1>1, <2>3
      <4> QED BY <3>2, <4>1
    <3>6. AtLine(l, k + 1)'
      BY <3>4, <3>5, AtFramingLine DEF l, kept
    <3> QED BY <1>1, <1>8, <2>2, <2>3, <3>1, <3>3, <3>4, <3>6, HeaderGoesOn DEF l, x, n
  <2>4. CASE k >= l.stop /\ ch # "LF"
    <3>1. /\ UNCHANGED <<header_state, flags, content_length, status_code, nread, upgrade>>
          /\ Take(IF ch = "CR" THEN "s_header_almost_done" ELSE "s_header_value")
      <4>1. CASE ch = "CR"
        BY <1>7, <2>1, <2>4, <4>1 DEF HeaderValue
      <4>2. CASE ch = "SP" /\ header_state = "h_content_length"
        BY <1>7, <1>10, <2>1, <2>4, <4>2 DEF HeaderValue
      <4>3. CASE ch = "SP" /\ header_state = "h_transfer_encoding_chunked"
        <5>1. RestOfValue = header_state /\ header_state \notin ConnectionWords
          BY <4>3 DEF RestOfValue, ConnectionWords
        <5> QED BY <1>10, <2>1, <4>3, <5>1 DEF HeaderValue
      <4> QED BY <1>7, <1>9, <2>4, <4>1, <4>2, <4>3 DEF kept
    <3>2. Taken /\ state' = (IF ch = "CR" THEN "s_header_almost_done" ELSE "s_header_value") /\ state' \notin LwsStates
      BY <1>6, <3>1, TakesIt DEF LwsStates
    <3>3. AtFraming(l, k + 1, kept)' /\ k + 1 > l.first /\ k + 1 < n
      BY <1>1, <1>7, <1>9, <2>4, <3>1, <3>2 DEF AtFraming, x, n
    <3>4. Kind(r, i) = "length" => content_length' = l.number[IF k + 1 < l.stop THEN k + 1 ELSE l.stop]
      <4>1. ~(k < l.stop) /\ ~(k + 1 < l.stop)
        BY <1>1, <2>4
      <4> QED BY <1>2, <3>1, <4>1
    <3>5. AtLine(l, k + 1)'
      BY <3>3, <3>4, AtFramingLine DEF l, kept
    <3> QED BY <1>1, <2>2, <3>1, <3>2, <3>3, <3>5, HeaderGoesOn DEF l, x, n
  <2>5. CASE k >= l.stop /\ ch = "LF"
    <3>1. /\ Again("s_header_almost_done")
          /\ UNCHANGED <<header_state, flags, content_length, status_code, nread, upgrade>>
      BY <1>7, <2>1, <2>5 DEF HeaderValue
    <3>2. Still /\ state' = "s_header_almost_done" /\ state' \notin LwsStates
      BY <1>6, <3>1, LooksAgain DEF LwsStates
    <3>3. AtFraming(l, k, kept)'
      BY <1>1, <1>7, <1>9, <2>5, <3>1, <3>2 DEF AtFraming, x, n
    <3>4. AtLine(l, k)'
      BY <1>2, <3>1, <3>3, AtFramingLine DEF l, kept
    <3> QED BY <1>1, <2>2, <3>1, <3>2, <3>4, HeaderStays DEF l
  <2> QED BY <1>1, <2>3, <2>4, <2>5
<1>11. CASE state = "s_header_almost_done" /\ k = n - 1
  <2>1. ch = "LF" /\ ~(k < l.stop)
    BY <1>1, <1>7, <1>11
  <2>2. /\ Take("s_header_value_lws")
        /\ UNCHANGED <<header_state, flags, content_length, status_code, nread, upgrade>>
    <3>1. HeaderAlmostDone
      BY <1>11, Which
    <3> QED BY <2>1, <3>1 DEF HeaderAlmostDone, Expect
  <2>3. Taken /\ state' = "s_header_value_lws" /\ AtStart'
    BY <1>6, <2>2, TakesIt DEF AtStart, LwsStates
  <2>4. "CHUNKED" \in Seen' <=> "CHUNKED" \in Seen \/ Kind(r, i) = "chunked"
    <3>1. Flag' = Flag /\ ("CHUNKED" \in Flag <=> Kind(r, i) = "chunked")
      BY <1>9, <2>2, FlagIs DEF Flag, kept
    <3>2. Seen = flags /\ Seen' = flags \cup Flag
      BY <1>11, <2>2, <2>3, <3>1 DEF Seen, LwsStates
    <3> QED BY <3>1, <3>2
  <2>5. Kind(r, i) = "length" /\ i < r.head => content_length = r.length
    BY <1>1, <1>2, <2>1 DEF Size
  <2>6. Quiet(r, i)'
    BY <1>5, <2>2 DEF Quiet
  <2>7. k + 1 = n
    BY <1>1, <1>11
  <2> QED BY <1>1, <2>2, <2>3, <2>4, <2>5, <2>6, <2>7, HeaderEnds DEF l, x, n
<1> QED BY <1>9, <1>10, <1>11


\* What is known of any other header.
LEMMA OtherFacts ==
  ASSUME NEW r \in Responses, NEW i \in 1 .. Len(r.lines), Kind(r, i) = "other"
  PROVE  LET l == r.lines[i]
             x == l.text
         IN  /\ Len(x) \in Nat /\ l.mark \in Nat
             /\ 1 < l.mark /\ l.mark < Len(x) /\ x[l.mark] = ":" /\ x[Len(x)] = "LF"
             /\ \A j \in 1 .. l.mark - 1 : x[j] \in Token
             /\ x[1] \in {"content-length", "transfer-encoding"} => l.mark > 2
             /\ \A j \in 1 .. Len(x) : x[j] \in Char
             /\ \A j \in l.mark + 1 .. Len(x) - 1 :
                  (x[j] = "CR" => x[j + 1] = "LF") /\ (x[j] = "LF" => x[j + 1] = "SP")
             /\ Plain(r) /\ i <= r.head => x[1] # "upgrade"
<1> DEFINE l == r.lines[i]
           x == l.text
<1>1. OtherLine(l) /\ Len(x) \in Nat /\ l.mark \in Nat
  BY LineFacts DEF WellFormed, Kind
<1>2. Plain(r) /\ i <= r.head => x[1] # "upgrade"
  <2>1. i # 1 /\ i # r.head /\ r.head \in 2 .. Len(r.lines) /\ Len(r.lines) \in Nat
    BY Sequel, LineFacts
  <2>2. i <= r.head => i \in 2 .. r.head - 1
    BY <2>1
  <2> QED BY <2>2 DEF Plain
<1> HIDE DEF l
<1>3. /\ 1 < l.mark /\ l.mark < Len(x) /\ x[l.mark] = ":" /\ x[Len(x)] = "LF"
      /\ \A j \in 1 .. l.mark - 1 : x[j] \in Token
      /\ x[1] \in {"content-length", "transfer-encoding"} => l.mark > 2
      /\ \A j \in l.mark + 1 .. Len(x) :
           /\ x[j] \in Char
           /\ j < Len(x) => (x[j] = "CR" => x[j + 1] = "LF") /\ (x[j] = "LF" => x[j + 1] = "SP")
  BY <1>1 DEF OtherLine
<1>4. \A j \in 1 .. Len(x) : x[j] \in Char
  <2> TAKE j \in 1 .. Len(x)
  <2>1. j \in 1 .. l.mark - 1 \/ j = l.mark \/ j \in l.mark + 1 .. Len(x)
    BY <1>1
  <2> QED BY <1>3, <2>1, Letters, Chars
<1>5. \A j \in l.mark + 1 .. Len(x) - 1 :
        (x[j] = "CR" => x[j + 1] = "LF") /\ (x[j] = "LF" => x[j + 1] = "SP")
  <2> TAKE j \in l.mark + 1 .. Len(x) - 1
  <2>1. j \in l.mark + 1 .. Len(x) /\ j < Len(x)
    BY <1>1
  <2> QED BY <1>3, <2>1
<1> HIDE DEF x
<1>6. /\ Len(x) \in Nat /\ l.mark \in Nat
      /\ 1 < l.mark /\ l.mark < Len(x) /\ x[l.mark] = ":" /\ x[Len(x)] = "LF"
      /\ \A j \in 1 .. l.mark - 1 : x[j] \in Token
      /\ x[1] \in {"content-length", "transfer-encoding"} => l.mark > 2
  BY <1>1, <1>3 DEF x
<1> QED BY <1>2, <1>4, <1>5, <1>6 DEF l, x

LEMMA SeenPlain ==
  ASSUME header_state # "h_transfer_encoding_chunked" \/ state \notin LwsStates
  PROVE  "CHUNKED" \in Seen <=> "CHUNKED" \in flags
BY FlagIs DEF Seen

LEMMA SeenPlainNext ==
  ASSUME header_state' # "h_transfer_encoding_chunked" \/ state' \notin LwsStates
  PROVE  "CHUNKED" \in Seen' <=> "CHUNKED" \in flags'
BY DEF Seen, Flag

LEMMA OtherMoves ==
  ASSUME NEW r \in Responses, NEW i \in 1 .. Len(r.lines), NEW k \in Nat, Looking(r, i, k),
         Kind(r, i) = "other", UNCHANGED <<status_code, nread, content_length, upgrade>>,
         header_state # "h_transfer_encoding_chunked" \/ state \notin LwsStates,
         header_state' # "h_transfer_encoding_chunked" \/ state' \notin LwsStates,
         "TRAILING" \in flags' <=> "TRAILING" \in flags, "CHUNKED" \in flags' <=> "CHUNKED" \in flags,
         Quiet(r, i)',
         \/ Still /\ AtOther(r.lines[i], k)'
         \/ Taken /\ k + 1 < Len(r.lines[i].text) /\ AtOther(r.lines[i], k + 1)'
         \/ Taken /\ k + 1 = Len(r.lines[i].text) /\ AtStart'
  PROVE  Reading(r)'
<1>1. "CHUNKED" \in Seen' <=> "CHUNKED" \in Seen
  <2>1. "CHUNKED" \in Seen <=> "CHUNKED" \in flags
    BY SeenPlain
  <2>2. "CHUNKED" \in Seen' <=> "CHUNKED" \in flags'
    BY SeenPlainNext
  <2> QED BY <2>1, <2>2
<1>2. Kind(r, i) \in Headers /\ Kind(r, i) # "chunked" /\ Kind(r, i) # "length"
  BY DEF Headers
<1>3. \A j \in Nat : AtOther(r.lines[i], j)' => AtLine(r.lines[i], j)'
  BY DEF AtLine, Kind
<1>4. CASE Still /\ AtOther(r.lines[i], k)'
  BY <1>1, <1>2, <1>3, <1>4, HeaderStays
<1>5. CASE Taken /\ k + 1 < Len(r.lines[i].text) /\ AtOther(r.lines[i], k + 1)'
  BY <1>1, <1>2, <1>3, <1>5, HeaderGoesOn
<1>6. CASE Taken /\ k + 1 = Len(r.lines[i].text) /\ AtStart'
  BY <1>1, <1>2, <1>6, HeaderEnds
<1> QED BY <1>4, <1>5, <1>6

\* The name of any other header.
LEMMA OtherName ==
  ASSUME NEW r \in Responses, NEW i \in 1 .. Len(r.lines), NEW k \in Nat, Looking(r, i, k),
         Kind(r, i) = "other", Switch, k < r.lines[i].mark
  PROVE  Reading(r)'
<1> DEFINE l == r.lines[i]
           x == l.text
           n == Len(x)
<1>1. /\ n \in Nat /\ l.mark \in Nat /\ 1 < l.mark /\ l.mark < n /\ x[l.mark] = ":" /\ x[n] = "LF"
      /\ \A j \in 1 .. l.mark - 1 : x[j] \in Token
      /\ x[1] \in {"content-length", "transfer-encoding"} => l.mark > 2
      /\ Plain(r) /\ i <= r.head => x[1] # "upgrade"
      /\ \A j \in 1 .. n : x[j] \in Char
  BY OtherFacts
<1>2. AtOther(l, k)
  BY DEF Looking, AtLine, Kind
<1>3. ch = x[k + 1]
  <2>1. k + 1 \in 1 .. n /\ (x[k + 1] \in Char => ch = x[k + 1])
    BY Sees
  <2> QED BY <1>1, <2>1
<1>4. Quiet(r, i)
  BY InHeader DEF Headers
<1>5. UNCHANGED <<server, outcome>>
  BY Which
<1>6. k \in Nat /\ k < l.mark
  OBVIOUS
<1>7. \A c \in Token : c \notin {"SP", ":", "CR", "LF"}
  BY Letters DEF Mark
<1> HIDE DEF n, x, l
<1>8. CASE k = 0
  <2>1. ch \in Token
    <3>1. 1 \in 1 .. l.mark - 1
      BY <1>1
    <3> QED BY <1>1, <1>3, <1>8, <3>1
  <2>2. AtStart
    BY <1>2, <1>8 DEF AtOther
  <2>3. CASE state \in LwsStates
    BY <1>7, <1>8, <2>1, <2>3, StartsAgain DEF Headers
  <2>4. CASE state = "s_header_field_start"
    <3>1. /\ header_state' = FieldState(x[1]) /\ Take("s_header_field")
          /\ UNCHANGED <<flags, content_length, status_code, nread, upgrade>>
      <4>1. HeaderFieldStart
        BY <2>4, Which
      <4>2. ch \notin {"CR", "LF"} /\ ch = x[1]
        BY <1>3, <1>7, <1>8, <2>1
      <4> QED BY <2>1, <4>1, <4>2 DEF HeaderFieldStart
    <3>2. Taken /\ state' = "s_header_field" /\ state' \notin LwsStates /\ state \notin LwsStates
      BY <1>5, <2>4, <3>1, TakesIt DEF LwsStates
    <3>3. Quiet(r, i)'
      <4>1. x[1] # "upgrade" => header_state' # "h_upgrade"
        BY <3>1 DEF FieldState
      <4> QED BY <1>1, <1>4, <3>1, <4>1 DEF Quiet
    <3>4. AtOther(l, k + 1)' /\ k + 1 < n
      BY <1>1, <1>8, <3>1, <3>2 DEF AtOther, x
    <3> QED BY <3>1, <3>2, <3>3, <3>4, OtherMoves DEF l, x, n
  <2> QED BY <2>2, <2>3, <2>4 DEF AtStart
<1>9. CASE k > 0
  <2>1. state = "s_header_field" /\ header_state = (IF k = 1 THEN FieldState(x[1]) ELSE "h_general")
    BY <1>2, <1>6, <1>9 DEF AtOther, x
  <2>2. HeaderField
    BY <2>1, Which
  <2>3. CASE k + 1 < l.mark
    <3>1. ch \in Token
      <4>1. k + 1 \in 1 .. l.mark - 1
        BY <1>1, <2>3
      <4> QED BY <1>1, <1>3, <4>1
    <3>2. /\ header_state' = "h_general" /\ Take("s_header_field")
          /\ UNCHANGED <<flags, content_length, status_code, nread, upgrade>>
      BY <1>7, <2>1, <2>2, <3>1 DEF HeaderField
    <3>3. Taken /\ state' = "s_header_field" /\ state' \notin LwsStates /\ state \notin LwsStates
      BY <1>5, <2>1, <3>2, TakesIt DEF LwsStates
    <3>4. Quiet(r, i)'
      BY <1>4, <3>2 DEF Quiet
    <3>5. AtOther(l, k + 1)' /\ k + 1 < n
      BY <1>1, <1>9, <2>3, <3>2, <3>3 DEF AtOther, x
    <3> QED BY <3>2, <3>3, <3>4, <3>5, OtherMoves DEF l, x, n
  <2>4. CASE k + 1 = l.mark
    <3>1. ch = ":" /\ ":" \notin Token
      BY <1>1, <1>3, <1>7, <2>4
    <3>2. /\ Take("s_header_value_discard_ws")
          /\ UNCHANGED <<header_state, flags, content_length, status_code, nread, upgrade>>
      BY <2>2, <3>1 DEF HeaderField
    <3>3. Taken /\ state' = "s_header_value_discard_ws" /\ state' \notin LwsStates /\ state \notin LwsStates
      BY <1>5, <2>1, <3>2, TakesIt DEF LwsStates
    <3>4. Quiet(r, i)'
      BY <1>4, <3>2 DEF Quiet
    <3>5. header_state \notin {"h_content_length", "h_transfer_encoding", "h_transfer_encoding_chunked"}
      <4>1. k = 1 => x[1] \notin {"content-length", "transfer-encoding"}
        BY <1>1, <2>4
      <4> QED BY <2>1, <4>1 DEF FieldState
    <3>6. AtOther(l, k + 1)' /\ k + 1 < n
      <4>1. k + 1 # 0 /\ k + 1 >= l.mark /\ ~(k + 1 < l.mark) /\ k + 1 < n
        BY <1>1, <2>4
      <4> QED BY <3>2, <3>3, <3>5, <4>1 DEF AtOther
    <3> QED BY <3>2, <3>3, <3>4, <3>6, OtherMoves DEF l, x, n
  <2> QED BY <1>1, <1>6, <2>3, <2>4
<1> QED BY <1>8, <1>9


\* What a value that frames nothing leaves alone.
LEMMA OtherStates ==
  ASSUME header_state \notin {"h_content_length", "h_transfer_encoding", "h_transfer_encoding_chunked"}
  PROVE  /\ Flag \cap {"TRAILING", "UPGRADE", "CHUNKED"} = {}
         /\ FirstOfValue \notin {"h_content_length", "h_transfer_encoding", "h_transfer_encoding_chunked", "h_upgrade"}
         /\ RestOfValue \notin {"h_content_length", "h_transfer_encoding", "h_transfer_encoding_chunked"}
         /\ RestOfValue = "h_upgrade" => header_state = "h_upgrade"
<1>1. Flag \cap {"TRAILING", "UPGRADE", "CHUNKED"} = {}
  BY DEF Flag
<1>2. FirstOfValue \notin {"h_content_length", "h_transfer_encoding", "h_transfer_encoding_chunked", "h_upgrade"}
  BY DEF FirstOfValue, ConnectionState
<1>3. /\ RestOfValue \notin {"h_content_length", "h_transfer_encoding", "h_transfer_encoding_chunked"}
      /\ RestOfValue = "h_upgrade" => header_state = "h_upgrade"
  BY DEF RestOfValue, ConnectionState, ConnectionWords
<1> QED BY <1>1, <1>2, <1>3

\* Its value.
LEMMA OtherValue ==
  ASSUME NEW r \in Responses, NEW i \in 1 .. Len(r.lines), NEW k \in Nat, Looking(r, i, k),
         Kind(r, i) = "other", Switch, k >= r.lines[i].mark
  PROVE  Reading(r)'
<1> DEFINE l == r.lines[i]
           x == l.text
           n == Len(x)
           Bad == {"h_content_length", "h_transfer_encoding", "h_transfer_encoding_chunked"}
           Same == UNCHANGED <<status_code, nread, upgrade, content_length>>
           Place2 == \/ Still /\ AtOther(l, k)'
                     \/ Taken /\ k + 1 < n /\ AtOther(l, k + 1)'
                     \/ Taken /\ k + 1 = n /\ AtStart'
<1>1. /\ n \in Nat /\ l.mark \in Nat /\ 1 < l.mark /\ l.mark < n /\ k < n /\ k >= l.mark
      /\ ~(k < l.mark) /\ ~(k + 1 < l.mark) /\ k + 1 >= l.mark /\ k # 0 /\ k + 1 # 0
  <2>1. k < n /\ k >= l.mark
    BY Sees
  <2>2. n \in Nat /\ l.mark \in Nat /\ 1 < l.mark /\ l.mark < n
    BY OtherFacts
  <2> HIDE DEF l, n
  <2> QED BY <2>1, <2>2
<1>2. AtOther(l, k)
  BY DEF Looking, AtLine, Kind
<1>3. ch = x[k + 1] /\ ch # NoChar
  <2>1. k + 1 \in 1 .. n /\ (x[k + 1] \in Char => ch = x[k + 1])
    BY Sees
  <2>2. \A j \in 1 .. n : x[j] \in Char
    BY OtherFacts
  <2> QED BY <2>1, <2>2 DEF Looking
<1>4. /\ k + 1 < n => (ch = "CR" => x[k + 2] = "LF") /\ (ch = "LF" => x[k + 2] = "SP")
      /\ k + 1 = n => ch = "LF"
      /\ k > l.mark /\ x[k] = "LF" => ch = "SP"
      /\ k = l.mark => x[k] = ":"
  <2>1. /\ x[l.mark] = ":" /\ x[n] = "LF"
        /\ \A j \in l.mark + 1 .. n - 1 :
             (x[j] = "CR" => x[j + 1] = "LF") /\ (x[j] = "LF" => x[j + 1] = "SP")
    BY OtherFacts
  <2> HIDE DEF l, n, x
  <2>2. k + 1 < n => k + 1 \in l.mark + 1 .. n - 1 /\ k + 1 + 1 = k + 2
    BY <1>1
  <2>3. k > l.mark => k \in l.mark + 1 .. n - 1
    BY <1>1
  <2> QED BY <1>3, <2>1, <2>2, <2>3
<1>5. Quiet(r, i)
  BY InHeader DEF Headers
<1>6. UNCHANGED <<server, outcome>>
  BY Which
<1> HIDE DEF n, x, l
<1>7. /\ header_state \notin Bad
      /\ \/ state \in {"s_header_value", "s_header_value_discard_ws"}
         \/ state = "s_header_value_start" /\ ch \notin {"CR", "LF"}
         \/ state \in LwsStates /\ ch = "SP"
         \/ /\ state \in {"s_header_almost_done", "s_header_value_discard_ws_almost_done"}
            /\ ch = "LF"
  <2>1. x[k] = "LF" => ch = "SP"
    BY <1>1, <1>4
  <2> QED BY <1>1, <1>2, <1>3, <2>1 DEF AtOther, x
<1>8. ASSUME Same, header_state' \notin Bad, Quiet(r, i)', Place2,
             flags' \cap {"TRAILING", "CHUNKED"} = flags \cap {"TRAILING", "CHUNKED"}
      PROVE  Reading(r)'
  <2>1. ("TRAILING" \in flags' <=> "TRAILING" \in flags) /\ ("CHUNKED" \in flags' <=> "CHUNKED" \in flags)
    BY <1>8
  <2> QED BY <1>7, <1>8, <2>1, OtherMoves DEF l, x, n
<1>9. ASSUME Same, UNCHANGED <<header_state, flags>>, Place2
      PROVE  Reading(r)'
  <2>1. header_state' \notin Bad
    BY <1>7, <1>9
  <2>2. Quiet(r, i)'
    BY <1>5, <1>9 DEF Quiet
  <2> QED BY <1>8, <1>9, <2>1, <2>2
<1>10. header_state' \notin Bad =>
         /\ state' \in {"s_header_value", "s_header_value_discard_ws"} => AtOther(l, k)' /\ AtOther(l, k + 1)'
         /\ state' \in LwsStates /\ ch = "LF" => AtOther(l, k + 1)'
         /\ state' \in {"s_header_almost_done", "s_header_value_discard_ws_almost_done"} =>
              (ch = "LF" => AtOther(l, k)') /\ (ch = "CR" /\ k + 1 < n => AtOther(l, k + 1)')
         /\ state' = "s_header_value_start" /\ ch \notin {"CR", "LF"} => AtOther(l, k)'
  <2> SUFFICES ASSUME header_state' \notin Bad
               PROVE  /\ state' \in {"s_header_value", "s_header_value_discard_ws"} => AtOther(l, k)' /\ AtOther(l, k + 1)'
                      /\ state' \in LwsStates /\ ch = "LF" => AtOther(l, k + 1)'
                      /\ state' \in {"s_header_almost_done", "s_header_value_discard_ws_almost_done"} =>
                           (ch = "LF" => AtOther(l, k)') /\ (ch = "CR" /\ k + 1 < n => AtOther(l, k + 1)')
                      /\ state' = "s_header_value_start" /\ ch \notin {"CR", "LF"} => AtOther(l, k)'
    OBVIOUS
  <2>1. k + 1 + 1 = k + 2
    OBVIOUS
  <2>2. state' \in {"s_header_value", "s_header_value_discard_ws"} => AtOther(l, k)' /\ AtOther(l, k + 1)'
    BY <1>1 DEF AtOther
  <2>3. state' \in LwsStates /\ ch = "LF" => AtOther(l, k + 1)'
    BY <1>1, <1>3 DEF AtOther, x
  <2>4. state' \in {"s_header_almost_done", "s_header_value_discard_ws_almost_done"} =>
          (ch = "LF" => AtOther(l, k)') /\ (ch = "CR" /\ k + 1 < n => AtOther(l, k + 1)')
    BY <1>1, <1>3, <1>4, <2>1 DEF AtOther, x
  <2>5. state' = "s_header_value_start" /\ ch \notin {"CR", "LF"} => AtOther(l, k)'
    BY <1>1, <1>3 DEF AtOther, x
  <2> QED BY <2>2, <2>3, <2>4, <2>5
<1>11. k + 1 < n \/ (k + 1 = n /\ ch = "LF")
  BY <1>1, <1>4
<1>12. CASE state = "s_header_value"
  <2>1. HeaderValue
    BY <1>12, Which
  <2>2. CASE ch = "LF"
    <3>1. Again("s_header_almost_done") /\ UNCHANGED <<header_state, flags>> /\ Same
      BY <1>7, <2>1, <2>2 DEF HeaderValue
    <3>2. Still /\ state' = "s_header_almost_done"
      BY <1>6, <3>1, LooksAgain
    <3> QED BY <1>7, <1>9, <1>10, <2>2, <3>1, <3>2
  <2>3. CASE ch = "CR"
    <3>1. Take("s_header_almost_done") /\ UNCHANGED <<header_state, flags>> /\ Same
      BY <1>7, <2>1, <2>3 DEF HeaderValue
    <3>2. Taken /\ state' = "s_header_almost_done"
      BY <1>6, <3>1, TakesIt
    <3> QED BY <1>7, <1>9, <1>10, <1>11, <2>3, <3>1, <3>2
  <2>4. CASE ch \notin {"CR", "LF"}
    <3>1. /\ Take("s_header_value") /\ Same /\ header_state' = RestOfValue
          /\ flags' = flags \/ flags' = flags \cup Flag
      BY <1>7, <1>12, <2>1, <2>4 DEF HeaderValue
    <3>2. Taken /\ state' = "s_header_value"
      BY <1>6, <3>1, TakesIt
    <3>3. header_state' \notin Bad /\ (header_state' = "h_upgrade" => header_state = "h_upgrade")
      BY <1>7, <3>1, OtherStates
    <3>4. /\ flags' \cap {"TRAILING", "CHUNKED"} = flags \cap {"TRAILING", "CHUNKED"}
          /\ "UPGRADE" \in flags' => "UPGRADE" \in flags
      BY <1>7, <3>1, OtherStates
    <3>5. Quiet(r, i)'
      BY <1>5, <3>3, <3>4 DEF Quiet
    <3> QED BY <1>8, <1>10, <1>11, <2>4, <3>1, <3>2, <3>3, <3>4, <3>5
  <2> QED BY <2>2, <2>3, <2>4
<1>13. CASE state = "s_header_value_discard_ws"
  <2>1. ValueDiscardWs
    BY <1>13, Which
  <2>2. UNCHANGED <<header_state, flags>> /\ Same
    BY <2>1 DEF ValueDiscardWs
  <2>3. CASE ch = "SP"
    <3>1. Take("s_header_value_discard_ws")
      BY <1>13, <2>1, <2>3 DEF ValueDiscardWs
    <3>2. Taken /\ state' = "s_header_value_discard_ws"
      BY <1>6, <3>1, TakesIt
    <3> QED BY <1>7, <1>9, <1>10, <1>11, <2>2, <2>3, <3>2
  <2>4. CASE ch = "CR"
    <3>1. Take("s_header_value_discard_ws_almost_done")
      BY <2>1, <2>4 DEF ValueDiscardWs
    <3>2. Taken /\ state' = "s_header_value_discard_ws_almost_done"
      BY <1>6, <3>1, TakesIt
    <3> QED BY <1>7, <1>9, <1>10, <1>11, <2>2, <2>4, <3>2
  <2>5. CASE ch = "LF"
    <3>1. Take("s_header_value_discard_lws")
      BY <2>1, <2>5 DEF ValueDiscardWs
    <3>2. Taken /\ state' = "s_header_value_discard_lws" /\ state' \in LwsStates /\ AtStart'
      BY <1>6, <3>1, TakesIt DEF AtStart, LwsStates
    <3> QED BY <1>7, <1>9, <1>10, <1>11, <2>2, <2>5, <3>2
  <2>6. CASE ch \notin {"SP", "CR", "LF"}
    <3>1. Again("s_header_value_start")
      BY <2>1, <2>6 DEF ValueDiscardWs
    <3>2. Still /\ state' = "s_header_value_start"
      BY <1>6, <3>1, LooksAgain
    <3> QED BY <1>7, <1>9, <1>10, <2>2, <2>6, <3>2
  <2> QED BY <2>3, <2>4, <2>5, <2>6
<1>14. CASE state = "s_header_value_start" /\ ch \notin {"CR", "LF"}
  <2>1. ValueStart
    BY <1>14, Which
  <2>2. /\ Take("s_header_value") /\ Same /\ header_state' = FirstOfValue
        /\ flags' = flags \cup IF header_state = "h_upgrade" THEN {"UPGRADE"} ELSE {}
    BY <1>7, <2>1 DEF ValueStart
  <2>3. Taken /\ state' = "s_header_value"
    BY <1>6, <2>2, TakesIt
  <2>4. header_state' \notin Bad /\ header_state' # "h_upgrade"
    BY <1>7, <2>2, OtherStates
  <2>5. flags' \cap {"TRAILING", "CHUNKED"} = flags \cap {"TRAILING", "CHUNKED"}
    BY <2>2
  <2>6. Quiet(r, i)'
    BY <1>5, <2>2, <2>4 DEF Quiet
  <2> QED BY <1>8, <1>10, <1>11, <1>14, <2>2, <2>3, <2>4, <2>5, <2>6
<1>15. CASE state \in LwsStates /\ ch = "SP"
  <2>1. /\ UNCHANGED <<header_state, flags>> /\ Same
        /\ Again("s_header_value_start") \/ Take("s_header_value_discard_ws")
    <3>1. CASE state = "s_header_value_lws"
      <4>1. ValueLws
        BY <3>1, Which
      <4> QED BY <1>15, <4>1 DEF ValueLws
    <3>2. CASE state = "s_header_value_discard_lws"
      <4>1. DiscardLws
        BY <3>2, Which
      <4> QED BY <1>15, <4>1 DEF DiscardLws
    <3> QED BY <1>15, <3>1, <3>2 DEF LwsStates
  <2>2. \/ Still /\ state' = "s_header_value_start"
        \/ Taken /\ state' = "s_header_value_discard_ws"
    BY <1>6, <2>1, LooksAgain, TakesIt
  <2> QED BY <1>7, <1>9, <1>10, <1>11, <1>15, <2>1, <2>2
<1>16. CASE state \in {"s_header_almost_done", "s_header_value_discard_ws_almost_done"} /\ ch = "LF"
  <2>1. /\ UNCHANGED <<header_state, flags>> /\ Same
        /\ Take("s_header_value_lws") \/ Take("s_header_value_discard_lws")
    <3>1. HeaderAlmostDone \/ DiscardWsAlmostDone
      BY <1>16, Which
    <3> QED BY <1>16, <3>1 DEF HeaderAlmostDone, DiscardWsAlmostDone, Expect
  <2>2. Taken /\ state' \in LwsStates /\ AtStart'
    BY <1>6, <2>1, TakesIt DEF AtStart, LwsStates
  <2> QED BY <1>7, <1>9, <1>10, <1>11, <1>16, <2>1, <2>2
<1> QED BY <1>7, <1>12, <1>13, <1>14, <1>15, <1>16


-----------------------------------------------------------------------------
(* At the end of the head, or of the trailers.                             *)

\* A response that is over with the last byte of its wire.
LEMMA Completes ==
  ASSUME NEW r \in Responses, NEW i \in 1 .. Len(r.lines), NEW k \in Nat, Looking(r, i, k),
         Complete, UNCHANGED <<server, outcome>>, outcome = "none", status_code = r.code,
         i = Len(r.lines), k + 1 = Len(r.lines[i].text)
  PROVE  Over(r)'
<1> DEFINE l == r.lines[i]
<1>1. /\ Len(todo) = Len(r.wire) - (l.from + k + 1) /\ todo \in Seq(Char \cup {AnyChar})
      /\ l.from \in Nat /\ Len(l.text) \in Nat /\ Len(r.wire) \in Nat
      /\ l.from + Len(l.text) = Len(r.wire) /\ k + 1 = Len(l.text)
  BY LineFacts DEF Looking, Place, Pending, ParserInv, StateInv
<1> HIDE DEF l
<1>2. Len(todo) = 0
  <2> DEFINE a == l.from
             b == Len(l.text)
             c == Len(r.wire)
             d == Len(todo)
  <2>1. a \in Nat /\ b \in Nat /\ c \in Nat /\ a + b = c /\ k + 1 = b /\ d = c - (a + k + 1)
    BY <1>1
  <2> HIDE DEF a, b, c, d
  <2>2. d = 0
    BY <2>1
  <2> QED BY <2>2 DEF d
<1>3. todo = <<>>
  BY <1>1, <1>2
<1>4. todo' = <<>> /\ outcome' = "none"
  BY <1>3 DEF server
<1> QED BY <1>4 DEF Complete, Reset, Over

\* What is known of the empty line.
LEMMA EndFacts ==
  ASSUME NEW r \in Responses, NEW i \in 1 .. Len(r.lines), Kind(r, i) = "end"
  PROVE  LET x == r.lines[i].text
         IN  /\ Len(x) \in {1, 2} /\ x[Len(x)] = "LF" /\ (Len(x) = 2 => x[1] = "CR")
             /\ i > 1
<1> DEFINE l == r.lines[i]
           x == l.text
           n == Len(x)
<1>1. l.kind = "end" /\ WellFormed(l) /\ n \in Nat
  BY LineFacts DEF Kind
<1> HIDE DEF l
<1>2. 0 < n /\ x[n] = "LF" /\ \A j \in 0 + 1 .. n - 1 : j = n - 1 /\ x[j] = "CR"
  <2>1. Ends(l, 0, {})
    BY <1>1 DEF WellFormed
  <2> QED BY <2>1 DEF Ends
<1> HIDE DEF x, n
<1>3. n > 1 => n = 2 /\ x[1] = "CR"
  <2>1. n > 1 => 1 \in 0 + 1 .. n - 1
    BY <1>1
  <2> QED BY <1>1, <1>2, <2>1
<1>4. n = 1 \/ n = 2
  BY <1>1, <1>2, <1>3
<1>5. i > 1
  <2>1. i # 1 /\ i \in Nat /\ i >= 1
    BY Sequel, LineFacts
  <2> QED BY <2>1
<1>6. n \in {1, 2} /\ x[n] = "LF" /\ (n = 2 => x[1] = "CR")
  BY <1>2, <1>3, <1>4
<1> QED BY <1>5, <1>6 DEF l, x, n

\* Before the head is left.
LEMMA EndStarts ==
  ASSUME NEW r \in Responses, NEW i \in 1 .. Len(r.lines), NEW k \in Nat, Looking(r, i, k),
         Kind(r, i) = "end", Switch, state \notin {"s_headers_done", "s_message_done"}
  PROVE  Reading(r)'
<1> DEFINE l == r.lines[i]
           x == l.text
           n == Len(x)
<1>1. /\ n \in {1, 2} /\ x[n] = "LF" /\ (n = 2 => x[1] = "CR") /\ i > 1
  BY EndFacts
<1>2. AtEnd(l, k) /\ Knows(r, i, k)
  BY DEF Looking, AtLine, Kind
<1>3. k < n /\ (x[k + 1] \in Char => ch = x[k + 1])
  BY Sees
<1>4. \A j \in Nat : AtEnd(l, j)' => AtLine(l, j)'
  BY DEF AtLine, Kind
<1>5. UNCHANGED <<server, outcome>>
  BY Which
<1>6. i <= r.head => (Plain(r) => "UPGRADE" \notin flags /\ header_state # "h_upgrade")
  BY <1>2 DEF Knows, KnowsHead
<1>7. upgrade => ~Plain(r) /\ i > r.head
  BY <1>2 DEF Knows
<1> HIDE DEF n, x, l
<1>8. k \in {0, 1} /\ (k = 0 /\ n = 2 => ch = "CR") /\ (k = n - 1 => ch = "LF") /\ (k # n - 1 => k = 0 /\ n = 2)
  <2>1. k + 1 = n \/ (k + 1 = 1 /\ n = 2)
    BY <1>1, <1>3
  <2>2. "CR" \in Char /\ "LF" \in Char
    BY Chars
  <2>3. CASE k + 1 = n
    <3>1. x[k + 1] = "LF"
      BY <1>1, <2>3
    <3>2. ch = "LF"
      BY <1>3, <2>2, <3>1
    <3>3. k = n - 1 /\ k \in {0, 1} /\ ~(k = 0 /\ n = 2)
      BY <1>1, <2>3
    <3> QED BY <3>2, <3>3
  <2>4. CASE k + 1 = 1 /\ n = 2
    <3>1. k = 0 /\ k # n - 1 /\ x[k + 1] = "CR"
      BY <1>1, <2>4
    <3> QED BY <1>3, <2>2, <2>4, <3>1
  <2> QED BY <2>1, <2>3, <2>4
<1>9. (k = 0 /\ AtStart) \/ (k = n - 1 /\ state = "s_headers_almost_done")
  BY <1>2 DEF AtEnd, n, x
<1>10. CASE k = 0 /\ state \in LwsStates
  <2>1. ch # "SP"
    BY <1>1, <1>8, <1>10
  <2> QED BY <1>10, <2>1, StartsAgain
<1>11. CASE k = 0 /\ state = "s_header_field_start"
  <2>1. /\ UNCHANGED <<header_state, flags, content_length, status_code, nread, upgrade>>
        /\ ch = "CR" => Take("s_headers_almost_done")
        /\ ch = "LF" => Again("s_headers_almost_done")
    <3>1. HeaderFieldStart
      BY <1>11, Which
    <3>2. ch \in {"CR", "LF"} /\ ch \notin Token
      BY <1>1, <1>8, <1>11, Letters DEF Mark
    <3> QED BY <3>1, <3>2 DEF HeaderFieldStart
  <2>2. state' = "s_headers_almost_done" => Seen' = Seen
    BY <1>11, <2>1 DEF Seen, LwsStates
  <2>3. CASE n = 2
    <3>1. Taken /\ state' = "s_headers_almost_done"
      BY <1>5, <1>8, <1>11, <2>1, <2>3, TakesIt
    <3>2. AtEnd(l, k + 1)' /\ k + 1 < n
      BY <1>11, <2>3, <3>1 DEF AtEnd, n, x
    <3>3. Knows(r, i, k + 1)'
      <4>1. Kind(r, i) # "length" /\ i > 1
        BY <1>1
      <4>2. i <= r.head => content_length' = IF Before(r, i, "length") THEN r.length ELSE NoLength
        BY <1>2, <2>1, <4>1 DEF Knows, KnowsHead
      <4>3. status_code' = r.code
        BY <1>1, <1>2, <2>1 DEF Knows
      <4> QED BY <1>6, <1>7, <2>1, <2>2, <3>1, <4>2, <4>3, KnowsOn
    <3> QED BY <1>4, <3>1, <3>2, <3>3, GoesOn DEF l, n, x
  <2>4. CASE n = 1
    <3>1. Still /\ state' = "s_headers_almost_done"
      BY <1>5, <1>8, <1>11, <2>1, <2>4, LooksAgain
    <3>2. AtEnd(l, k)'
      BY <1>11, <2>4, <3>1 DEF AtEnd, n, x
    <3>3. Knows(r, i, k)'
      BY <1>6, <1>7, <2>1, <2>2, <3>1, KnowsStays
    <3> QED BY <1>4, <3>1, <3>2, <3>3, StaysHere DEF l
  <2> QED BY <1>1, <2>3, <2>4
<1>12. CASE k = n - 1 /\ state = "s_headers_almost_done"
  <2>1. ch = "LF" /\ ch # NoChar
    BY <1>8, <1>12 DEF Looking
  <2>2. HeadersAlmostDone
    BY <1>12, Which
  <2>3. /\ UNCHANGED <<header_state, flags, content_length, status_code, nread>>
        /\ "TRAILING" \in flags => Again("s_message_done") /\ UNCHANGED upgrade
        /\ "TRAILING" \notin flags => /\ Again("s_headers_done")
                                      /\ upgrade' => "UPGRADE" \in flags
    BY <2>1, <2>2 DEF HeadersAlmostDone
  <2>4. Still /\ state' = IF "TRAILING" \in flags THEN "s_message_done" ELSE "s_headers_done"
    BY <1>5, <2>3, LooksAgain
  <2>5. Seen' = Seen
    BY <1>12, <2>3, <2>4 DEF Seen, LwsStates
  <2>6. AtEnd(l, k)'
    BY <1>12, <2>1, <2>3, <2>4 DEF AtEnd, Still, n, x
  <2>7. upgrade' => ~Plain(r) /\ (i > r.head \/ state' = "s_headers_done")
    <3>1. "TRAILING" \notin flags => i <= r.head
      <4>1. "TRAILING" \notin flags => ~(i > r.last)
        BY <1>2 DEF Knows
      <4>2. ~(i > r.last) => i = r.head
        BY Sequel
      <4>3. r.head \in Nat
        BY Sequel
      <4> QED BY <4>1, <4>2, <4>3
    <3> QED BY <1>6, <1>7, <2>3, <2>4, <3>1
  <2>8. Knows(r, i, k)'
    BY <1>6, <2>3, <2>4, <2>5, <2>7, KnowsStays
  <2> QED BY <1>4, <2>4, <2>6, <2>8, StaysHere DEF l
<1> QED BY <1>9, <1>10, <1>11, <1>12 DEF AtStart


\* At the end of the head the parser knows how the body ends.
LEMMA HeadKnown ==
  ASSUME NEW r \in Responses, NEW i \in 1 .. Len(r.lines), NEW k \in Nat, Looking(r, i, k),
         Kind(r, i) = "end", state = "s_headers_done"
  PROVE  /\ i = r.head /\ i <= r.last /\ k + 1 = Len(r.lines[i].text)
         /\ "CHUNKED" \in flags <=> IsChunked(r)
         /\ content_length = r.length /\ status_code = r.code
         /\ upgrade => ~Plain(r)
<1> DEFINE l == r.lines[i]
<1>1. AtEnd(l, k) /\ Knows(r, i, k)
  BY DEF Looking, AtLine, Kind
<1>2. i = r.head /\ ~(i > r.last)
  <2>1. ~(i > r.last)
    BY <1>1 DEF AtEnd, Knows
  <2> QED BY <2>1, Sequel
<1>3. r.head \in 2 .. Len(r.lines) /\ r.last \in r.head .. Len(r.lines) /\ Len(r.lines) \in Nat
  BY Sequel, LineFacts
<1>4. i <= r.last /\ i <= r.head /\ i > 1
  BY <1>2, <1>3
<1>5. k + 1 = Len(l.text)
  <2>1. k = Len(l.text) - 1 /\ Len(l.text) \in Nat
    BY <1>1, LineFacts DEF AtEnd, AtStart, LwsStates
  <2> HIDE DEF l
  <2> QED BY <2>1
<1>6. Seen = flags
  BY DEF Seen, LwsStates
<1>7. /\ "CHUNKED" \in flags <=> Before(r, i, "chunked")
      /\ content_length = IF Before(r, i, "length") THEN r.length ELSE NoLength
      /\ status_code = r.code /\ (upgrade => ~Plain(r))
  BY <1>1, <1>4, <1>6 DEF Knows, KnowsHead
<1>8. /\ Before(r, i, "chunked") <=> IsChunked(r)
      /\ Before(r, i, "length") <=> HasLength(r)
  BY <1>2 DEF Before, IsChunked, HasLength
<1>9. ~HasLength(r) => r.length = NoLength
  BY ResponsesAssumption DEF IsResponse, LengthIsRight
<1> QED BY <1>2, <1>4, <1>5, <1>7, <1>8, <1>9

\* From the head to the body.
LEMMA BodyStarts ==
  ASSUME NEW r \in Responses, NEW i \in 1 .. Len(r.lines), NEW k \in Nat, Looking(r, i, k),
         Kind(r, i) = "end", state = "s_headers_done", Taken,
         state' = BodyState, nread' = 0, ~EndsHere,
         UNCHANGED <<header_state, flags, content_length, status_code, upgrade>>,
         i < Len(r.lines), AtLine(r.lines[i + 1], 0)'
  PROVE  Reading(r)'
<1>1. i = r.head /\ status_code' = r.code /\ (upgrade' => ~Plain(r)) /\ k + 1 = Len(r.lines[i].text)
  BY HeadKnown
<1>2. r.head \in 2 .. Len(r.lines) /\ r.last \in r.head .. Len(r.lines) /\ Len(r.lines) \in Nat
  BY Sequel, LineFacts
<1>3. i + 1 <= r.last
  <2> DEFINE n == Len(r.lines)
  <2>1. (r.head < r.last) \/ r.last = n
    <3>1. BodyIsRight(r)
      BY ResponsesAssumption DEF IsResponse
    <3>2. r.head < r.last \/ r.last = n \/ n = r.head
      BY <3>1 DEF BodyIsRight
    <3> QED BY <1>1, <1>2, <3>2
  <2>2. n \in Nat /\ i < n /\ r.head \in 2 .. n /\ r.last \in r.head .. n /\ i = r.head
    BY <1>1, <1>2
  <2> HIDE DEF n
  <2> QED BY <2>1, <2>2
<1>4. /\ i + 1 > r.head /\ ~(i + 1 <= r.head) /\ ~(i + 1 > r.last) /\ ~(i > r.last)
  BY <1>1, <1>2, <1>3
<1>5. "TRAILING" \notin flags'
  BY <1>4 DEF Looking, Knows
<1>6. Knows(r, i + 1, 0)'
  BY <1>1, <1>4, <1>5 DEF Knows, Taken
<1> QED BY <1>1, <1>6, GoesNext

LEMMA EndLeaves ==
  ASSUME NEW r \in Responses, NEW i \in 1 .. Len(r.lines), NEW k \in Nat, Looking(r, i, k),
         Kind(r, i) = "end", Switch, outcome = "none", state \in {"s_headers_done", "s_message_done"}
  PROVE  Reading(r)' \/ Over(r)'
<1>1. UNCHANGED <<server, outcome>>
  BY Which
<1>2. Len(r.lines) \in Nat /\ Len(r.lines[i].text) \in Nat
  BY LineFacts
<1>3. CASE state = "s_message_done"
  <2>1. MessageDone
    BY <1>3, Which
  <2>2. AtEnd(r.lines[i], k) /\ Knows(r, i, k)
    BY DEF Looking, AtLine, Kind
  <2>3. i > r.last
    BY <1>3, <2>2 DEF AtEnd, Knows
  <2>4. i = Len(r.lines)
    BY <2>3, Sequel
  <2>5. k + 1 = Len(r.lines[i].text)
    <3>1. k = Len(r.lines[i].text) - 1
      BY <1>3, <2>2 DEF AtEnd, AtStart, LwsStates
    <3> QED BY <1>2, <3>1
  <2>6. status_code = r.code
    <3>1. i > 1
      BY EndFacts
    <3> QED BY <2>2, <3>1 DEF Knows
  <2> QED BY <1>1, <2>1, <2>4, <2>5, <2>6, Completes DEF MessageDone
<1>4. CASE state = "s_headers_done"
  <2> DEFINE n == Len(r.lines)
  <2>1. /\ i = r.head /\ i <= r.last /\ k + 1 = Len(r.lines[i].text)
        /\ "CHUNKED" \in flags <=> IsChunked(r)
        /\ content_length = r.length /\ status_code = r.code
    BY <1>4, HeadKnown
  <2>2. /\ EndsHere => Complete
        /\ ~EndsHere => /\ Take(BodyState) /\ nread' = 0
                        /\ UNCHANGED <<header_state, flags, content_length, status_code, upgrade>>
    <3>1. HeadersDone
      BY <1>4, Which
    <3> QED BY <3>1 DEF HeadersDone
  <2>3. ~EndsHere => Taken /\ state' = BodyState
    BY <1>1, <2>2, TakesIt
  <2>4. BodyIsRight(r) /\ r.head \in 2 .. n /\ r.last \in r.head .. n
    BY Sequel, ResponsesAssumption DEF IsResponse
  <2>5. CASE IsChunked(r) /\ r.head < r.last /\ r.last < n
    <3>1. ~EndsHere /\ BodyState = "s_chunk_size_start"
      BY <2>1, <2>5 DEF EndsHere, HasBody, BodyState
    <3>2. i < n /\ i + 1 \in 1 .. n
      BY <1>2, <2>1, <2>4, <2>5
    <3>3. Kind(r, i + 1) \in {"chunk", "last"}
      <4>1. /\ \A j \in r.head + 1 .. r.last - 1 : Kind(r, j) = "chunk"
            /\ Kind(r, r.last) = "last"
        BY <2>4, <2>5 DEF BodyIsRight
      <4>2. i + 1 \in r.head + 1 .. r.last - 1 \/ i + 1 = r.last
        <5>1. r.head \in Nat /\ r.last \in Nat /\ i = r.head /\ r.head < r.last
          BY <1>2, <2>1, <2>4, <2>5
        <5> QED BY <5>1
      <4> QED BY <4>1, <4>2
    <3>4. AtLine(r.lines[i + 1], 0)'
      <4> DEFINE m == r.lines[i + 1]
      <4>1. m.kind \in {"chunk", "last"}
        BY <3>3 DEF Kind
      <4>2. m.mark \in Nat /\ m.stop \in Nat /\ m.stop + 2 <= m.mark
        <5>1. WellFormed(m) /\ m.mark \in Nat /\ m.stop \in Nat
          BY <3>2, LineFacts
        <5> HIDE DEF m
        <5> QED BY <4>1, <5>1 DEF WellFormed, ChunkLine, LastLine, SizeLine
      <4> HIDE DEF m
      <4>3. ~(m.mark <= 0) /\ ~(m.stop < 0)
        BY <4>2
      <4>4. nread' = 0 + Pending' /\ state' = "s_chunk_size_start"
        BY <2>2, <2>3, <3>1 DEF Taken, Pending
      <4>5. AtChunk(m, 0)'
        BY <4>3, <4>4 DEF AtChunk
      <4>6. AtLine(m, 0)'
        BY <4>1, <4>5 DEF AtLine
      <4> QED BY <4>6 DEF m
    <3> QED BY <1>4, <2>2, <2>3, <3>1, <3>2, <3>4, BodyStarts
  <2>6. CASE ~IsChunked(r) /\ r.length \notin {0, NoLength} /\ n = r.head + 1
             /\ Kind(r, n) = "data" /\ Len(r.lines[n].text) = r.length
    <3>1. ~EndsHere /\ BodyState = "s_body_identity"
      BY <2>1, <2>6 DEF EndsHere, HasBody, BodyState
    <3>2. i < n /\ i + 1 = n /\ i + 1 \in 1 .. n
      BY <1>2, <2>1, <2>4, <2>6
    <3>3. AtLine(r.lines[i + 1], 0)'
      <4> DEFINE m == r.lines[i + 1]
      <4>1. m.kind = "data" /\ Len(m.text) = r.length
        BY <2>6, <3>2 DEF Kind
      <4>2. Len(m.text) \in Nat
        BY <3>2, LineFacts
      <4> HIDE DEF m
      <4>3. state' = "s_body_identity" /\ content_length' = Len(m.text) - 0
        BY <2>1, <2>2, <2>3, <3>1, <4>1, <4>2
      <4>4. AtData(m, 0)'
        BY <4>3 DEF AtData
      <4>5. AtLine(m, 0)'
        BY <4>1, <4>4 DEF AtLine
      <4> QED BY <4>5 DEF m
    <3> QED BY <1>4, <2>2, <2>3, <3>1, <3>2, <3>3, BodyStarts
  <2>7. CASE ~IsChunked(r) /\ n = r.head
             /\ (r.length = 0 \/ (r.length = NoLength /\ (r.code \div 100 = 1 \/ r.code \in {204, 304})))
    <3>1. EndsHere
      <4>1. 0 # NoLength
        BY SizeAssumption DEF NoLength
      <4> QED BY <2>1, <2>7, <4>1 DEF EndsHere, HasBody, NeedsEof
    <3> QED BY <1>1, <2>1, <2>2, <2>7, <3>1, Completes
  <2> QED BY <2>4, <2>5, <2>6, <2>7 DEF BodyIsRight
<1> QED BY <1>3, <1>4

-----------------------------------------------------------------------------
(* In a body with a length.                                                *)

LEMMA DataSteps ==
  ASSUME NEW r \in Responses, NEW i \in 1 .. Len(r.lines), NEW k \in Nat, Looking(r, i, k),
         Kind(r, i) = "data", Switch, outcome = "none"
  PROVE  Reading(r)' \/ Over(r)'
<1> DEFINE l == r.lines[i]
           n == Len(l.text)
<1>1. AtData(l, k) /\ Knows(r, i, k)
  BY DEF Looking, AtLine, Kind
<1>2. n \in Nat /\ k < n
  BY Sees, LineFacts
<1>3. i = Len(r.lines) /\ i > r.head /\ i = r.last /\ r.head \in 2 .. Len(r.lines) /\ Len(r.lines) \in Nat
  BY Sequel, LineFacts
<1>4. i > 1 /\ ~(i <= r.head) /\ ~(i > r.last)
  BY <1>3
<1>5. UNCHANGED <<server, outcome>> /\ ch # NoChar
  BY Which DEF Looking
<1>6. \A j \in Nat : AtData(l, j)' => AtLine(l, j)'
  BY DEF AtLine, Kind
<1>7. /\ nparsed = 1 /\ status_code = r.code /\ "TRAILING" \notin flags /\ (upgrade => ~Plain(r))
  BY <1>1, <1>4 DEF Knows
<1>8. ASSUME NEW j \in Nat, nparsed' = 1, UNCHANGED <<status_code, flags, upgrade>>
      PROVE  Knows(r, i, j)'
  BY <1>3, <1>4, <1>7, <1>8 DEF Knows
<1> HIDE DEF l, n
<1>9. CASE state = "s_message_done" /\ k = n - 1
  <2>1. Complete
    BY <1>9, Which DEF MessageDone
  <2>2. k + 1 = n
    BY <1>2, <1>9
  <2> QED BY <1>3, <1>5, <1>7, <2>1, <2>2, Completes DEF l, n
<1>10. CASE state = "s_body_identity" /\ content_length = n - k
  <2>1. /\ content_length' = n - k - 1
        /\ UNCHANGED <<flags, status_code, upgrade>>
        /\ content_length' = 0 => Again("s_message_done")
        /\ content_length' # 0 => Take("s_body_identity")
    <3>1. BodyIdentity
      BY <1>10, Which
    <3> QED BY <1>10, <3>1 DEF BodyIdentity
  <2>2. CASE k = n - 1
    <3>1. content_length' = 0
      BY <1>2, <2>1, <2>2
    <3>2. Still /\ state' = "s_message_done"
      BY <1>5, <2>1, <3>1, LooksAgain
    <3>3. AtData(l, k)' /\ nparsed' = 1
      BY <1>5, <1>7, <2>2, <3>2 DEF AtData, Still, n
    <3>4. AtLine(l, k)' /\ Knows(r, i, k)'
      BY <1>6, <1>8, <2>1, <3>3
    <3> QED BY <3>2, <3>4, StaysHere DEF l
  <2>3. CASE k # n - 1
    <3>1. content_length' = n - (k + 1) /\ content_length' # 0 /\ k + 1 < n
      BY <1>2, <2>1, <2>3
    <3>2. Taken /\ state' = "s_body_identity"
      BY <1>5, <2>1, <3>1, TakesIt
    <3>3. AtData(l, k + 1)' /\ nparsed' = 1
      BY <3>1, <3>2 DEF AtData, Taken, n
    <3>4. AtLine(l, k + 1)' /\ Knows(r, i, k + 1)'
      BY <1>6, <1>8, <2>1, <3>3
    <3> QED BY <3>1, <3>2, <3>4, GoesOn DEF l, n
  <2> QED BY <2>2, <2>3
<1> QED BY <1>1, <1>9, <1>10 DEF AtData, n


-----------------------------------------------------------------------------
(* In a chunk.                                                             *)

\* What is known of a chunk, or the last one.
LEMMA ChunkFacts ==
  ASSUME NEW r \in Responses, NEW i \in 1 .. Len(r.lines), Kind(r, i) \in {"chunk", "last"}
  PROVE  LET l == r.lines[i]
             x == l.text
             n == Len(x)
         IN  /\ n \in Nat /\ l.mark \in Nat /\ l.stop \in Nat /\ Size(l) \in Nat
             /\ 0 < l.stop /\ l.stop + 2 <= l.mark /\ l.mark <= n /\ l.mark <= MaxHeader
             /\ \A j \in 1 .. l.stop : /\ x[j] \in HexDigit /\ l.number[j] \in Nat
                                       /\ l.number[j] <= MaxLength - 16
             /\ l.number[1] = Value[x[1]]
             /\ \A j \in 1 .. l.stop - 1 : l.number[j + 1] = 16 * l.number[j] + Value[x[j + 1]]
             /\ x[l.mark - 1] = "CR" /\ x[l.mark] = "LF"
             /\ \A j \in l.stop + 1 .. l.mark - 2 : x[j] \in Char \ {"CR", "LF"}
             /\ l.stop + 2 < l.mark => x[l.stop + 1] \in {";", "SP"}
             /\ Kind(r, i) = "chunk" =>
                  Size(l) > 0 /\ n = l.mark + Size(l) + 2 /\ x[n - 1] = "CR" /\ x[n] = "LF"
             /\ Kind(r, i) = "last" => Size(l) = 0 /\ n = l.mark
<1> DEFINE l == r.lines[i]
           x == l.text
           n == Len(x)
<1>1. /\ l.kind \in {"chunk", "last"} /\ WellFormed(l) /\ n \in Nat /\ l.mark \in Nat /\ l.stop \in Nat
      /\ l.number \in Seq(Nat) /\ l.kind = Kind(r, i)
  BY LineFacts DEF Kind
<1> HIDE DEF l
<1>2. /\ SizeLine(l)
      /\ l.kind = "chunk" => Size(l) > 0 /\ n = l.mark + Size(l) + 2 /\ x[n - 1] = "CR" /\ x[n] = "LF"
      /\ l.kind = "last" => Size(l) = 0 /\ n = l.mark
  BY <1>1 DEF WellFormed, ChunkLine, LastLine
<1>3. /\ l.first = 0 /\ Counts(l, HexDigit, 16)
      /\ l.stop + 2 <= l.mark /\ l.mark <= n /\ l.mark <= MaxHeader
      /\ x[l.mark - 1] = "CR" /\ x[l.mark] = "LF"
      /\ \A j \in l.stop + 1 .. l.mark - 2 : x[j] \in Char \ {"CR", "LF"}
      /\ l.stop + 2 < l.mark => x[l.stop + 1] \in {";", "SP"}
  BY <1>2 DEF SizeLine
<1>4. /\ 0 < l.stop /\ l.stop <= Len(l.number)
      /\ \A j \in 0 + 1 .. l.stop : x[j] \in HexDigit /\ l.number[j] <= MaxLength - 16
      /\ l.number[0 + 1] = Value[x[0 + 1]]
      /\ \A j \in 0 + 1 .. l.stop - 1 : l.number[j + 1] = 16 * l.number[j] + Value[x[j + 1]]
  BY <1>3 DEF Counts
<1>5. \A j \in 1 .. l.stop : l.number[j] \in Nat
  <2> DEFINE num == l.number
  <2>1. num \in Seq(Nat) /\ l.stop <= Len(num) /\ l.stop \in Nat
    BY <1>1, <1>4
  <2> HIDE DEF num
  <2>2. \A j \in 1 .. l.stop : num[j] \in Nat
    BY <2>1
  <2> QED BY <2>2 DEF num
<1>6. Size(l) \in Nat
  <2>1. l.stop \in 1 .. l.stop
    BY <1>1, <1>4
  <2> QED BY <1>5, <2>1 DEF Size
<1> HIDE DEF x, n
<1>7. /\ 0 < l.stop
      /\ \A j \in 1 .. l.stop : x[j] \in HexDigit /\ l.number[j] \in Nat /\ l.number[j] <= MaxLength - 16
      /\ l.number[1] = Value[x[1]]
      /\ \A j \in 1 .. l.stop - 1 : l.number[j + 1] = 16 * l.number[j] + Value[x[j + 1]]
  BY <1>4, <1>5
<1> QED BY <1>1, <1>2, <1>3, <1>6, <1>7 DEF l, x, n

LEMMA InChunk ==
  ASSUME NEW r \in Responses, NEW i \in 1 .. Len(r.lines), NEW k \in Nat, Looking(r, i, k),
         Kind(r, i) \in {"chunk", "last"}
  PROVE  /\ i > 1 /\ i > r.head /\ ~(i <= r.head) /\ ~(i > r.last) /\ i < Len(r.lines)
         /\ nparsed = 1 /\ status_code = r.code /\ "TRAILING" \notin flags /\ (upgrade => ~Plain(r))
<1>1. /\ i > r.head /\ i <= r.last /\ i < Len(r.lines) /\ i > 1 /\ ~(i <= r.head) /\ ~(i > r.last)
  <2>1. r.head \in 2 .. Len(r.lines) /\ r.last \in r.head .. Len(r.lines) /\ Len(r.lines) \in Nat
    BY Sequel, LineFacts
  <2>2. i > r.head /\ ((i = r.last /\ i < Len(r.lines)) \/ i < r.last)
    BY Sequel
  <2> QED BY <2>1, <2>2
<1> QED BY <1>1 DEF Looking, Knows

LEMMA ChunkGoesOn ==
  ASSUME NEW r \in Responses, NEW i \in 1 .. Len(r.lines), NEW k \in Nat, Looking(r, i, k),
         Kind(r, i) \in {"chunk", "last"}, Taken, UNCHANGED <<status_code, flags, upgrade>>,
         k + 1 < Len(r.lines[i].text), AtChunk(r.lines[i], k + 1)'
  PROVE  Reading(r)'
<1>1. AtLine(r.lines[i], k + 1)'
  BY DEF AtLine, Kind
<1>2. nparsed' = 1
  BY DEF Taken
<1>3. Knows(r, i, k + 1)'
  BY <1>2, InChunk DEF Knows
<1> QED BY <1>1, <1>3, GoesOn

\* The first line of a chunk.
LEMMA SizeSteps ==
  ASSUME NEW r \in Responses, NEW i \in 1 .. Len(r.lines), NEW k \in Nat, Looking(r, i, k),
         Kind(r, i) \in {"chunk", "last"}, Switch, k < r.lines[i].mark - 1
  PROVE  Reading(r)'
<1> DEFINE l == r.lines[i]
           x == l.text
           n == Len(x)
           num == l.number
           s == Size(l)
<1>1. /\ n \in Nat /\ l.mark \in Nat /\ l.stop \in Nat
      /\ 0 < l.stop /\ l.stop + 2 <= l.mark /\ l.mark <= n /\ k < l.mark - 1
  <2>1. /\ n \in Nat /\ l.mark \in Nat /\ l.stop \in Nat
        /\ 0 < l.stop /\ l.stop + 2 <= l.mark /\ l.mark <= n
    BY ChunkFacts
  <2> QED BY <2>1
<1>2. AtChunk(l, k)
  BY DEF Looking, AtLine, Kind
<1>3. (x[k + 1] \in Char => ch = x[k + 1]) /\ Pending = 1
  BY Sees DEF Looking, Pending
<1>4. UNCHANGED <<server, outcome>>
  BY Which
<1>5. /\ \A j \in 1 .. l.stop : x[j] \in HexDigit /\ num[j] \in Nat /\ num[j] <= MaxLength - 16
      /\ num[1] = Value[x[1]] /\ s = num[l.stop]
      /\ \A j \in 1 .. l.stop - 1 : num[j + 1] = 16 * num[j] + Value[x[j + 1]]
      /\ x[l.mark - 1] = "CR"
      /\ \A j \in l.stop + 1 .. l.mark - 2 : x[j] \in Char \ {"CR", "LF"}
      /\ l.stop + 2 < l.mark => x[l.stop + 1] \in {";", "SP"}
  BY ChunkFacts DEF Size
<1> HIDE DEF x, n, num, s, l
<1>6. k + 1 < n /\ k < l.mark /\ k + 1 < l.mark /\ ~(l.mark <= k) /\ ~(l.mark <= k + 1) /\ k + 1 > 0
  BY <1>1
<1>7. nread = k + 1
  BY <1>2, <1>3, <1>6 DEF AtChunk
<1>8. ASSUME Taken, nread' = nread, k + 1 <= l.stop, state' = "s_chunk_size", content_length' = num[k + 1]
      PROVE  AtChunk(l, k + 1)'
  <2>1. nread' = k + 1 + Pending'
    BY <1>7, <1>8 DEF Taken, Pending
  <2>2. ~(l.stop < k + 1) /\ k + 1 # 0
    BY <1>1, <1>8
  <2> QED BY <1>6, <1>8, <2>1, <2>2 DEF AtChunk, num
<1>9. ASSUME Taken, nread' = nread, k >= l.stop, content_length' = s,
             state' = IF k + 1 = l.mark - 1 THEN "s_chunk_size_almost_done" ELSE "s_chunk_parameters"
      PROVE  AtChunk(l, k + 1)'
  <2>1. nread' = k + 1 + Pending'
    BY <1>7, <1>9 DEF Taken, Pending
  <2>2. l.stop < k + 1 /\ ~(k + 1 <= l.stop) /\ k + 1 # 0
    BY <1>1, <1>9
  <2> QED BY <1>6, <1>9, <2>1, <2>2 DEF AtChunk, s
<1>10. CASE k < l.stop
  <2>1. /\ ch = x[k + 1] /\ ch \in HexDigit /\ ch \notin {"CR", ";", "SP"}
        /\ num[k + 1] \in Nat /\ num[k + 1] <= MaxLength - 16
    <3>1. k + 1 \in 1 .. l.stop
      BY <1>1, <1>10
    <3> QED BY <1>3, <1>5, <3>1, Chars
  <2>2. CASE k = 0
    <3>1. state = "s_chunk_size_start"
      BY <1>2, <2>2 DEF AtChunk
    <3>2. /\ content_length' = num[k + 1] /\ Take("s_chunk_size")
          /\ UNCHANGED <<flags, status_code, nread, upgrade>>
      <4>1. ChunkSizeStart
        BY <3>1, Which
      <4>2. ch = x[1] /\ num[k + 1] = num[1]
        <5>1. k + 1 = 1
          BY <2>2
        <5> QED BY <2>1, <5>1
      <4> QED BY <1>5, <2>1, <4>1, <4>2 DEF ChunkSizeStart, Number
    <3>3. Taken /\ state' = "s_chunk_size"
      BY <1>4, <3>2, TakesIt
    <3>4. k + 1 <= l.stop
      BY <1>1, <2>2
    <3> QED BY <1>6, <1>8, <3>2, <3>3, <3>4, ChunkGoesOn DEF l, x, n
  <2>3. CASE k > 0
    <3>1. state = "s_chunk_size" /\ content_length = num[k]
      <4>1. 0 < k /\ k <= l.stop
        BY <1>1, <1>10, <2>3
      <4> QED BY <1>2, <4>1 DEF AtChunk, num
    <3>2. LengthDigit(16) /\ UNCHANGED <<flags, status_code, nread, upgrade>>
      <4>1. ChunkSize
        BY <3>1, Which
      <4> QED BY <2>1, <4>1 DEF ChunkSize, EndOfSize
    <3>3. content_length' = num[k + 1] /\ Take("s_chunk_size")
      <4> DEFINE a == num[k]
                 b == num[k + 1]
      <4>1. Number(ch) \in 0 .. 15
        BY <2>1, DigitAssumption DEF Number
      <4>2. k \in 1 .. l.stop - 1 /\ k \in 1 .. l.stop
        BY <1>1, <1>10, <2>3
      <4>3. a \in Nat /\ b \in Nat /\ b <= MaxLength - 16 /\ b = 16 * a + Number(ch) /\ content_length = a
        BY <1>5, <2>1, <3>1, <4>2 DEF Number
      <4> HIDE DEF a, b
      <4>4. content_length' = b /\ Take(state)
        BY <3>2, <4>1, <4>3, DigitTaken
      <4> QED BY <3>1, <4>4 DEF b
    <3>4. Taken /\ state' = "s_chunk_size"
      BY <1>4, <3>3, TakesIt
    <3>5. k + 1 <= l.stop
      BY <1>1, <1>10
    <3> QED BY <1>6, <1>8, <3>2, <3>3, <3>4, <3>5, ChunkGoesOn DEF l, x, n
  <2> QED BY <2>2, <2>3
<1>11. CASE k >= l.stop
  <2>1. /\ ch = x[k + 1]
        /\ ch = "CR" <=> k + 1 = l.mark - 1
        /\ k = l.stop => ch \in {"CR", ";", "SP"} /\ ch \notin HexDigit
    <3>1. CASE k + 1 = l.mark - 1
      <4>1. x[k + 1] = "CR"
        BY <1>5, <3>1
      <4> QED BY <1>3, <3>1, <4>1, Chars
    <3>2. CASE k + 1 # l.mark - 1
      <4>1. k + 1 \in l.stop + 1 .. l.mark - 2
        BY <1>1, <1>11, <3>2
      <4>2. ch = x[k + 1] /\ ch # "CR"
        BY <1>3, <1>5, <4>1
      <4>3. k = l.stop => x[k + 1] \in {";", "SP"}
        <5>1. k = l.stop => l.stop + 2 < l.mark /\ k + 1 = l.stop + 1
          BY <1>1, <3>2
        <5> QED BY <1>5, <5>1
      <4>4. k = l.stop => ch \in {"CR", ";", "SP"} /\ ch \notin HexDigit
        BY <4>2, <4>3, Chars
      <4> QED BY <3>2, <4>2, <4>4
    <3> QED BY <3>1, <3>2
  <2>2. /\ content_length = s
        /\ k = l.stop => state = "s_chunk_size"
        /\ k # l.stop => state = "s_chunk_parameters"
    <3>1. CASE k = l.stop
      <4>1. 0 < k /\ k <= l.stop
        BY <1>1, <3>1
      <4> QED BY <1>2, <1>5, <3>1, <4>1 DEF AtChunk, num
    <3>2. CASE k # l.stop
      <4>1. l.stop < k /\ k # l.mark - 1
        BY <1>1, <1>11, <3>2
      <4> QED BY <1>2, <1>6, <3>2, <4>1 DEF AtChunk, s
    <3> QED BY <3>1, <3>2
  <2>3. /\ UNCHANGED <<content_length, flags, status_code, nread, upgrade>>
        /\ Take(IF k + 1 = l.mark - 1 THEN "s_chunk_size_almost_done" ELSE "s_chunk_parameters")
    <3>1. CASE k = l.stop
      <4>1. ChunkSize
        BY <2>2, <3>1, Which
      <4>2. EndOfSize /\ UNCHANGED <<flags, status_code, nread, upgrade>>
        BY <2>1, <3>1, <4>1 DEF ChunkSize
      <4> QED BY <2>1, <3>1, <4>2 DEF EndOfSize
    <3>2. CASE k # l.stop
      <4>1. ChunkParameters
        BY <2>2, <3>2, Which
      <4> QED BY <2>1, <2>2, <3>2, <4>1 DEF ChunkParameters
    <3> QED BY <3>1, <3>2
  <2>4. Taken /\ state' = IF k + 1 = l.mark - 1 THEN "s_chunk_size_almost_done" ELSE "s_chunk_parameters"
    BY <1>4, <2>3, TakesIt
  <2>5. content_length' = s
    BY <2>2, <2>3
  <2> QED BY <1>6, <1>9, <1>11, <2>3, <2>4, <2>5, ChunkGoesOn DEF l, x, n
<1> QED BY <1>1, <1>10, <1>11


\* A chunk is followed by the first line of the next one.
LEMMA ChunkStarts ==
  ASSUME NEW r \in Responses, NEW i \in 1 .. Len(r.lines), Kind(r, i) \in {"chunk", "last"},
         state' = "s_chunk_size_start", nread' = 0, ch' = NoChar
  PROVE  AtLine(r.lines[i], 0)'
<1> DEFINE m == r.lines[i]
<1>1. m.kind \in {"chunk", "last"} /\ m.mark \in Nat /\ m.stop \in Nat /\ m.stop + 2 <= m.mark
  BY ChunkFacts, LineFacts DEF Kind
<1> HIDE DEF m
<1>2. ~(m.mark <= 0) /\ ~(m.stop < 0)
  BY <1>1
<1>3. nread' = 0 + Pending'
  BY DEF Pending
<1>4. AtChunk(m, 0)'
  BY <1>2, <1>3 DEF AtChunk
<1>5. AtLine(m, 0)'
  BY <1>1, <1>4 DEF AtLine
<1> QED BY <1>5 DEF m

\* The end of its first line: data, or the trailers.
LEMMA SizeEnds ==
  ASSUME NEW r \in Responses, NEW i \in 1 .. Len(r.lines), NEW k \in Nat, Looking(r, i, k),
         Kind(r, i) \in {"chunk", "last"}, Switch, k = r.lines[i].mark - 1
  PROVE  Reading(r)'
<1> DEFINE l == r.lines[i]
           x == l.text
           n == Len(x)
           s == Size(l)
<1>1. /\ n \in Nat /\ l.mark \in Nat /\ l.stop \in Nat /\ s \in Nat
      /\ 0 < l.stop /\ l.stop + 2 <= l.mark /\ l.mark <= n
      /\ x[l.mark] = "LF"
      /\ Kind(r, i) = "chunk" => s > 0 /\ n = l.mark + s + 2
      /\ Kind(r, i) = "last" => s = 0 /\ n = l.mark
  BY ChunkFacts
<1>2. AtChunk(l, k)
  BY DEF Looking, AtLine, Kind
<1>3. x[k + 1] \in Char => ch = x[k + 1]
  BY Sees
<1>4. UNCHANGED <<server, outcome>>
  BY Which
<1>0. k = l.mark - 1
  OBVIOUS
<1> HIDE DEF x, n, s, l
<1>5. k + 1 = l.mark /\ l.stop < k /\ k < l.mark
  <2> DEFINE m == l.mark
             e == l.stop
  <2>1. m \in Nat /\ e \in Nat /\ e + 2 <= m
    BY <1>1
  <2>2. k = m - 1
    BY <1>0
  <2> HIDE DEF m, e
  <2>3. k + 1 = m /\ e < k /\ k < m
    BY <2>1, <2>2
  <2> QED BY <2>3 DEF m, e
<1>6. ch = "LF"
  BY <1>1, <1>3, <1>5, Chars
<1>7. state = "s_chunk_size_almost_done" /\ content_length = s
  BY <1>0, <1>2, <1>5 DEF AtChunk, s
<1>8. /\ UNCHANGED <<header_state, content_length, status_code, upgrade>> /\ nread' = 0
      /\ s = 0 => flags' = flags \cup {"TRAILING"} /\ Take("s_header_field_start")
      /\ s # 0 => Take("s_chunk_data") /\ UNCHANGED flags
  <2>1. ChunkSizeAlmostDone
    BY <1>7, Which
  <2> QED BY <1>6, <1>7, <2>1 DEF ChunkSizeAlmostDone
<1>9. CASE Kind(r, i) = "chunk"
  <2>1. Taken /\ state' = "s_chunk_data" /\ UNCHANGED flags
    BY <1>1, <1>4, <1>8, <1>9, TakesIt
  <2>2. k + 1 < n /\ ~(k + 1 < l.mark) /\ ~(k + 1 <= l.stop) /\ l.mark <= k + 1 /\ k + 1 # 0
        /\ k + 1 # n - 1 /\ k + 1 # n - 2 /\ s = n - 2 - (k + 1)
    <3> DEFINE m == l.mark
               p == l.stop
    <3>1. m \in Nat /\ p \in Nat /\ s \in Nat /\ s > 0 /\ n = m + s + 2 /\ k + 1 = m /\ p + 2 <= m
      BY <1>1, <1>5, <1>9
    <3> HIDE DEF m, p
    <3>2. k + 1 < n /\ ~(k + 1 < m) /\ ~(k + 1 <= p) /\ m <= k + 1 /\ k + 1 # 0
      BY <3>1
    <3>3. k + 1 # n - 1 /\ k + 1 # n - 2 /\ s = n - 2 - (k + 1)
      BY <3>1
    <3> QED BY <3>2, <3>3 DEF m, p
  <2>3. content_length' = n - 2 - (k + 1)
    BY <1>7, <1>8, <2>2
  <2>4. AtChunk(l, k + 1)'
    BY <2>1, <2>2, <2>3 DEF AtChunk, n, x
  <2> QED BY <1>8, <2>1, <2>2, <2>4, ChunkGoesOn DEF l, x, n
<1>10. CASE Kind(r, i) = "last"
  <2>1. Taken /\ state' = "s_header_field_start" /\ "TRAILING" \in flags'
    BY <1>1, <1>4, <1>8, <1>10, TakesIt
  <2>2. k + 1 = n
    BY <1>1, <1>5, <1>10
  <2>3. i = r.last /\ i < Len(r.lines) /\ Kind(r, i + 1) \in Headers \cup {"end"}
    BY <1>10, Sequel
  <2>4. AtLine(r.lines[i + 1], 0)'
    BY <2>1, <2>3, StartsNext DEF AtStart
  <2>5. Knows(r, i + 1, 0)'
    <3>1. /\ i \in Nat /\ r.head \in Nat /\ i > r.head /\ i + 1 \in 1 .. Len(r.lines)
      BY <2>3, InChunk, Sequel, LineFacts
    <3>2. i + 1 > r.last /\ ~(i + 1 <= r.head) /\ i + 1 > r.head
      BY <2>3, <3>1
    <3>3. nread' = (r.lines[i + 1].from + 0 + Pending') - r.lines[r.last + 1].from
      <4> DEFINE a == r.lines[i + 1].from
      <4>1. a \in Nat /\ Pending' = 0 /\ r.lines[r.last + 1].from = a
        BY <2>1, <2>3, <3>1, LineFacts DEF Pending, Taken
      <4> HIDE DEF a
      <4>2. (a + 0 + 0) - a = 0
        BY <4>1
      <4>3. nread' = (a + 0 + Pending') - a
        BY <1>8, <4>1, <4>2
      <4>4. nread' = (a + 0 + Pending') - r.lines[r.last + 1].from
        BY <4>1, <4>3
      <4> QED BY <4>4 DEF a
    <3>4. nparsed' = 1 /\ status_code' = r.code /\ (upgrade' => ~Plain(r))
      BY <1>8, <2>1, InChunk DEF Taken
    <3> QED BY <2>1, <3>2, <3>3, <3>4 DEF Knows
  <2> QED BY <2>1, <2>2, <2>3, <2>4, <2>5, GoesNext DEF l, x, n
<1> QED BY <1>9, <1>10

\* Its data.
LEMMA ChunkDataSteps ==
  ASSUME NEW r \in Responses, NEW i \in 1 .. Len(r.lines), NEW k \in Nat, Looking(r, i, k),
         Kind(r, i) \in {"chunk", "last"}, Switch, k >= r.lines[i].mark
  PROVE  Reading(r)'
<1> DEFINE l == r.lines[i]
           x == l.text
           n == Len(x)
           s == Size(l)
<1>1. /\ n \in Nat /\ l.mark \in Nat /\ l.stop \in Nat /\ s \in Nat
      /\ 0 < l.stop /\ l.stop + 2 <= l.mark /\ l.mark <= n
      /\ Kind(r, i) = "chunk" => s > 0 /\ n = l.mark + s + 2 /\ x[n - 1] = "CR" /\ x[n] = "LF"
      /\ Kind(r, i) = "last" => n = l.mark
  BY ChunkFacts
<1>2. AtChunk(l, k)
  BY DEF Looking, AtLine, Kind
<1>3. (x[k + 1] \in Char => ch = x[k + 1]) /\ k < n
  BY Sees
<1>4. UNCHANGED <<server, outcome>>
  BY Which
<1>0. k >= l.mark
  OBVIOUS
<1> HIDE DEF x, n, s, l
<1>5. /\ Kind(r, i) = "chunk" /\ l.mark <= k /\ l.mark <= k + 1 /\ ~(k + 1 < l.mark) /\ ~(k + 1 <= l.stop) /\ k + 1 # 0
      /\ n = l.mark + s + 2 /\ x[n - 1] = "CR" /\ x[n] = "LF"
  BY <1>0, <1>1, <1>3
<1>6. /\ k = n - 1 => state = "s_chunk_data_done"
      /\ k = n - 2 => state = "s_chunk_data_almost_done"
      /\ k # n - 1 /\ k # n - 2 => state = "s_chunk_data" /\ content_length = n - 2 - k
  <2>1. n - 1 # n - 2
    BY <1>1
  <2> QED BY <1>2, <1>5, <2>1 DEF AtChunk, n, x
<1>7. CASE k = n - 1
  <2>1. ch = "LF"
    <3>1. k + 1 = n
      BY <1>1, <1>7
    <3> QED BY <1>3, <1>5, <3>1, Chars
  <2>2. /\ nread' = 0 /\ Take("s_chunk_size_start")
        /\ UNCHANGED <<flags, status_code, upgrade>>
    <3>1. ChunkDataDone
      BY <1>6, <1>7, Which
    <3> QED BY <2>1, <3>1 DEF ChunkDataDone
  <2>3. Taken /\ state' = "s_chunk_size_start"
    BY <1>4, <2>2, TakesIt
  <2>4. i > r.head /\ i < r.last /\ Kind(r, i + 1) \in {"chunk", "last"}
        /\ i < Len(r.lines) /\ i + 1 \in 1 .. Len(r.lines)
        /\ r.head \in Nat /\ r.last \in Nat /\ i \in Nat
    <3>1. i > r.head /\ i < r.last /\ Kind(r, i + 1) \in {"chunk", "last"}
      BY <1>5, Sequel
    <3>2. i < Len(r.lines) /\ Len(r.lines) \in Nat
      BY InChunk, LineFacts
    <3>3. r.head \in 2 .. Len(r.lines) /\ r.last \in r.head .. Len(r.lines)
      BY Sequel
    <3> QED BY <3>1, <3>2, <3>3
  <2>5. AtLine(r.lines[i + 1], 0)'
    BY <2>2, <2>3, <2>4, ChunkStarts DEF Taken
  <2>6. Knows(r, i + 1, 0)'
    <3>1. ~(i + 1 <= r.head) /\ ~(i + 1 > r.last) /\ i + 1 > r.head
      BY <2>4
    <3>2. nparsed' = 1 /\ status_code' = r.code /\ (upgrade' => ~Plain(r)) /\ "TRAILING" \notin flags'
      BY <2>2, <2>3, InChunk DEF Taken
    <3> QED BY <3>1, <3>2 DEF Knows
  <2>7. k + 1 = n
    BY <1>1, <1>7
  <2> QED BY <2>3, <2>4, <2>5, <2>6, <2>7, GoesNext DEF l, x, n
<1>8. CASE k = n - 2
  <2>1. ch = "CR" /\ k + 1 = n - 1 /\ k + 1 < n
    <3>1. k + 1 = n - 1 /\ k + 1 < n
      BY <1>1, <1>8
    <3> QED BY <1>3, <1>5, <3>1, Chars
  <2>2. Take("s_chunk_data_done") /\ UNCHANGED <<flags, status_code, upgrade>>
    <3>1. ChunkDataAlmostDone
      BY <1>6, <1>8, Which
    <3> QED BY <2>1, <3>1 DEF ChunkDataAlmostDone, Expect
  <2>3. Taken /\ state' = "s_chunk_data_done"
    BY <1>4, <2>2, TakesIt
  <2>4. AtChunk(l, k + 1)'
    BY <1>5, <2>1, <2>3 DEF AtChunk, n, x
  <2> QED BY <2>1, <2>2, <2>3, <2>4, ChunkGoesOn DEF l, x, n
<1>9. CASE k # n - 1 /\ k # n - 2
  <2>1. /\ content_length' = n - 2 - k - 1 /\ UNCHANGED <<flags, status_code, upgrade>>
        /\ content_length' = 0 => Take("s_chunk_data_almost_done")
        /\ content_length' # 0 => Take("s_chunk_data")
    <3>1. ChunkData
      BY <1>6, <1>9, Which
    <3> QED BY <1>6, <1>9, <3>1 DEF ChunkData
  <2>2. k + 1 < n /\ k + 1 # n - 1 /\ content_length' = n - 2 - (k + 1)
        /\ (content_length' = 0 <=> k + 1 = n - 2)
    BY <1>1, <1>3, <1>9, <2>1
  <2>3. Taken /\ state' = IF k + 1 = n - 2 THEN "s_chunk_data_almost_done" ELSE "s_chunk_data"
    BY <1>4, <2>1, <2>2, TakesIt
  <2>4. AtChunk(l, k + 1)'
    BY <1>5, <2>2, <2>3 DEF AtChunk, n, x
  <2> QED BY <2>1, <2>2, <2>3, <2>4, ChunkGoesOn DEF l, x, n
<1> QED BY <1>7, <1>8, <1>9

-----------------------------------------------------------------------------
(* The switch in a correct response.                                       *)

LEMMA SwitchReads ==
  ASSUME NEW r \in Responses, ParserInv, Reading(r), Switch, outcome = "none"
  PROVE  Reading(r)' \/ Over(r)'
<1>1. PICK i \in 1 .. Len(r.lines) : \E k \in 0 .. Len(r.lines[i].text) :
        Place(r, i, k) /\ AtLine(r.lines[i], k) /\ Knows(r, i, k)
  BY DEF Reading
<1>2. PICK k \in 0 .. Len(r.lines[i].text) :
        Place(r, i, k) /\ AtLine(r.lines[i], k) /\ Knows(r, i, k)
  BY <1>1
<1>3. k \in Nat
  OBVIOUS
<1>4. ch # NoChar
  BY InSwitch
<1>5. Looking(r, i, k)
  BY <1>2, <1>4 DEF Looking, Reading
<1>6. /\ Kind(r, i) \in Kinds /\ r.lines[i].first \in Nat /\ r.lines[i].mark \in Nat
  BY LineFacts DEF Kind
<1>7. CASE Kind(r, i) = "status"
  BY <1>3, <1>5, <1>7, StatusSteps
<1>8. CASE Kind(r, i) \in {"length", "chunked"}
  <2>1. k \in {0, 1} \/ (1 < k /\ k <= r.lines[i].first) \/ k > r.lines[i].first
    BY <1>3, <1>6
  <2> QED BY <1>3, <1>5, <1>8, <2>1, FramingName, FramingSpace, FramingValue
<1>9. CASE Kind(r, i) = "other"
  <2>1. k < r.lines[i].mark \/ k >= r.lines[i].mark
    BY <1>3, <1>6
  <2> QED BY <1>3, <1>5, <1>9, <2>1, OtherName, OtherValue
<1>10. CASE Kind(r, i) = "end"
  BY <1>3, <1>5, <1>10, EndStarts, EndLeaves
<1>11. CASE Kind(r, i) = "data"
  BY <1>3, <1>5, <1>11, DataSteps
<1>12. CASE Kind(r, i) \in {"chunk", "last"}
  <2>1. k < r.lines[i].mark - 1 \/ k = r.lines[i].mark - 1 \/ k >= r.lines[i].mark
    BY <1>3, <1>6
  <2> QED BY <1>3, <1>5, <1>12, <2>1, SizeSteps, SizeEnds, ChunkDataSteps
<1> QED BY <1>6, <1>7, <1>8, <1>9, <1>10, <1>11, <1>12 DEF Kinds, Headers


-----------------------------------------------------------------------------
(* Between two steps of the switch.                                        *)

\* With no byte to look at, the parser is not at the end of the head or the body.
LEMMA AtRest ==
  ASSUME NEW r \in Responses, NEW i \in 1 .. Len(r.lines), NEW k \in Nat, k < Len(r.lines[i].text),
         AtLine(r.lines[i], k), ch = NoChar
  PROVE  /\ state # "s_headers_done" /\ state # "s_message_done"
         /\ Kind(r, i) \notin {"data", "chunk", "last"} => state \in HeadStates
         /\ Kind(r, i) = "data" => state \notin HeadStates
         /\ Kind(r, i) \in {"chunk", "last"} => (state \in HeadStates <=> k < r.lines[i].mark)
<1> DEFINE l == r.lines[i]
<1>1. /\ l.kind \in Kinds /\ l.kind = Kind(r, i) /\ l.mark \in Nat /\ l.first \in Nat /\ l.stop \in Nat
      /\ Len(l.text) \in Nat
  BY LineFacts DEF Kind
<1>2. AtLine(l, k)
  OBVIOUS
<1>3. l.kind \in {"length", "chunked"} => l.first >= 2
  BY FramingFacts DEF Kind
<1>4. l.kind \in {"chunk", "last"} => l.stop + 2 <= l.mark
  BY ChunkFacts DEF Kind
<1> HIDE DEF l
<1>5. CASE l.kind = "status"
  <2>1. AtStatus(l, k)
    BY <1>2, <1>5 DEF AtLine
  <2>2. k = 0 \/ k = 1 \/ k \in 2 .. 4 \/ k > 4
    OBVIOUS
  <2> QED BY <1>1, <1>5, <2>1, <2>2 DEF AtStatus, HeadStates
<1>6. CASE l.kind \in {"length", "chunked"}
  <2>1. AtFraming(l, k, IF l.kind = "length" THEN "h_content_length" ELSE "h_transfer_encoding_chunked")
    BY <1>2, <1>6 DEF AtLine, AtLength
  <2>2. k = 0 \/ k = 1 \/ (1 < k /\ k <= l.first) \/ k > l.first
    BY <1>1
  <2> QED BY <1>1, <1>6, <2>1, <2>2 DEF AtFraming, AtStart, LwsStates, HeadStates
<1>7. CASE l.kind = "other"
  <2>1. AtOther(l, k)
    BY <1>2, <1>7 DEF AtLine
  <2>2. k = 0 \/ (0 < k /\ k < l.mark) \/ k >= l.mark
    BY <1>1
  <2> QED BY <1>1, <1>7, <2>1, <2>2 DEF AtOther, AtStart, LwsStates, HeadStates
<1>8. CASE l.kind = "end"
  <2>1. AtEnd(l, k)
    BY <1>2, <1>8 DEF AtLine
  <2> QED BY <1>1, <1>8, <2>1 DEF AtEnd, AtStart, LwsStates, HeadStates
<1>9. CASE l.kind = "data"
  <2>1. AtData(l, k)
    BY <1>2, <1>9 DEF AtLine
  <2> QED BY <1>1, <1>9, <2>1 DEF AtData, HeadStates, ChunkSizeStates
<1>10. CASE l.kind \in {"chunk", "last"}
  <2>1. AtChunk(l, k)
    BY <1>2, <1>10 DEF AtLine
  <2>2. CASE k < l.mark
    <3>1. k = 0 \/ (0 < k /\ k <= l.stop) \/ (l.stop < k /\ k < l.mark)
      BY <1>1, <2>2
    <3>2. state \in ChunkSizeStates
      BY <2>1, <3>1 DEF AtChunk, ChunkSizeStates
    <3> QED BY <1>1, <1>10, <2>2, <3>2 DEF HeadStates, ChunkSizeStates, l
  <2>3. CASE l.mark <= k
    <3>1. state \in {"s_chunk_data_done", "s_chunk_data_almost_done", "s_chunk_data"}
      BY <2>1, <2>3 DEF AtChunk
    <3>2. ~(k < l.mark)
      BY <1>1, <2>3
    <3> QED BY <1>1, <1>10, <3>1, <3>2 DEF HeadStates, ChunkSizeStates, l
  <2> QED BY <1>1, <2>2, <2>3
<1> QED BY <1>1, <1>5, <1>6, <1>7, <1>8, <1>9, <1>10 DEF Kinds, Headers, l

LEMMA AtLineKeeps ==
  ASSUME NEW l, NEW k \in Nat, AtLine(l, k),
         UNCHANGED <<state, header_state, flags, content_length, status_code>>,
         ch # NoChar => ch' # NoChar,
         ch' = NoChar => outcome' = "bytes" \/ (ch = NoChar /\ outcome' = outcome),
         l.kind \in Kinds,
         l.kind \in {"chunk", "last"} => (k < l.mark /\ nread = k + Pending => nread' = k + Pending')
  PROVE  AtLine(l, k)'
<1>1. AtStatus(l, k) => AtStatus(l, k)'
  BY DEF AtStatus
<1>2. AtStart' = AtStart
  BY DEF AtStart
<1>3. \A kept : AtFraming(l, k, kept) => AtFraming(l, k, kept)'
  BY <1>2 DEF AtFraming
<1>4. AtLength(l, k) => AtLength(l, k)'
  BY <1>3 DEF AtLength
<1>5. AtOther(l, k) => AtOther(l, k)'
  BY <1>2 DEF AtOther
<1>6. AtEnd(l, k) => AtEnd(l, k)'
  BY <1>2 DEF AtEnd
<1>7. AtData(l, k) => AtData(l, k)'
  BY DEF AtData
<1>8. AtChunk(l, k) /\ (k < l.mark /\ nread = k + Pending => nread' = k + Pending') => AtChunk(l, k)'
  BY DEF AtChunk
<1>9. CASE l.kind \in {"status", "other", "end", "data"}
  BY <1>1, <1>5, <1>6, <1>7, <1>9 DEF AtLine
<1>10. CASE l.kind \in {"length", "chunked"}
  BY <1>3, <1>4, <1>10 DEF AtLine
<1>11. CASE l.kind \in {"chunk", "last"}
  BY <1>8, <1>11 DEF AtLine
<1> QED BY <1>9, <1>10, <1>11 DEF Kinds, Headers


-----------------------------------------------------------------------------
(* The steps of the connection in a correct response.                      *)

\* More is to come while a response is being read.
LEMMA MoreToCome ==
  ASSUME NEW r \in Responses, NEW i \in 1 .. Len(r.lines), NEW k \in Nat, ch = NoChar, Place(r, i, k),
         todo \in Seq(Char \cup {AnyChar})
  PROVE  /\ todo # <<>> /\ Len(todo) > 0
         /\ Len(todo) = Len(r.wire) - (r.lines[i].from + k)
         /\ \A j \in 1 .. Len(todo) : todo[j] = r.wire[r.lines[i].from + k + j]
         /\ Head(todo) = r.lines[i].text[k + 1]
<1> DEFINE l == r.lines[i]
           a == l.from
           b == Len(l.text)
           c == Len(r.wire)
           d == Len(todo)
<1>1. /\ a \in Nat /\ b \in Nat /\ c \in Nat /\ d \in Nat /\ a + b <= c
      /\ \A j \in 1 .. b : r.wire[a + j] = l.text[j]
  <2>1. d \in Nat
    OBVIOUS
  <2> QED BY <2>1, LineFacts
<1>2. /\ k < b /\ d = c - (a + k + 0)
      /\ \A j \in 1 .. d : todo[j] = r.wire[a + k + 0 + j]
  BY DEF Place, Pending
<1> HIDE DEF a, b, c, d, l
<1>3. d = c - (a + k) /\ d > 0 /\ a + k + 0 = a + k /\ a + k + 1 = a + (k + 1) /\ k + 1 \in 1 .. b /\ 1 \in 1 .. d
  BY <1>1, <1>2
<1>4. \A j \in 1 .. d : todo[j] = r.wire[a + k + j]
  BY <1>2, <1>3
<1>5. todo[1] = l.text[k + 1]
  BY <1>1, <1>3, <1>4
<1>6. todo # <<>>
  BY <1>3 DEF d
<1>7. Head(todo) = todo[1]
  BY <1>6
<1> QED BY <1>3, <1>4, <1>5, <1>6, <1>7 DEF a, c, d, l

LEMMA ReadingGoesOn ==
  ASSUME NEW r \in Responses, ParserInv, Reading(r), ch = NoChar
  PROVE  todo # <<>>
<1>1. PICK i \in 1 .. Len(r.lines) : \E k \in 0 .. Len(r.lines[i].text) : Place(r, i, k)
  BY DEF Reading
<1>2. PICK k \in 0 .. Len(r.lines[i].text) : Place(r, i, k)
  BY <1>1
<1>3. k \in Nat /\ todo \in Seq(Char \cup {AnyChar})
  BY DEF ParserInv, StateInv
<1> QED BY <1>2, <1>3, MoreToCome

\* A step that leaves the parser as it is.
LEMMA ReadingStays ==
  ASSUME NEW r \in Responses, Reading(r), UNCHANGED <<parser, ch, nparsed, counted, todo>>,
         outcome' = outcome \/ outcome' = "bytes"
  PROVE  Reading(r)'
<1>1. PICK i \in 1 .. Len(r.lines) : \E k \in 0 .. Len(r.lines[i].text) :
        Place(r, i, k) /\ AtLine(r.lines[i], k) /\ Knows(r, i, k)
  BY DEF Reading
<1>2. PICK k \in 0 .. Len(r.lines[i].text) :
        Place(r, i, k) /\ AtLine(r.lines[i], k) /\ Knows(r, i, k)
  BY <1>1
<1>3. Pending' = Pending /\ Seen' = Seen
  BY DEF Pending, Seen, Flag, parser
<1>4. Place(r, i, k)'
  BY <1>2, <1>3 DEF Place
<1>5. AtLine(r.lines[i], k)'
  <2>1. r.lines[i].kind \in Kinds
    BY LineFacts
  <2> QED BY <1>2, <1>3, <2>1, AtLineKeeps DEF parser
<1>6. Knows(r, i, k)'
  BY <1>2, <1>3 DEF Knows, KnowsHead, Before, parser
<1>7. /\ counted' = NoCode /\ http_errno' = "OK" /\ outcome' \in {"none", "bytes"}
  BY DEF Reading, parser
<1> QED BY <1>4, <1>5, <1>6, <1>7 DEF Reading

\* The next byte of the wire.
LEMMA ArriveReads ==
  ASSUME NEW r \in Responses, ParserInv, Reading(r), Arrive
  PROVE  Reading(r)'
<1>1. PICK i \in 1 .. Len(r.lines) : \E k \in 0 .. Len(r.lines[i].text) :
        Place(r, i, k) /\ AtLine(r.lines[i], k) /\ Knows(r, i, k)
  BY DEF Reading
<1>2. PICK k \in 0 .. Len(r.lines[i].text) :
        Place(r, i, k) /\ AtLine(r.lines[i], k) /\ Knows(r, i, k)
  BY <1>1
<1> DEFINE l == r.lines[i]
<1>3. ch = NoChar /\ k \in Nat /\ Pending = 0 /\ todo \in Seq(Char \cup {AnyChar})
      /\ k < Len(l.text) /\ nread \in Nat /\ nread <= MaxHeader
  BY <1>2 DEF Arrive, Listening, Pending, Place, Reading, ParserInv, TypeOK, StateInv
<1>4. /\ todo # <<>> /\ Len(todo) > 0
      /\ Len(todo) = Len(r.wire) - (l.from + k)
      /\ \A j \in 1 .. Len(todo) : todo[j] = r.wire[l.from + k + j]
      /\ Head(todo) = l.text[k + 1]
  BY <1>2, <1>3, MoreToCome
<1>5. /\ l.from \in Nat /\ l.kind \in Kinds /\ Len(l.text) \in Nat /\ Len(r.wire) \in Nat /\ l.mark \in Nat
      /\ l.from + Len(l.text) <= Len(r.wire)
  BY LineFacts
<1>6. PICK c \in Char : Byte(c) /\ (l.text[k + 1] # AnyChar => c = l.text[k + 1])
  <2>1. \E c \in IF Head(todo) = AnyChar THEN Noise ELSE {Head(todo)} : Byte(c)
    BY DEF Arrive
  <2>2. l.text[k + 1] \in Char \cup {AnyChar}
    <3>1. k + 1 \in 1 .. Len(l.text) /\ l.text \in Seq(Char \cup {AnyChar})
      BY <1>3, <1>5, LineFacts
    <3> QED BY <3>1
  <2> QED BY <1>4, <2>1, <2>2, ServerAssumption
<1>7. /\ nread' = nread + IF state \in HeadStates THEN 1 ELSE 0
      /\ UNCHANGED <<state, header_state, flags, content_length, status_code, upgrade>>
      /\ UNCHANGED <<nparsed, counted>> /\ todo' = Tail(todo) /\ outcome' = "none"
  BY <1>6 DEF Byte, Arrive
<1>8. Kind(r, i) = l.kind
  BY DEF Kind
<1>9. /\ i <= r.head \/ i > r.last => state \in HeadStates
      /\ Kind(r, i) = "data" => state \notin HeadStates
      /\ Kind(r, i) \in {"chunk", "last"} => (state \in HeadStates <=> k < l.mark)
      /\ state # "s_headers_done" /\ state # "s_message_done"
  <2>1. i <= r.head \/ i > r.last => Kind(r, i) \notin {"data", "chunk", "last"}
    <3>1. /\ Kind(r, i) = "data" => i > r.head /\ i = r.last
          /\ Kind(r, i) = "chunk" => i > r.head /\ i < r.last
          /\ Kind(r, i) = "last" => i > r.head /\ i = r.last
          /\ r.head \in 2 .. Len(r.lines) /\ r.last \in r.head .. Len(r.lines) /\ Len(r.lines) \in Nat
      BY Sequel, LineFacts
    <3> QED BY <3>1
  <2>2. /\ state # "s_headers_done" /\ state # "s_message_done"
        /\ Kind(r, i) \notin {"data", "chunk", "last"} => state \in HeadStates
        /\ Kind(r, i) = "data" => state \notin HeadStates
        /\ Kind(r, i) \in {"chunk", "last"} => (state \in HeadStates <=> k < l.mark)
    BY <1>2, <1>3, AtRest
  <2> QED BY <2>1, <2>2
<1>10. /\ i <= r.head => nread = l.from + k
       /\ i > r.last => nread = (l.from + k) - r.lines[r.last + 1].from
       /\ Kind(r, i) \in {"chunk", "last"} /\ k < l.mark => nread = k
  <2>1. l.from + k + 0 = l.from + k /\ k + 0 = k
    BY <1>3, <1>5
  <2>2. l.kind \in {"chunk", "last"} => AtChunk(l, k)
    BY <1>2 DEF AtLine
  <2> HIDE DEF l
  <2>3. Kind(r, i) \in {"chunk", "last"} /\ k < l.mark => nread = k
    BY <1>3, <1>8, <2>1, <2>2 DEF AtChunk
  <2> QED BY <1>2, <1>3, <2>1, <2>3 DEF Knows, KnowsHead, l
<1>11. nread' <= MaxHeader
  <2>1. CASE i <= r.head
    <3>1. l.from + Len(l.text) <= MaxHeader
      <4>1. i \in 1 .. r.head
        <5>1. i \in Nat /\ i >= 1 /\ r.head \in Nat
          BY Sequel, LineFacts
        <5> QED BY <2>1, <5>1
      <4> QED BY <4>1, ResponsesAssumption DEF IsResponse, HeadIsRight
    <3> HIDE DEF l
    <3> QED BY <1>3, <1>5, <1>7, <1>9, <1>10, <2>1, <3>1, SizeAssumption DEF l
  <2>2. CASE i > r.last
    <3> DEFINE base == r.lines[r.last + 1].from
    <3>1. base \in Nat /\ Len(r.wire) - base <= MaxHeader
      <4>1. r.last + 1 \in 1 .. Len(r.lines) /\ r.last # Len(r.lines)
        <5>1. r.head \in 2 .. Len(r.lines) /\ r.last \in r.head .. Len(r.lines) /\ Len(r.lines) \in Nat
          BY Sequel, LineFacts
        <5> QED BY <2>2, <5>1
      <4>2. BodyIsRight(r)
        BY ResponsesAssumption DEF IsResponse
      <4>3. Len(r.wire) - base <= MaxHeader
        <5>1. r.head \in 2 .. Len(r.lines) /\ r.last \in r.head .. Len(r.lines) /\ Len(r.lines) \in Nat
          BY Sequel, LineFacts
        <5>2. ~(r.last = Len(r.lines)) /\ ~(Len(r.lines) = r.head)
          BY <4>1, <5>1
        <5> QED BY <4>2, <5>2 DEF BodyIsRight
      <4> QED BY <4>1, <4>3, LineFacts
    <3> HIDE DEF base, l
    <3>2. nread = (l.from + k) - base
      BY <1>10, <2>2 DEF base
    <3>3. nread' = nread + 1 \/ nread' = nread
      BY <1>3, <1>7
    <3> DEFINE a == l.from
               b == Len(l.text)
               w == Len(r.wire)
    <3>4. a \in Nat /\ b \in Nat /\ w \in Nat /\ a + b <= w /\ k < b /\ w - base <= MaxHeader /\ nread = (a + k) - base
      BY <1>3, <1>5, <3>1, <3>2 DEF l
    <3> HIDE DEF a, b, w
    <3> QED BY <1>3, <3>1, <3>3, <3>4, SizeAssumption
  <2>3. CASE Kind(r, i) = "data"
    BY <1>3, <1>7, <1>9, <2>3
  <2>4. CASE Kind(r, i) \in {"chunk", "last"}
    <3>1. CASE k < l.mark
      <4>1. l.mark <= MaxHeader /\ nread = k /\ nread' = nread + 1
        BY <1>7, <1>9, <1>10, <2>4, <3>1, ChunkFacts
      <4> HIDE DEF l
      <4> QED BY <1>3, <1>5, <3>1, <4>1, SizeAssumption
    <3>2. CASE ~(k < l.mark)
      BY <1>3, <1>7, <1>9, <2>4, <3>2
    <3> QED BY <3>1, <3>2
  <2>5. i <= r.head \/ i > r.last \/ Kind(r, i) \in {"data", "chunk", "last"}
    <3>1. Kind(r, i) \in {"status", "end"} \cup Headers => i <= r.head \/ i > r.last
      <4>1. /\ i < r.head <=> Kind(r, i) = "status" \/ (Kind(r, i) \in Headers /\ ~(i > r.last))
            /\ Kind(r, i) = "end" <=> i = r.head \/ (i = Len(r.lines) /\ i > r.last)
            /\ i \in Nat /\ r.head \in Nat
        BY Sequel, LineFacts
      <4>2. i < r.head \/ i = r.head => i <= r.head
        BY <4>1
      <4> QED BY <4>1, <4>2
    <3> QED BY <1>5, <1>8, <3>1 DEF Kinds, Headers
  <2> QED BY <2>1, <2>2, <2>3, <2>4, <2>5
<1>12. ch' = c /\ http_errno' = "OK" /\ Pending' = 1
  <2>1. ch' = c /\ http_errno' = "OK"
    BY <1>3, <1>6, <1>7, <1>11, SizeAssumption DEF Byte, Arrive
  <2> QED BY <2>1, Letters DEF Pending
<1>13. Place(r, i, k)'
  <2>1. /\ Len(todo') = Len(todo) - 1
        /\ \A j \in 1 .. Len(todo') : todo'[j] = todo[j + 1]
    BY <1>3, <1>4, <1>7
  <2> DEFINE a == l.from
             w == Len(r.wire)
             d == Len(todo)
  <2>2. a \in Nat /\ w \in Nat /\ d \in Nat /\ d > 0 /\ d = w - (a + k)
    BY <1>3, <1>4, <1>5
  <2>3. \A j \in 1 .. Len(todo') : todo'[j] = r.wire[a + k + 1 + j]
    <3> TAKE j \in 1 .. Len(todo')
    <3> HIDE DEF a, w
    <3>1. j + 1 \in 1 .. Len(todo) /\ a + k + (j + 1) = a + k + 1 + j
      BY <1>3, <2>1, <2>2
    <3>2. todo[j + 1] = r.wire[a + k + (j + 1)]
      BY <1>4, <3>1 DEF a
    <3> QED BY <2>1, <3>1, <3>2
  <2> HIDE DEF a, w, d
  <2>4. d - 1 = w - (a + k + 1)
    BY <1>3, <2>2
  <2>5. Len(todo') = w - (a + k + Pending')
    BY <1>12, <2>1, <2>4 DEF d
  <2>6. \A j \in 1 .. Len(todo') : todo'[j] = r.wire[a + k + Pending' + j]
    BY <1>12, <2>3
  <2> QED BY <1>3, <1>6, <1>12, <2>5, <2>6 DEF Place, a, w
<1>14. AtLine(l, k)'
  <2>1. l.kind \in {"chunk", "last"} => (k < l.mark /\ nread = k + Pending => nread' = k + Pending')
    BY <1>3, <1>7, <1>8, <1>9, <1>12
  <2>2. ch' # NoChar
    BY <1>12, Letters
  <2> HIDE DEF l
  <2> QED BY <1>2, <1>3, <1>5, <1>7, <2>1, <2>2, AtLineKeeps DEF l
<1>15. Knows(r, i, k)'
  <2>1. Seen' = Seen
    BY <1>7 DEF Seen, Flag
  <2>2. i <= r.head => nread' = l.from + k + Pending'
    BY <1>3, <1>5, <1>7, <1>9, <1>10, <1>12
  <2>3. i > r.last => nread' = (l.from + k + Pending') - r.lines[r.last + 1].from
    <3> SUFFICES ASSUME i > r.last PROVE nread' = (l.from + k + Pending') - r.lines[r.last + 1].from
      OBVIOUS
    <3> DEFINE a == l.from
               base == r.lines[r.last + 1].from
    <3>1. r.last + 1 \in 1 .. Len(r.lines)
      <4>1. r.head \in 2 .. Len(r.lines) /\ r.last \in r.head .. Len(r.lines) /\ Len(r.lines) \in Nat
        BY Sequel, LineFacts
      <4> QED BY <4>1
    <3>2. a \in Nat /\ base \in Nat /\ nread = (a + k) - base /\ nread' = nread + 1
      BY <1>5, <1>7, <1>9, <1>10, <3>1, LineFacts
    <3> HIDE DEF a, base, l
    <3>3. nread' = (a + k + 1) - base
      BY <1>3, <3>2
    <3> QED BY <1>12, <3>3 DEF a, base
  <2>4. i <= r.head => KnowsHead(r, i, k)'
    BY <1>2, <1>7, <2>1, <2>2 DEF Knows, KnowsHead, Before
  <2> QED BY <1>2, <1>7, <2>3, <2>4 DEF Knows
<1>16. counted' = NoCode /\ outcome' \in {"none", "bytes"}
  BY <1>7 DEF Reading
<1> QED BY <1>12, <1>13, <1>14, <1>15, <1>16 DEF Reading


LEMMA CodeIs == ASSUME NEW r \in Responses PROVE r.code \in Nat /\ r.code # NoCode
<1>1. StatusLine(r.lines[1], r.code)
  BY ResponsesAssumption DEF IsResponse, HeadIsRight
<1> DEFINE x == r.lines[1].text
           a == Value[x[2]]
           b == Value[x[3]]
           c == Value[x[4]]
<1>2. \A j \in 2 .. 4 : x[j] \in Digit
  BY <1>1 DEF StatusLine
<1>3. x[2] \in Digit /\ x[3] \in Digit /\ x[4] \in Digit
  <2>1. 2 \in 2 .. 4 /\ 3 \in 2 .. 4 /\ 4 \in 2 .. 4
    OBVIOUS
  <2> HIDE DEF x
  <2> QED BY <1>2, <2>1
<1>4. a \in 0 .. 9 /\ b \in 0 .. 9 /\ c \in 0 .. 9 /\ r.code = 10 * (10 * a + b) + c
  <2>1. r.code = 10 * (10 * a + b) + c
    BY <1>1 DEF StatusLine
  <2> HIDE DEF x
  <2> QED BY <1>3, <2>1, Digits
<1> HIDE DEF a, b, c
<1> QED BY <1>4 DEF NoCode

\* A response that is begun, with no byte of it there.
LEMMA AnswerReads ==
  ASSUME Fresh, ParserInv, Answer
  PROVE  \E r \in Responses : Sent(r)' /\ Reading(r)'
<1>1. /\ state = "s_start_res" /\ header_state = "h_general" /\ flags = {} /\ nread = 0
      /\ http_errno = "OK" /\ upgrade = FALSE /\ nparsed = 0 /\ ch = NoChar
  BY DEF Fresh, Answer
<1>2. PICK r \in Responses : response' = [code |-> r.code, upgrade |-> r.upgrade] /\ todo' = r.wire
  BY DEF Answer
<1>3. /\ UNCHANGED <<state, header_state, flags, nread, http_errno, upgrade, nparsed, ch>>
      /\ outcome' = "bytes" /\ counted' = NoCode
  BY DEF Answer, parser
<1> DEFINE l == r.lines[1]
<1>4. r.head \in 2 .. Len(r.lines) /\ r.last \in r.head .. Len(r.lines) /\ Len(r.lines) \in Nat
      /\ 1 \in 1 .. Len(r.lines) /\ Kind(r, 1) = "status" /\ 1 <= r.head /\ ~(1 > r.last)
  <2>1. /\ Len(r.lines) \in Nat /\ r.head \in 2 .. Len(r.lines) /\ Kind(r, 1) = "status"
        /\ BodyIsRight(r)
    <3>1. r.lines \in Seq(Line) /\ IsResponse(r)
      BY ResponsesAssumption DEF IsResponse, InOrder
    <3> QED BY <3>1 DEF IsResponse, HeadIsRight
  <2>2. 1 \in 1 .. Len(r.lines)
    BY <2>1
  <2>3. r.last \in r.head .. Len(r.lines)
    BY <2>2, Sequel
  <2> QED BY <2>1, <2>2, <2>3
<1>5. l.from = 0 /\ Len(l.text) \in Nat /\ Len(l.text) > 0
  BY <1>4, LineFacts, NotEmpty
<1>6. Pending' = 0
  BY <1>1, <1>3 DEF Pending
<1>7. Place(r, 1, 0)'
  <2>1. Len(r.wire) \in Nat
    BY <1>4, LineFacts
  <2> HIDE DEF l
  <2>2. Len(todo') = Len(r.wire) - (0 + 0 + 0) /\ \A j \in 1 .. Len(todo') : todo'[j] = r.wire[0 + 0 + 0 + j]
    BY <1>2, <2>1
  <2> QED BY <1>1, <1>3, <1>5, <1>6, <2>2 DEF Place, l
<1>8. AtLine(l, 0)'
  <2>1. AtStatus(l, 0)'
    BY <1>1, <1>3 DEF AtStatus
  <2> QED BY <1>4, <2>1 DEF AtLine, Kind
<1>9. Knows(r, 1, 0)'
  <2>1. ~Before(r, 1, "chunked")
    BY DEF Before
  <2>2. Seen' = {}
    BY <1>1, <1>3 DEF Seen, LwsStates
  <2>3. nread' = l.from + 0 + Pending'
    BY <1>1, <1>3, <1>5, <1>6
  <2>4. KnowsHead(r, 1, 0)'
    BY <1>1, <1>3, <2>1, <2>2, <2>3 DEF KnowsHead, Before
  <2> QED BY <1>1, <1>3, <1>4, <2>4 DEF Knows
<1>10. 0 \in 0 .. Len(l.text)
  BY <1>5
<1>11. Reading(r)'
  BY <1>1, <1>3, <1>4, <1>7, <1>8, <1>9, <1>10 DEF Reading
<1> QED BY <1>2, <1>11 DEF Sent

\* A call of recieve_response in the middle of a response.
LEMMA ReceiveReads ==
  ASSUME NEW r \in Responses, ParserInv, Reading(r), Receive
  PROVE  Reading(r)' \/ CutOff(r)'
<1>1. PICK i \in 1 .. Len(r.lines) : \E k \in 0 .. Len(r.lines[i].text) :
        Place(r, i, k) /\ AtLine(r.lines[i], k) /\ Knows(r, i, k)
  BY DEF Reading
<1>2. PICK k \in 0 .. Len(r.lines[i].text) :
        Place(r, i, k) /\ AtLine(r.lines[i], k) /\ Knows(r, i, k)
  BY <1>1
<1>3. k \in Nat /\ ch = NoChar /\ outcome = "none" /\ todo \in Seq(Char \cup {AnyChar}) /\ k < Len(r.lines[i].text)
      /\ nparsed \in {0, 1} /\ upgrade \in BOOLEAN
  BY <1>2 DEF Receive, ParserInv, StateInv, TypeOK, Place
<1>4. nparsed # 0
  <2>1. CASE i > 1 \/ k > 0
    BY <1>2, <2>1 DEF Knows
  <2>2. CASE i = 1 /\ k = 0
    <3>1. Kind(r, i) = "status"
      BY <2>2, Sequel
    <3>2. AtStatus(r.lines[i], k)
      BY <1>2, <3>1 DEF AtLine, Kind
    <3> QED BY <1>3, <2>2, <3>2 DEF AtStatus
  <2>3. i >= 1 /\ i \in Nat
    BY LineFacts
  <2> QED BY <1>3, <2>1, <2>2, <2>3
<1>5. http_errno = "OK" /\ counted = NoCode
  BY DEF Reading
<1>6. CASE ~upgrade
  <2>1. Verdict = "bytes"
    BY <1>4, <1>5, <1>6 DEF Verdict
  <2>2. UNCHANGED <<parser, ch, nparsed, counted, todo>> /\ outcome' = "bytes"
    BY <2>1 DEF Receive, server
  <2> QED BY <2>2, ReadingStays
<1>7. CASE upgrade
  <2>1. Verdict = "RECV_ERROR"
    BY <1>7 DEF Verdict
  <2>2. outcome' = "RECV_ERROR" /\ counted' = NoCode /\ todo' = todo
    BY <1>5, <2>1 DEF Receive, server
  <2>3. todo # <<>>
    BY <1>2, <1>3, MoreToCome
  <2>4. ~Plain(r) /\ i > r.head
    <3>1. state # "s_headers_done"
      BY <1>2, <1>3, AtRest
    <3> QED BY <1>2, <1>7, <3>1 DEF Knows
  <2>5. Len(r.lines) # r.head
    <3>1. r.head \in 2 .. Len(r.lines) /\ Len(r.lines) \in Nat
      BY Sequel, LineFacts
    <3> QED BY <2>4, <3>1
  <2>6. r.upgrade
    BY <2>4, <2>5, ResponsesAssumption DEF IsResponse
  <2> QED BY <2>2, <2>3, <2>6 DEF CutOff
<1> QED BY <1>3, <1>6, <1>7

\* And behind its last byte.
LEMMA ReceiveEnds ==
  ASSUME NEW r \in Responses, Over(r), Receive
  PROVE  Over(r)'
<1>1. http_errno = "CB_message_complete" /\ nparsed = 1 /\ upgrade = FALSE /\ outcome = "none"
  BY DEF Over, Receive
<1>2. Verdict = "RECV_NEXT"
  BY <1>1 DEF Verdict
<1>3. /\ outcome' = "RECV_NEXT" /\ upgrade' = FALSE
      /\ UNCHANGED <<ch, counted, todo>>
  BY <1>2 DEF Receive, Reset, server
<1> QED BY <1>3 DEF Over

-----------------------------------------------------------------------------
(* The inductive invariant.                                                *)

LEMMA FrameInit == Init => FrameInv
BY DEF Init, FrameInv, Fresh, Followed

LEMMA FreshStep == ASSUME Fresh, [Next]_vars PROVE Fresh'
<1>1. CASE Switch
  <2>1. ch # NoChar
    BY <1>1, InSwitch
  <2>2. outcome = "none" /\ outcome' = outcome
    BY <1>1, <2>1 DEF Fresh, Switch
  <2> QED BY <2>2 DEF Fresh
<1>2. CASE Answer
  BY <1>2 DEF Answer, Fresh
<1>3. CASE Arrive \/ Stray \/ ArriveUnread
  BY <1>3 DEF Arrive, Stray, ArriveUnread, Fresh
<1>4. CASE Receive
  BY <1>4 DEF Receive, Verdict, Reset, Fresh
<1>5. CASE Close
  BY <1>5 DEF Close, Reset, Fresh
<1>6. CASE UNCHANGED vars
  BY <1>6 DEF vars, Fresh
<1> QED BY <1>1, <1>2, <1>3, <1>4, <1>5, <1>6 DEF Next

LEMMA FollowedStep ==
  ASSUME ParserInv, ParserInv', Fresh, Followed, [Next]_vars
  PROVE  Followed'
<1> SUFFICES ASSUME response' # NoResponse, stray' = 0
             PROVE  \E r \in Responses : Sent(r)' /\ (Reading(r)' \/ Over(r)' \/ CutOff(r)')
  BY DEF Followed
<1>1. CASE Answer
  BY <1>1, AnswerReads
<1>2. CASE Stray
  <2>1. stray' = stray + 1 /\ stray \in Nat
    BY <1>2, ServerAssumption DEF Stray, ParserInv, TypeOK
  <2> QED BY <2>1
<1>3. ASSUME response' = response, stray' = stray
      PROVE  \E r \in Responses : Sent(r) /\ Sent(r)' /\ (Reading(r) \/ Over(r) \/ CutOff(r))
  BY <1>3 DEF Followed, Sent
<1>4. CASE Switch
  <2>1. response' = response /\ stray' = stray /\ ch # NoChar
    BY <1>4, InSwitch DEF Switch, server
  <2>2. PICK r \in Responses : Sent(r)' /\ (Reading(r) \/ Over(r) \/ CutOff(r))
    BY <1>3, <2>1
  <2>3. outcome = "none"
    BY <2>1 DEF Fresh
  <2>4. Reading(r)
    BY <2>1, <2>2, <2>3 DEF Over, CutOff
  <2> QED BY <1>4, <2>2, <2>3, <2>4, SwitchReads
<1>5. CASE Arrive
  <2>1. response' = response /\ stray' = stray /\ outcome \in {"bytes", "none"} /\ todo # <<>>
    BY <1>5 DEF Arrive, Listening
  <2>2. PICK r \in Responses : Sent(r)' /\ (Reading(r) \/ Over(r) \/ CutOff(r))
    BY <1>3, <2>1
  <2>3. Reading(r)
    BY <2>1, <2>2 DEF Over, CutOff
  <2> QED BY <1>5, <2>2, <2>3, ArriveReads
<1>6. CASE ArriveUnread
  <2>1. response' = response /\ stray' = stray /\ outcome \in {"bytes", "none"} /\ todo # <<>> /\ http_errno # "OK"
    BY <1>6 DEF ArriveUnread, Listening
  <2>2. PICK r \in Responses : Sent(r)' /\ (Reading(r) \/ Over(r) \/ CutOff(r))
    BY <1>3, <2>1
  <2> QED BY <2>1, <2>2 DEF Reading, Over, CutOff
<1>7. CASE Receive
  <2>1. response' = response /\ stray' = stray /\ outcome = "none"
    BY <1>7 DEF Receive, server
  <2>2. PICK r \in Responses : Sent(r)' /\ (Reading(r) \/ Over(r) \/ CutOff(r))
    BY <1>3, <2>1
  <2>3. Reading(r) \/ Over(r)
    BY <2>1, <2>2 DEF CutOff
  <2> QED BY <1>7, <2>2, <2>3, ReceiveReads, ReceiveEnds
<1>8. CASE Close
  <2>1. response' = response /\ stray' = stray /\ outcome = "bytes" /\ ch = NoChar /\ todo = <<>>
    BY <1>8 DEF Close, server
  <2>2. PICK r \in Responses : Sent(r)' /\ (Reading(r) \/ Over(r) \/ CutOff(r))
    BY <1>3, <2>1
  <2>3. Reading(r)
    BY <2>1, <2>2 DEF Over, CutOff
  <2>4. todo # <<>>
    BY <2>1, <2>3, ReadingGoesOn
  <2> QED BY <2>1, <2>4
<1>9. CASE UNCHANGED vars
  <2>1. /\ UNCHANGED <<parser, ch, nparsed, counted, todo>> /\ outcome' = outcome
        /\ response' = response /\ stray' = stray /\ http_errno' = http_errno /\ upgrade' = upgrade
    BY <1>9 DEF vars, parser
  <2>2. PICK r \in Responses : Sent(r)' /\ (Reading(r) \/ Over(r) \/ CutOff(r))
    BY <1>3, <2>1
  <2>3. Over(r) => Over(r)'
    BY <2>1 DEF Over
  <2>4. CutOff(r) => CutOff(r)'
    BY <2>1 DEF CutOff
  <2>5. Reading(r) => Reading(r)'
    BY <2>1, ReadingStays
  <2> QED BY <2>2, <2>3, <2>4, <2>5
<1> QED BY <1>1, <1>2, <1>4, <1>5, <1>6, <1>7, <1>8, <1>9 DEF Next


\* The position of the parser in a correct response, wherever the bytes of it are
\* split over the calls of recieve_response, is where the response says.
THEOREM Position == Spec => []FrameInv
<1>1. Init => FrameInv
  BY FrameInit
<1>2. ParserInv /\ ParserInv' /\ FrameInv /\ [Next]_vars => FrameInv'
  BY FreshStep, FollowedStep DEF FrameInv
<1> QED BY <1>1, <1>2, Invariance, PTL DEF Spec

\* Each response of a correct server is over exactly at its last byte, is counted
\* then under its own status, and never ends in an error of the parser.
THEOREM Framed == Spec => []FramesAsSent
<1>1. ASSUME ParserInv, FrameInv PROVE FramesAsSent
  <2> SUFFICES ASSUME response # NoResponse, stray = 0, ch = NoChar
               PROVE  /\ http_errno \in {"OK", "CB_message_complete"}
                      /\ todo = <<>> <=> counted # NoCode
                      /\ counted \in {NoCode, response.code}
    BY DEF FramesAsSent
  <2>1. PICK r \in Responses : Sent(r) /\ (Reading(r) \/ Over(r) \/ CutOff(r))
    BY <1>1 DEF FrameInv, Followed
  <2>2. response.code = r.code
    BY <2>1 DEF Sent
  <2>3. CASE Reading(r)
    <3>1. http_errno = "OK" /\ counted = NoCode
      BY <2>3 DEF Reading
    <3> QED BY <1>1, <2>3, <3>1, ReadingGoesOn
  <2>4. CASE Over(r)
    <3>1. http_errno \in {"OK", "CB_message_complete"}
      BY <1>1, <2>4 DEF Over, FrameInv, Fresh
    <3> QED BY <2>2, <2>4, <3>1, CodeIs DEF Over
  <2>5. CASE CutOff(r)
    BY <1>1, <2>5 DEF CutOff, FrameInv, Fresh
  <2> QED BY <2>1, <2>3, <2>4, <2>5
<1> QED BY <1>1, Invariance, Position, PTL

\* What recieve_response reports of a response that asks for no upgrade is right
\* wherever the calls split it: more to come until its last byte, then the next.
THEOREM Reported == Spec => []ReportsAsSent
<1>1. ASSUME ParserInv, FrameInv PROVE ReportsAsSent
  <2> SUFFICES ASSUME response # NoResponse, stray = 0, ~response.upgrade
               PROVE  /\ outcome # "RECV_ERROR"
                      /\ outcome = "bytes" => todo # <<>>
                      /\ outcome = "RECV_NEXT" => todo = <<>>
    BY DEF ReportsAsSent
  <2>1. PICK r \in Responses : Sent(r) /\ (Reading(r) \/ Over(r) \/ CutOff(r))
    BY <1>1 DEF FrameInv, Followed
  <2>2. ~CutOff(r)
    BY <2>1 DEF Sent, CutOff
  <2>3. CASE Reading(r)
    <3>1. outcome \in {"none", "bytes"}
      BY <2>3 DEF Reading
    <3>2. outcome = "bytes" => ch = NoChar
      BY <1>1 DEF FrameInv, Fresh
    <3> QED BY <1>1, <2>3, <3>1, <3>2, ReadingGoesOn
  <2>4. CASE Over(r)
    BY <2>4 DEF Over
  <2> QED BY <2>1, <2>2, <2>3, <2>4
<1> QED BY <1>1, Invariance, Position, PTL
=============================================================================
