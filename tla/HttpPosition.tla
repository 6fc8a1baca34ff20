----------------------------- MODULE HttpPosition -----------------------------
(***************************************************************************)
(* Where the parser is in a correct response: k characters into its line   *)
(* i.  FrameInv says what the state of the parser is at each place; it is  *)
(* what makes the framing of a response, and the verdict on it, inductive. *)
(***************************************************************************)
EXTENDS HttpParser

Pending == IF ch = NoChar THEN 0 ELSE 1

LwsStates == {"s_header_value_lws", "s_header_value_discard_lws"}
AtStart == state \in LwsStates \cup {"s_header_field_start"}

\* The flags once the last header is known to end.
Seen == flags \cup IF state \in LwsStates THEN Flag ELSE {}

AtStatus(l, k) ==
  /\ k = 0 => /\ state = "s_start_res" /\ header_state = "h_general" /\ flags = {}
              /\ ch = NoChar => outcome = "bytes"
  /\ k = 1 => state = "s_res_first_status_code"
  /\ k = 2 => status_code = Value[l.text[2]]
  /\ k = 3 => status_code = 10 * Value[l.text[2]] + Value[l.text[3]]
  /\ k \in 2 .. 4 => state = "s_res_status_code"
  /\ k > 4 => \/ state = "s_res_status"
              \/ state = "s_res_line_almost_done" /\ k = Len(l.text) - 1

\* In a header that frames the body, whose value leaves the header state kept.
AtFraming(l, k, kept) ==
  /\ k = 0 => AtStart
  /\ k = 1 => state = "s_header_field"
  /\ 1 < k /\ k <= l.first => \/ state = "s_header_value_discard_ws"
                              \/ state = "s_header_value_start" /\ k = l.first
  /\ 0 < k /\ k <= l.first => header_state = FieldState(l.text[1])
  /\ k > l.first => /\ header_state = kept
                    /\ \/ state = "s_header_value"
                       \/ state = "s_header_almost_done" /\ k = Len(l.text) - 1

AtLength(l, k) ==
  /\ AtFraming(l, k, "h_content_length")
  /\ k > l.first => content_length = l.number[IF k < l.stop THEN k ELSE l.stop]

AtOther(l, k) ==
  /\ k = 0 => AtStart
  /\ 0 < k /\ k < l.mark => /\ state = "s_header_field"
                            /\ header_state = IF k = 1 THEN FieldState(l.text[1]) ELSE "h_general"
  /\ k >= l.mark =>
       /\ header_state \notin {"h_content_length", "h_transfer_encoding",
                               "h_transfer_encoding_chunked"}
       /\ \/ state \in {"s_header_value", "s_header_value_discard_ws"}
          \/ state = "s_header_value_start" /\ l.text[k + 1] \notin {"CR", "LF"}
          \/ state \in LwsStates /\ l.text[k] = "LF"
          \/ /\ state \in {"s_header_almost_done", "s_header_value_discard_ws_almost_done"}
             /\ l.text[k + 1] = "LF"

AtEnd(l, k) ==
  /\ \/ k = 0 /\ AtStart
     \/ k = Len(l.text) - 1 /\ state \in {"s_headers_almost_done", "s_headers_done", "s_message_done"}
  /\ state = "s_headers_done" => ch # NoChar /\ "TRAILING" \notin flags
  /\ state = "s_message_done" => ch # NoChar /\ "TRAILING" \in flags

AtData(l, k) ==
  \/ state = "s_body_identity" /\ content_length = Len(l.text) - k
  \/ state = "s_message_done" /\ k = Len(l.text) - 1 /\ ch # NoChar

AtChunk(l, k) ==
  /\ k < l.mark => nread = k + Pending
  /\ k = 0 => state = "s_chunk_size_start"
  /\ 0 < k /\ k <= l.stop => state = "s_chunk_size" /\ content_length = l.number[k]
  /\ l.stop < k /\ k < l.mark =>
       /\ content_length = Size(l)
       /\ state = IF k = l.mark - 1 THEN "s_chunk_size_almost_done" ELSE "s_chunk_parameters"
  /\ l.mark <= k =>
       CASE k = Len(l.text) - 1 -> state = "s_chunk_data_done"
         [] k = Len(l.text) - 2 -> state = "s_chunk_data_almost_done"
         [] OTHER -> state = "s_chunk_data" /\ content_length = Len(l.text) - 2 - k

AtLine(l, k) ==
  CASE l.kind = "status" -> AtStatus(l, k)
    [] l.kind = "length" -> AtLength(l, k)
    [] l.kind = "chunked" -> AtFraming(l, k, "h_transfer_encoding_chunked")
    [] l.kind = "other" -> AtOther(l, k)
    [] l.kind = "end" -> AtEnd(l, k)
    [] l.kind = "data" -> AtData(l, k)
    [] OTHER -> AtChunk(l, k)

\* A line of a kind before line i of the head.
Before(r, i, kind) == \E j \in 2 .. i - 1 : Kind(r, j) = kind

\* What the head has said so far.
KnowsHead(r, i, k) ==
  /\ nread = r.lines[i].from + k + Pending
  /\ "CHUNKED" \in Seen <=> Before(r, i, "chunked")
  /\ Plain(r) => "UPGRADE" \notin flags /\ header_state # "h_upgrade"
  /\ (i > 1 \/ k > 0) /\ ~(Kind(r, i) = "length" /\ k > r.lines[i].first) =>
       content_length = IF Before(r, i, "length") THEN r.length ELSE NoLength

Knows(r, i, k) ==
  /\ i > 1 \/ k > 0 => nparsed = 1
  /\ i > 1 \/ k > 3 => status_code = r.code
  /\ "TRAILING" \in flags <=> i > r.last
  /\ upgrade => ~Plain(r) /\ (i > r.head \/ state = "s_headers_done")
  /\ i <= r.head => KnowsHead(r, i, k)
  /\ i > r.last => nread = (r.lines[i].from + k + Pending) - r.lines[r.last + 1].from

\* What has come of the wire, and what is to come.
Place(r, i, k) ==
  LET l == r.lines[i]
      come == l.from + k + Pending
  IN  /\ k < Len(l.text)
      /\ Len(todo) = Len(r.wire) - come
      /\ \A j \in 1 .. Len(todo) : todo[j] = r.wire[come + j]
      /\ ch # NoChar /\ l.text[k + 1] # AnyChar => ch = l.text[k + 1]

Reading(r) ==
  /\ counted = NoCode /\ http_errno = "OK" /\ outcome \in {"none", "bytes"}
  /\ \E i \in 1 .. Len(r.lines) : \E k \in 0 .. Len(r.lines[i].text) :
       Place(r, i, k) /\ AtLine(r.lines[i], k) /\ Knows(r, i, k)

Over(r) ==
  /\ ch = NoChar /\ todo = <<>> /\ counted = r.code /\ upgrade = FALSE
  /\ \/ http_errno = "CB_message_complete" /\ nparsed = 1 /\ outcome = "none"
     \/ outcome = "RECV_NEXT"

\* A call ended in the body of a response that asks for an upgrade.
CutOff(r) == r.upgrade /\ outcome = "RECV_ERROR" /\ counted = NoCode /\ todo # <<>>

\* A request starts with a fresh parser.
Fresh ==
  /\ outcome # "none" => ch = NoChar
  /\ outcome \in {"RECV_NEXT", "RECV_ERROR", "closed"} =>
       /\ state = "s_start_res" /\ header_state = "h_general" /\ flags = {} /\ nread = 0
       /\ http_errno = "OK" /\ upgrade = FALSE /\ nparsed = 0

Sent(r) == response = [code |-> r.code, upgrade |-> r.upgrade]

Followed ==
  response # NoResponse /\ stray = 0 =>
    \E r \in Responses : Sent(r) /\ (Reading(r) \/ Over(r) \/ CutOff(r))

\* Until a damaged character arrives, the parser is where the bytes received have
\* brought it in the response sent: its state, flags, lengths and counts are those
\* of that place, or the response is over, or cut off in the body of an upgrade.
FrameInv == Fresh /\ Followed
===============================================================================
