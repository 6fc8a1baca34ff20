--------------------------------- MODULE Url ---------------------------------
(***************************************************************************)
(* parse_url (url.c) and the http_parser_parse_url it calls                *)
(* (http_parser.c): the URL of the command line is given a scheme, scanned *)
(* character by character, its host part is scanned once more for user     *)
(* information and port, and the fields found are copied into the request. *)
(*                                                                         *)
(* A character stands for a class the scanner tells apart: "_" for _ and   *)
(* ~, "+" for the other marks of user information, "^" for what else may   *)
(* be in a path, "bad" for blanks, control characters and bytes over 127.  *)
(* "http" and "localhost" are one letter each; a digit of a host stands    *)
(* for a group of one to three.                                            *)
(***************************************************************************)
EXTENDS Integers, Sequences, SequencesExt

CONSTANTS HexLetter, Letter, Digit,  \* the classes of characters
          DigitValue,                \* and the values of the digits
          MaxPort,                   \* 0xffff
          UrlSize,                   \* of real_url, in characters
          FieldSize                  \* of the request's arrays for the fields

Alnum == Letter \cup Digit
Hex == HexLetter \cup Digit
HostChar == Alnum \cup {".", "-"}
ZoneChar == HostChar \cup {"%", "_"}
UserinfoChar == Alnum \cup {"-", ".", "_", "+", "%", ":"}
UrlChar == UserinfoChar \cup {"/", "@", "[", "]", "^"}
Char == UrlChar \cup {"?", "#", "bad"}

Field == {"schema", "host", "port", "path", "query", "fragment", "userinfo"}
NoField == "none"  \* UF_MAX

ASSUME CharAssumption ==
  /\ HexLetter \subseteq Letter /\ "http" \in Letter
  /\ Alnum \cap {"-", ".", "_", "+", "%", ":", "/", "@", "[", "]", "^", "?", "#", "bad"} = {}
  /\ Letter \cap Digit = {}
  /\ DigitValue \in [Digit -> 0 .. 9]
ASSUME UrlSizesAssumption ==
  /\ MaxPort \in Nat /\ MaxPort >= 80
  /\ UrlSize \in Nat \ {0}
  /\ FieldSize \in [Field -> Nat \ {0, 1}]

VARIABLES stage,      \* "none", "scan", "host", "parsed", "copied" or "invalid"
          given,      \* the URL of the command line, and the parts it was written from
          real_url,   \* with its scheme, cut to fit
          p,          \* characters of it scanned
          s,          \* state of the scanner
          old_uf,     \* the field the last character belonged to
          found_at,   \* the host part has an @
          limit,      \* where the host part ends
          field_set, off, len,  \* struct http_parser_url
          text, port  \* what the request has of the URL

scanner == <<p, s, old_uf, found_at, limit, field_set, off, len>>
urlVars == <<stage, given, real_url, scanner, text, port>>

-----------------------------------------------------------------------------
(* parse_url_char and http_parse_host_char: the next state, by rows of the *)
(* state and the character.                                                *)

Server == {"s_req_server_start", "s_req_server", "s_req_server_with_at"}
Query == {"s_req_query_string_start", "s_req_query_string"}
Fragment == {"s_req_fragment_start", "s_req_fragment"}

\* A real_url begins with a letter: a first "/" or "*" does not come up.
parse_url_char(state, ch) ==
  CASE state \in {"s_req_spaces_before_url", "s_req_schema"} /\ ch \in Letter -> "s_req_schema"
    [] state = "s_req_schema" /\ ch = ":" -> "s_req_schema_slash"
    [] state = "s_req_schema_slash" /\ ch = "/" -> "s_req_schema_slash_slash"
    [] state = "s_req_schema_slash_slash" /\ ch = "/" -> "s_req_server_start"
    [] state \in Server /\ ch = "/" -> "s_req_path"
    [] state \in Server /\ ch \in UserinfoChar \cup {"[", "]"} -> "s_req_server"
    [] state \in Server \ {"s_req_server_with_at"} /\ ch = "@" -> "s_req_server_with_at"
    [] state \in Server \cup {"s_req_path"} /\ ch = "?" -> "s_req_query_string_start"
    [] state = "s_req_path" /\ ch \in UrlChar -> "s_req_path"
    [] state \in Query /\ ch \in UrlChar \cup {"?"} -> "s_req_query_string"
    [] state \in Query \cup {"s_req_path"} /\ ch = "#" -> "s_req_fragment_start"
    [] state \in Fragment /\ ch \in UrlChar \cup {"?"} -> "s_req_fragment"
    [] state \in Fragment /\ ch = "#" -> state
    [] OTHER -> "s_dead"

http_parse_host_char(state, ch) ==
  CASE state \in {"s_http_userinfo_start", "s_http_userinfo"} /\ ch = "@" -> "s_http_host_start"
    [] state \in {"s_http_userinfo_start", "s_http_userinfo"} /\ ch \in UserinfoChar ->
         "s_http_userinfo"
    [] state = "s_http_host_start" /\ ch = "[" -> "s_http_host_v6_start"
    [] state \in {"s_http_host_start", "s_http_host"} /\ ch \in HostChar -> "s_http_host"
    [] state \in {"s_http_host", "s_http_host_v6_end"} /\ ch = ":" -> "s_http_host_port_start"
    [] state \in {"s_http_host_v6", "s_http_host_v6_zone"} /\ ch = "]" -> "s_http_host_v6_end"
    [] state \in {"s_http_host_v6_start", "s_http_host_v6"} /\ ch \in Hex \cup {":", "."} ->
         "s_http_host_v6"
    [] state = "s_http_host_v6" /\ ch = "%" -> "s_http_host_v6_zone_start"
    [] state \in {"s_http_host_v6_zone_start", "s_http_host_v6_zone"}
         /\ ch \in ZoneChar -> "s_http_host_v6_zone"
    [] state \in {"s_http_host_port_start", "s_http_host_port"} /\ ch \in Digit ->
         "s_http_host_port"
    [] OTHER -> "s_http_host_dead"

\* The field a character that led to a state belongs to.
ScanField(state) ==
  CASE state = "s_req_schema" -> "schema"
    [] state \in {"s_req_server", "s_req_server_with_at"} -> "host"
    [] state = "s_req_path" -> "path"
    [] state = "s_req_query_string" -> "query"
    [] state = "s_req_fragment" -> "fragment"
    [] OTHER -> NoField
HostStates == {"s_http_host", "s_http_host_v6", "s_http_host_v6_zone_start", "s_http_host_v6_zone"}
HostField(state) ==
  CASE state \in HostStates -> "host"
    [] state = "s_http_host_port" -> "port"
    [] state = "s_http_userinfo" -> "userinfo"
    [] OTHER -> NoField

-----------------------------------------------------------------------------
UrlInit ==
  /\ stage = "none"
  /\ given = [url |-> <<>>, written |-> {}] /\ real_url = <<>>
  /\ p = 0 /\ s = "s_req_spaces_before_url" /\ old_uf = NoField /\ found_at = FALSE /\ limit = 0
  /\ field_set = {} /\ off = [f \in Field |-> 0] /\ len = [f \in Field |-> 0]
  /\ text = [f \in Field |-> <<>>] /\ port = 80

\* snprintf cuts what it writes to an array of so many characters.
Cut(chars, size) == SubSeq(chars, 1, IF Len(chars) < size THEN Len(chars) ELSE size - 1)

\* REGEX_URL_SCHEME
HasScheme(url) ==
  \E k \in 2 .. Len(url) - 2 :
    /\ url[1] \in Letter
    /\ \A i \in 2 .. k - 1 : url[i] \in HostChar
    /\ SubSeq(url, k, k + 2) = <<":", "/", "/">>

WithScheme(url) == IF HasScheme(url) THEN url ELSE <<"http", ":", "/", "/">> \o url

(* parse_url begins: the URL gets a scheme.                                *)
GiveUrl(u) ==
  /\ stage = "none"
  /\ given' = u
  /\ real_url' = Cut(WithScheme(u.url), UrlSize)
  /\ stage' = "scan"
  /\ UNCHANGED <<scanner, text, port>>

Reject == stage' = "invalid" /\ UNCHANGED <<given, real_url, scanner, text, port>>

\* One more character of a field, which begins here if starts.
Extend(f, starts) ==
  /\ field_set' = field_set \cup {f}
  /\ off' = IF starts THEN [off EXCEPT ![f] = p] ELSE off
  /\ len' = [len EXCEPT ![f] = @ + 1]

(* The loop of http_parser_parse_url.                                      *)
ScanChar ==
  /\ stage = "scan" /\ p < Len(real_url)
  /\ LET next == parse_url_char(s, real_url[p + 1])
         uf == ScanField(next)
     IN  \/ next = "s_dead" /\ Reject
         \/ /\ next # "s_dead"
            /\ s' = next /\ p' = p + 1
            /\ \/ uf = NoField /\ UNCHANGED <<old_uf, found_at, field_set, off, len>>
               \/ /\ uf # NoField
                  /\ Extend(uf, uf # old_uf)
                  /\ old_uf' = uf
                  /\ found_at' = (found_at \/ next = "s_req_server_with_at")
            /\ UNCHANGED <<stage, given, real_url, limit, text, port>>

\* Mutant: the host part is scanned from the start of the URL's user.
ScanEnd_keeps ==
  /\ stage = "scan" /\ p = Len(real_url)
  /\ \/ "host" \notin field_set /\ Reject
     \/ /\ "host" \in field_set
        /\ stage' = "host"
        /\ p' = off["host"] /\ limit' = off["host"] + len["host"]
        /\ s' = IF found_at THEN "s_http_userinfo_start" ELSE "s_http_host_start"
        /\ UNCHANGED <<given, real_url, old_uf, found_at, field_set, off, len, text, port>>

(* The end of the URL: it must have a host, which is scanned next.  There  *)
(* is always a scheme.                                                     *)
ScanEnd ==
  /\ stage = "scan" /\ p = Len(real_url)
  /\ \/ "host" \notin field_set /\ Reject
     \/ /\ "host" \in field_set
        /\ stage' = "host"
        /\ p' = off["host"] /\ limit' = off["host"] + len["host"]
        /\ len' = [len EXCEPT !["host"] = 0]
        /\ s' = IF found_at THEN "s_http_userinfo_start" ELSE "s_http_host_start"
        /\ UNCHANGED <<given, real_url, old_uf, found_at, field_set, off, text, port>>

(* The loop of http_parse_host.                                            *)
HostScan ==
  /\ stage = "host" /\ p < limit
  /\ LET next == http_parse_host_char(s, real_url[p + 1])
         uf == HostField(next)
         zone == next \in {"s_http_host_v6_zone_start", "s_http_host_v6_zone"}
     IN  \/ next = "s_http_host_dead" /\ Reject
         \/ /\ next # "s_http_host_dead"
            /\ s' = next /\ p' = p + 1
            /\ \/ uf = NoField /\ UNCHANGED <<field_set, off, len>>
               \/ uf # NoField /\ Extend(uf, next # s /\ ~zone)
            /\ UNCHANGED <<stage, given, real_url, old_uf, found_at, limit, text, port>>

\* The characters of a field, and the number digits stand for.
Text(f) == IF f \in field_set THEN SubSeq(real_url, off[f] + 1, off[f] + len[f]) ELSE <<>>
Number(digits) == FoldLeft(LAMBDA n, d : 10 * n + DigitValue[d], 0, digits)

\* Mutants: the host may end anywhere; the greatest port is taken for one too many.
HostEnd_anywhere ==
  /\ stage = "host" /\ p = limit
  /\ \/ Number(Text("port")) > MaxPort /\ Reject
     \/ /\ Number(Text("port")) <= MaxPort
        /\ stage' = "parsed" /\ UNCHANGED <<given, real_url, scanner, text, port>>
HostEnd_below ==
  /\ stage = "host" /\ p = limit
  /\ LET fits == s \in {"s_http_host", "s_http_host_v6_end", "s_http_host_port"}
                 /\ Number(Text("port")) < MaxPort
     IN  \/ ~fits /\ Reject
         \/ fits /\ stage' = "parsed" /\ UNCHANGED <<given, real_url, scanner, text, port>>

(* The host part must not end somewhere unexpected, and the port be one.   *)
HostEnd ==
  /\ stage = "host" /\ p = limit
  /\ LET fits == s \in {"s_http_host", "s_http_host_v6_end", "s_http_host_port"}
                 /\ Number(Text("port")) <= MaxPort
     IN  \/ ~fits /\ Reject
         \/ fits /\ stage' = "parsed" /\ UNCHANGED <<given, real_url, scanner, text, port>>

\* Mutant: the port of the URL is for a request that has none.
CopyFields_port ==
  /\ stage = "parsed"
  /\ stage' = "copied"
  /\ text' = [f \in Field |-> IF f \in field_set THEN Cut(Text(f), FieldSize[f]) ELSE text[f]]
  /\ port' = IF "port" \in field_set /\ port = 80 THEN Number(Text("port")) ELSE port
  /\ UNCHANGED <<given, real_url, scanner>>

(* parse_url copies the fields into the request.                           *)
CopyFields ==
  /\ stage = "parsed"
  /\ stage' = "copied"
  /\ text' = [f \in Field |-> IF f \in field_set THEN Cut(Text(f), FieldSize[f]) ELSE text[f]]
  /\ port' = IF "port" \in field_set THEN Number(Cut(Text("port"), FieldSize["port"])) ELSE port
  /\ UNCHANGED <<given, real_url, scanner>>

UrlNext == ScanChar \/ ScanEnd \/ HostScan \/ HostEnd \/ CopyFields

-----------------------------------------------------------------------------
(* What a user writes: parts and the URL they make.  An absent part is     *)
(* <<>>; the path has its first "/".  Every part is of the characters that  *)
(* may be in it, so that it is plain where it ends.                         *)

IsName(host) == host # <<>> /\ host \in Seq(HostChar)

\* An IPv6 address of z characters, and a zone if there is more.
IsV6(host, z) ==
  /\ z \in 1 .. Len(host) /\ \A i \in 1 .. z : host[i] \in Hex \cup {":", "."}
  /\ ":" \in ToSet(host)
  /\ z < Len(host) =>
       /\ host[z + 1] = "%" /\ z + 1 < Len(host)
       /\ \A i \in z + 2 .. Len(host) : host[i] \in ZoneChar

WellFormed(w) ==
  /\ w["schema"] \in Seq(Letter) /\ w["userinfo"] \in Seq(UserinfoChar)
  /\ IsName(w["host"]) \/ \E z \in 1 .. Len(w["host"]) : IsV6(w["host"], z)
  /\ w["port"] \in Seq(Digit)
  /\ w["path"] \in Seq(UrlChar)
  /\ w["path"] # <<>> => w["path"][1] = "/"
  /\ {w["query"], w["fragment"]} \subseteq Seq(UrlChar \cup {"?"})

Parts == { w \in [Field -> Seq(Char)] : WellFormed(w) }
Bracketed(host, v6) == IF v6 THEN <<"[">> \o host \o <<"]">> ELSE host
After(mark, part) == IF part = <<>> THEN <<>> ELSE mark \o part
Before(part, mark) == IF part = <<>> THEN <<>> ELSE part \o mark

Whole(w) ==
  Before(w["schema"], <<":", "/", "/">>) \o Before(w["userinfo"], <<"@">>)
    \o Bracketed(w["host"], ":" \in ToSet(w["host"])) \o After(<<":">>, w["port"])
    \o w["path"] \o After(<<"?">>, w["query"]) \o After(<<"#">>, w["fragment"])

\* A URL of any characters, and the parts it was written from, if it was.
IsUrl(u) ==
  /\ u.url \in Seq(Char)
  /\ u.written \subseteq Parts /\ \A w \in u.written : u.url = Whole(w)

-----------------------------------------------------------------------------
(* parse_url has arrays of fixed size: neither the URL with its scheme nor  *)
(* a part of it may be longer.  The port must be one, and the scanner knows *)
(* no fragment right after the host.                                        *)
Fits(w) ==
  /\ Len(WithScheme(Whole(w))) < UrlSize
  /\ \A f \in Field : Len(w[f]) < FieldSize[f]
  /\ Number(w["port"]) <= MaxPort
  /\ w["fragment"] # <<>> => w["path"] # <<>> \/ w["query"] # <<>>

(* A URL written from parts that fit is accepted, and the request gets      *)
(* exactly these parts: the two scans and the copies of parse_url agree on  *)
(* where each begins and ends, with or without scheme, user information,    *)
(* brackets, port, path, query and fragment.                                *)
FieldsAsWritten ==
  \A w \in given.written :
    Fits(w) =>
      /\ stage # "invalid"
      /\ stage = "copied" =>
           /\ \A f \in Field \ {"schema"} : text[f] = w[f]
           /\ text["schema"] = IF w["schema"] = <<>> THEN <<"http">> ELSE w["schema"]
           /\ w["port"] # <<>> => port = Number(w["port"])

(* Of any URL that is accepted the fields are the whole: with the marks     *)
(* between them they spell it, so no character is lost, read into two       *)
(* fields, or let through between them (http_parser_parse_url and           *)
(* http_parse_host).                                                        *)
SpelledAsRead ==
  stage \in {"parsed", "copied"} =>
    \E at \in {<<>>, <<"@">>}, v6 \in BOOLEAN, ask \in {<<>>, <<"?">>}, hashes \in 0 .. Len(real_url) :
      /\ Text("userinfo") # <<>> => at # <<>>
      /\ Text("query") # <<>> => ask # <<>>
      /\ Text("fragment") # <<>> => hashes > 0
      /\ real_url = Text("schema") \o <<":", "/", "/">> \o Text("userinfo") \o at
                      \o Bracketed(Text("host"), v6) \o After(<<":">>, Text("port"))
                      \o Text("path") \o ask \o Text("query")
                      \o [i \in 1 .. hashes |-> "#"] \o Text("fragment")

(* A field lies inside what has been scanned of real_url, so that the       *)
(* copies of parse_url read no byte that is not of the URL.                 *)
FieldsInside ==
  /\ p <= Len(real_url)
  /\ \A f \in field_set :
       len[f] > 0 => off[f] + len[f] <= IF stage = "scan" THEN p ELSE Len(real_url)
=============================================================================
