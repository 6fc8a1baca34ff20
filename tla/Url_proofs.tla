------------------------------- MODULE Url_proofs -------------------------------
(***************************************************************************)
(* What the steps of parse_url preserve, for every alphabet, every URL and *)
(* every size of the arrays: the fields lie inside the URL (UrlInv), they  *)
(* follow each other with the marks between them (Spans), and they are the *)
(* parts of a URL that was written from parts (ReadInv).                   *)
(***************************************************************************)
EXTENDS Url, FoldTheorems, TLAPS

-----------------------------------------------------------------------------
(* The fields lie inside the URL.  UrlInv says which fields each state of   *)
(* the scanners may have seen, so that one that begins is still empty.      *)

ScanStates == Server \cup Query \cup Fragment \cup
  {"s_req_spaces_before_url", "s_req_schema", "s_req_schema_slash", "s_req_schema_slash_slash",
   "s_req_path"}

\* The fields found when the scanner is in a state.
Seen(state) ==
  CASE state = "s_req_spaces_before_url" -> {}
    [] state \in {"s_req_server", "s_req_server_with_at"} -> {"schema", "host"}
    [] state \in {"s_req_path", "s_req_query_string_start"} -> {"schema", "host", "path"}
    [] state \in {"s_req_query_string", "s_req_fragment_start"} -> {"schema", "host", "path", "query"}
    [] state = "s_req_fragment" -> {"schema", "host", "path", "query", "fragment"}
    [] OTHER -> {"schema"}

BeforeHost == {"s_http_userinfo_start", "s_http_userinfo", "s_http_host_start", "s_http_host_v6_start"}
AllHostStates == BeforeHost \cup HostStates \cup
  {"s_http_host_v6_end", "s_http_host_port_start", "s_http_host_port"}

End(f) == off[f] + len[f]

ScanInv ==
  /\ s \in ScanStates
  /\ field_set \subseteq Seen(s)
  /\ ScanField(s) # NoField => old_uf = ScanField(s)
  /\ \A f \in Field \ field_set : len[f] = 0
  /\ \A f \in Field : End(f) <= p

HostInv ==
  /\ s \in AllHostStates
  /\ limit \in 0 .. Len(real_url)
  /\ s \in BeforeHost => len["host"] = 0
  /\ s # "s_http_host_port" => len["port"] = 0
  /\ s = "s_http_userinfo_start" => len["userinfo"] = 0
  /\ HostField(s) \in Field => End(HostField(s)) <= p
  /\ \A f \in Field : End(f) <= Len(real_url)

UrlInv ==
  /\ Len(real_url) \in Nat
  /\ p \in 0 .. Len(real_url)
  /\ off \in [Field -> Nat] /\ len \in [Field -> Nat]
  /\ field_set \subseteq Field
  /\ stage = "none" => /\ p = 0 /\ s = "s_req_spaces_before_url" /\ field_set = {}
                       /\ off = [f \in Field |-> 0] /\ len = [f \in Field |-> 0]
  /\ stage = "scan" => ScanInv
  /\ stage = "host" => HostInv
  /\ stage \notin {"none", "scan", "host"} => \A f \in Field : End(f) <= Len(real_url)

-----------------------------------------------------------------------------
\* Where the scanner may go from a state.
Successors(state) ==
  CASE state = "s_req_spaces_before_url" -> {"s_req_schema"}
    [] state = "s_req_schema" -> {"s_req_schema", "s_req_schema_slash"}
    [] state = "s_req_schema_slash" -> {"s_req_schema_slash_slash"}
    [] state = "s_req_schema_slash_slash" -> {"s_req_server_start"}
    [] state \in Server ->
         {"s_req_path", "s_req_server", "s_req_server_with_at", "s_req_query_string_start"}
    [] state = "s_req_path" -> {"s_req_path", "s_req_query_string_start", "s_req_fragment_start"}
    [] state \in Query -> {"s_req_query_string", "s_req_fragment_start"}
    [] state = "s_req_fragment_start" -> Fragment
    [] OTHER -> {"s_req_fragment"}

LEMMA ScanSuccessors ==
  ASSUME NEW state \in ScanStates, NEW ch, parse_url_char(state, ch) # "s_dead"
  PROVE  parse_url_char(state, ch) \in Successors(state)
  <1> USE DEF Server, Query, Fragment
  <1>1. CASE state \in {"s_req_spaces_before_url", "s_req_schema", "s_req_schema_slash", "s_req_schema_slash_slash"}
    BY <1>1 DEF parse_url_char, Successors
  <1>2. CASE state \in Server
    BY <1>2 DEF parse_url_char, Successors
  <1>3. CASE state = "s_req_path"
    BY <1>3 DEF parse_url_char, Successors
  <1>4. CASE state \in Query
    BY <1>4 DEF parse_url_char, Successors
  <1>5. CASE state \in Fragment
    BY <1>5 DEF parse_url_char, Successors
  <1> QED BY <1>1, <1>2, <1>3, <1>4, <1>5 DEF ScanStates

\* What one character does to the state of the scanner and what it has seen.
LEMMA ScanStep ==
  ASSUME NEW state \in ScanStates, NEW next \in Successors(state)
  PROVE  /\ next \in ScanStates
         /\ Seen(state) \subseteq Seen(next)
         /\ ScanField(next) # NoField =>
              /\ ScanField(next) \in Field
              /\ ScanField(next) \in Seen(next)
              /\ ScanField(next) \notin Seen(state) \/ ScanField(next) = ScanField(state)
  <1> USE DEF Successors, Server, Query, Fragment, Seen, ScanField, Field, NoField
  <1>1. next \in ScanStates
    BY DEF ScanStates
  <1>2. Seen(state) \subseteq Seen(next)
    <2>1. CASE state \in {"s_req_spaces_before_url", "s_req_schema", "s_req_schema_slash", "s_req_schema_slash_slash"}
      BY <2>1
    <2>2. CASE state \in Server
      BY <2>2
    <2>3. CASE state = "s_req_path" \/ state \in Query
      BY <2>3
    <2>4. CASE state \in Fragment
      BY <2>4
    <2> QED BY <2>1, <2>2, <2>3, <2>4 DEF ScanStates
  <1>3. ScanField(next) # NoField => ScanField(next) \in Field
    BY <1>1 DEF ScanStates
  <1>5. ScanField(next) # NoField => ScanField(next) \in Seen(next)
    BY <1>1 DEF ScanStates
  <1>4. ScanField(next) # NoField =>
          ScanField(next) \notin Seen(state) \/ ScanField(next) = ScanField(state)
    BY DEF ScanStates
  <1> QED BY <1>1, <1>2, <1>3, <1>4, <1>5

\* The same for the scanner of the host part.
HostSuccessors(state) ==
  CASE state = "s_http_userinfo_start" -> {"s_http_host_start", "s_http_userinfo"}
    [] state = "s_http_userinfo" -> {"s_http_host_start", "s_http_userinfo"}
    [] state = "s_http_host_start" -> {"s_http_host_v6_start", "s_http_host"}
    [] state = "s_http_host" -> {"s_http_host", "s_http_host_port_start"}
    [] state = "s_http_host_v6_start" -> {"s_http_host_v6"}
    [] state = "s_http_host_v6" ->
         {"s_http_host_v6", "s_http_host_v6_end", "s_http_host_v6_zone_start"}
    [] state = "s_http_host_v6_zone_start" -> {"s_http_host_v6_zone"}
    [] state = "s_http_host_v6_zone" -> {"s_http_host_v6_zone", "s_http_host_v6_end"}
    [] state = "s_http_host_v6_end" -> {"s_http_host_port_start"}
    [] OTHER -> {"s_http_host_port"}

LEMMA HostScanSuccessors ==
  ASSUME NEW state \in AllHostStates, NEW ch, http_parse_host_char(state, ch) # "s_http_host_dead"
  PROVE  http_parse_host_char(state, ch) \in HostSuccessors(state)
  <1>1. CASE state \in {"s_http_userinfo_start", "s_http_userinfo"}
    BY <1>1 DEF http_parse_host_char, HostSuccessors
  <1>2. CASE state \in {"s_http_host_start", "s_http_host"}
    BY <1>2 DEF http_parse_host_char, HostSuccessors
  <1>3. CASE state \in {"s_http_host_v6_start", "s_http_host_v6"}
    BY <1>3 DEF http_parse_host_char, HostSuccessors
  <1>4. CASE state \in {"s_http_host_v6_zone_start", "s_http_host_v6_zone", "s_http_host_v6_end"}
    BY <1>4 DEF http_parse_host_char, HostSuccessors
  <1>5. CASE state \in {"s_http_host_port_start", "s_http_host_port"}
    BY <1>5 DEF http_parse_host_char, HostSuccessors
  <1> QED BY <1>1, <1>2, <1>3, <1>4, <1>5 DEF AllHostStates, BeforeHost, HostStates

\* A field begins only out of a state in which it is still empty.
LEMMA HostStep ==
  ASSUME NEW state \in AllHostStates, NEW next \in HostSuccessors(state)
  PROVE  /\ next \in AllHostStates
         /\ next \in BeforeHost => state \in BeforeHost
         /\ next # "s_http_userinfo_start"
         /\ next = "s_http_userinfo" => state \in {"s_http_userinfo_start", "s_http_userinfo"}
         /\ state = "s_http_host_port" => next = state
         /\ next \in HostStates => state \in HostStates \cup BeforeHost
         /\ next \in {"s_http_host", "s_http_host_v6"} /\ next # state => state \in BeforeHost
         /\ next \in {"s_http_host_v6_zone_start", "s_http_host_v6_zone"} => state \in HostStates
  BY DEF HostSuccessors, AllHostStates, BeforeHost, HostStates

LEMMA HostFieldIs ==
  ASSUME NEW state \in AllHostStates
  PROVE  /\ HostField(state) \in {"host", "port", "userinfo", NoField}
         /\ HostField(state) = "host" <=> state \in HostStates
         /\ HostField(state) = "port" <=> state = "s_http_host_port"
         /\ HostField(state) = "userinfo" <=> state = "s_http_userinfo"
         /\ HostField(state) \in Field <=> HostField(state) # NoField
  BY DEF HostField, HostStates, AllHostStates, BeforeHost, NoField, Field

\* A URL with its scheme, cut to fit, is a sequence.
LEMMA CutIsSeq ==
  ASSUME NEW chars \in Seq(Char), NEW size \in Nat \ {0}
  PROVE  Cut(chars, size) \in Seq(Char)
  <1>1. CASE Len(chars) < size
    BY <1>1 DEF Cut
  <1>2. CASE ~(Len(chars) < size)
    BY <1>2 DEF Cut
  <1> QED BY <1>1, <1>2

LEMMA UrlIsSeq ==
  ASSUME NEW u, u.url \in Seq(Char)
  PROVE  Cut(WithScheme(u.url), UrlSize) \in Seq(Char)
  <1>1. "http" \in Char /\ ":" \in Char /\ "/" \in Char
    BY CharAssumption DEF Char, UrlChar, UserinfoChar, Alnum
  <1>2. <<"http", ":", "/", "/">> \in Seq(Char)
    BY <1>1
  <1>3. WithScheme(u.url) \in Seq(Char)
    BY <1>2 DEF WithScheme
  <1> QED BY <1>3, UrlSizesAssumption, CutIsSeq

-----------------------------------------------------------------------------
LEMMA InitHolds == UrlInit => UrlInv
  BY DEF UrlInit, UrlInv, Field, ScanStates

\* What Extend leaves of the ranges, and of the ends of the fields.
LEMMA ExtendEnds ==
  ASSUME NEW f \in Field, NEW starts \in BOOLEAN, Extend(f, starts),
         off \in [Field -> Nat], len \in [Field -> Nat], p \in Nat,
         starts => len[f] = 0, ~starts => End(f) <= p
  PROVE  /\ off' \in [Field -> Nat] /\ len' \in [Field -> Nat]
         /\ off'[f] + len'[f] <= p + 1
         /\ \A g \in Field \ {f} : off'[g] = off[g] /\ len'[g] = len[g]
         /\ field_set' = field_set \cup {f}
  <1>1. CASE starts
    BY <1>1 DEF Extend
  <1>2. CASE ~starts
    BY <1>2 DEF Extend, End
  <1> QED BY <1>1, <1>2

LEMMA GiveUrlKeeps == ASSUME UrlInv, NEW u, u.url \in Seq(Char), GiveUrl(u) PROVE UrlInv'
  <1>1. Len(real_url') \in Nat
    BY UrlIsSeq DEF GiveUrl
  <1>2. /\ p = 0 /\ s = "s_req_spaces_before_url" /\ field_set = {}
        /\ off = [f \in Field |-> 0] /\ len = [f \in Field |-> 0]
        /\ off \in [Field -> Nat] /\ len \in [Field -> Nat]
    BY DEF UrlInv, GiveUrl
  <1>3. UNCHANGED <<p, s, old_uf, found_at, limit, field_set, off, len>> /\ stage' = "scan"
    BY DEF GiveUrl, scanner
  <1>4. ScanInv'
    BY <1>2, <1>3 DEF ScanInv, ScanStates, ScanField, NoField, End
  <1> QED BY <1>1, <1>2, <1>3, <1>4 DEF UrlInv

\* Whatever the stage, no field ends after the URL.
LEMMA EndsInside == ASSUME UrlInv PROVE \A f \in Field : End(f) <= Len(real_url)
  <1> SUFFICES ASSUME NEW f \in Field PROVE End(f) <= Len(real_url)
    OBVIOUS
  <1>1. off[f] \in Nat /\ len[f] \in Nat /\ p \in Nat /\ Len(real_url) \in Nat /\ p <= Len(real_url)
    BY DEF UrlInv
  <1>2. CASE stage = "none"
    BY <1>1, <1>2 DEF UrlInv, End
  <1>3. CASE stage = "scan"
    <2>1. End(f) <= p
      BY <1>3 DEF UrlInv, ScanInv
    <2> QED BY <2>1, <1>1 DEF End
  <1>4. CASE stage = "host"
    BY <1>4 DEF UrlInv, HostInv
  <1>5. CASE stage \notin {"none", "scan", "host"}
    BY <1>5 DEF UrlInv
  <1> QED BY <1>2, <1>3, <1>4, <1>5

\* An action that leaves the scanner for good.
LEMMA LeavingKeeps ==
  ASSUME UrlInv, UNCHANGED <<real_url, p, field_set, off, len>>, stage' \notin {"none", "scan", "host"}
  PROVE  UrlInv'
  <1>1. \A f \in Field : End(f)' <= Len(real_url)'
    BY EndsInside DEF End
  <1> QED BY <1>1 DEF UrlInv

LEMMA ScanCharKeeps == ASSUME UrlInv, ScanChar PROVE UrlInv'
  <1> DEFINE next == parse_url_char(s, real_url[p + 1])
             uf == ScanField(next)
  <1>1. CASE Reject
    BY <1>1, LeavingKeeps DEF Reject, scanner
  <1>2. CASE /\ next # "s_dead" /\ s' = next /\ p' = p + 1
             /\ \/ uf = NoField /\ UNCHANGED <<old_uf, found_at, field_set, off, len>>
                \/ uf # NoField /\ Extend(uf, uf # old_uf) /\ old_uf' = uf
             /\ UNCHANGED <<stage, real_url>>
    <2>1. /\ stage = "scan" /\ ScanInv /\ p \in Nat /\ p < Len(real_url) /\ Len(real_url) \in Nat
          /\ off \in [Field -> Nat] /\ len \in [Field -> Nat] /\ field_set \subseteq Field
      BY DEF ScanChar, UrlInv
    <2>2. s \in ScanStates /\ next \in Successors(s)
      BY <1>2, <2>1, ScanSuccessors DEF ScanInv
    <2>3. /\ next \in ScanStates /\ Seen(s) \subseteq Seen(next)
          /\ uf # NoField => /\ uf \in Field /\ uf \in Seen(next)
                             /\ uf \notin Seen(s) \/ uf = ScanField(s)
      BY <2>2, ScanStep
    <2>4. p' \in 0 .. Len(real_url)' /\ p' = p + 1 /\ s' = next /\ stage' = "scan"
          /\ Len(real_url)' \in Nat
      BY <1>2, <2>1
    <2>5. CASE uf = NoField /\ UNCHANGED <<old_uf, found_at, field_set, off, len>>
      <3>1. \A f \in Field : End(f)' <= p'
        BY <2>1, <2>4, <2>5 DEF ScanInv, End
      <3>2. ScanInv'
        BY <2>1, <2>3, <2>4, <2>5, <3>1 DEF ScanInv
      <3> QED BY <2>1, <2>4, <2>5, <3>2 DEF UrlInv
    <2>6. CASE uf # NoField /\ Extend(uf, uf # old_uf) /\ old_uf' = uf
      <3>1. uf # old_uf => len[uf] = 0
        BY <2>1, <2>3, <2>6 DEF ScanInv
      <3>2. End(uf) <= p
        BY <2>1, <2>3, <2>6 DEF ScanInv
      <3> HIDE DEF uf, next
      <3>3. /\ off' \in [Field -> Nat] /\ len' \in [Field -> Nat]
            /\ off'[uf] + len'[uf] <= p + 1
            /\ \A g \in Field \ {uf} : off'[g] = off[g] /\ len'[g] = len[g]
            /\ field_set' = field_set \cup {uf}
        BY <2>1, <2>3, <2>6, <3>1, <3>2, ExtendEnds
      <3>4. \A f \in Field : End(f)' <= p'
        <4> SUFFICES ASSUME NEW f \in Field PROVE off'[f] + len'[f] <= p + 1
          BY <2>4 DEF End
        <4>1. CASE f = uf
          BY <4>1, <3>3
        <4>2. CASE f # uf
          <5>1. End(f) <= p /\ off[f] \in Nat /\ len[f] \in Nat
            BY <2>1 DEF ScanInv
          <5> QED BY <4>2, <5>1, <3>3, <2>1 DEF End
        <4> QED BY <4>1, <4>2
      <3>5. field_set' \subseteq Seen(next) /\ field_set' \subseteq Field
        BY <2>1, <2>3, <2>6, <3>3 DEF ScanInv
      <3>6. \A f \in Field \ field_set' : len'[f] = 0
        BY <2>1, <3>3 DEF ScanInv
      <3>7. ScanField(s') = uf
        BY <2>4 DEF uf
      <3>8. ScanInv'
        BY <2>3, <2>4, <2>6, <3>4, <3>5, <3>6, <3>7 DEF ScanInv
      <3> QED BY <2>4, <3>3, <3>5, <3>8 DEF UrlInv
    <2> QED BY <1>2, <2>5, <2>6
  <1> QED BY <1>1, <1>2 DEF ScanChar

LEMMA ScanEndKeeps == ASSUME UrlInv, ScanEnd PROVE UrlInv'
  <1>1. CASE Reject
    BY <1>1, LeavingKeeps DEF Reject, scanner
  <1>2. CASE /\ "host" \in field_set /\ stage' = "host"
             /\ p' = off["host"] /\ limit' = off["host"] + len["host"]
             /\ len' = [len EXCEPT !["host"] = 0]
             /\ s' \in {"s_http_userinfo_start", "s_http_host_start"}
             /\ UNCHANGED <<real_url, field_set, off>>
    <2>1. /\ stage = "scan" /\ ScanInv /\ p \in Nat /\ p <= Len(real_url) /\ Len(real_url) \in Nat
          /\ off \in [Field -> Nat] /\ len \in [Field -> Nat] /\ field_set \subseteq Field
      BY DEF ScanEnd, UrlInv
    <2>2. "host" \in Field /\ "port" \in Field /\ "userinfo" \in Field
      BY DEF Field
    <2>3. "port" \notin Seen(s) /\ "userinfo" \notin Seen(s)
      BY <2>1 DEF Seen
    <2>4. len["port"] = 0 /\ len["userinfo"] = 0
      BY <2>1, <2>2, <2>3 DEF ScanInv
    <2>5. len' \in [Field -> Nat] /\ len'["host"] = 0 /\ len'["port"] = 0 /\ len'["userinfo"] = 0
      BY <1>2, <2>1, <2>2, <2>4
    <2>6. End("host") <= Len(real_url)
      BY <2>2, EndsInside
    <2>7. \A f \in Field : End(f)' <= Len(real_url)'
      BY <1>2, <2>1, <2>2, EndsInside DEF End
    <2>8. p' \in 0 .. Len(real_url)' /\ limit' \in 0 .. Len(real_url)'
      BY <1>2, <2>1, <2>2, <2>6 DEF End
    <2>9. s' \in AllHostStates /\ s' # "s_http_host_port" /\ HostField(s') \notin Field
      BY <1>2 DEF AllHostStates, BeforeHost, HostField, HostStates, NoField, Field
    <2>10. HostInv'
      BY <2>5, <2>7, <2>8, <2>9 DEF HostInv
    <2> QED BY <1>2, <2>1, <2>5, <2>8, <2>10 DEF UrlInv
  <1> QED BY <1>1, <1>2 DEF ScanEnd

LEMMA HostScanKeeps == ASSUME UrlInv, HostScan PROVE UrlInv'
  <1> DEFINE next == http_parse_host_char(s, real_url[p + 1])
             uf == HostField(next)
             zone == next \in {"s_http_host_v6_zone_start", "s_http_host_v6_zone"}
  <1>1. CASE Reject
    BY <1>1, LeavingKeeps DEF Reject, scanner
  <1>2. CASE /\ next # "s_http_host_dead" /\ s' = next /\ p' = p + 1
             /\ \/ uf = NoField /\ UNCHANGED <<field_set, off, len>>
                \/ uf # NoField /\ Extend(uf, next # s /\ ~zone)
             /\ UNCHANGED <<stage, real_url, limit>>
    <2>1. /\ stage = "host" /\ HostInv /\ p \in Nat /\ p < limit /\ Len(real_url) \in Nat
          /\ limit \in 0 .. Len(real_url)
          /\ off \in [Field -> Nat] /\ len \in [Field -> Nat] /\ field_set \subseteq Field
      BY DEF HostScan, UrlInv, HostInv
    <2>2. s \in AllHostStates /\ next \in HostSuccessors(s)
      BY <1>2, <2>1, HostScanSuccessors DEF HostInv
    <2>3. /\ next \in AllHostStates
          /\ next \in BeforeHost => s \in BeforeHost
          /\ next # "s_http_userinfo_start"
          /\ next = "s_http_userinfo" => s \in {"s_http_userinfo_start", "s_http_userinfo"}
          /\ s = "s_http_host_port" => next = s
          /\ next \in HostStates => s \in HostStates \cup BeforeHost
          /\ next \in {"s_http_host", "s_http_host_v6"} /\ next # s => s \in BeforeHost
          /\ zone => s \in HostStates
      BY <2>2, HostStep
    <2>4. p' \in 0 .. Len(real_url)' /\ p' = p + 1 /\ s' = next /\ stage' = "host"
          /\ Len(real_url)' \in Nat /\ limit' \in 0 .. Len(real_url)' /\ p + 1 <= Len(real_url)
          /\ Len(real_url)' = Len(real_url)
      BY <1>2, <2>1
    <2>5. \A f \in Field : End(f) <= Len(real_url)
      BY <2>1 DEF HostInv
    <2> HIDE DEF next
    <2>6. CASE uf = NoField /\ UNCHANGED <<field_set, off, len>>
      <3>1. next # "s_http_host_port" /\ HostField(s') \notin Field
        <4>1. HostField(s') = uf
          BY <2>4
        <4> QED BY <4>1, <2>3, <2>6, HostFieldIs DEF NoField
      <3>2. HostInv'
        BY <2>1, <2>3, <2>4, <2>5, <2>6, <3>1 DEF HostInv, End
      <3> QED BY <2>1, <2>4, <2>6, <3>2 DEF UrlInv
    <2>7. CASE uf # NoField /\ Extend(uf, next # s /\ ~zone)
      <3>1. /\ uf \in {"host", "port", "userinfo"} /\ uf \in Field
            /\ uf = "host" <=> next \in HostStates
            /\ uf = "port" <=> next = "s_http_host_port"
            /\ uf = "userinfo" <=> next = "s_http_userinfo"
        BY <2>3, <2>7, HostFieldIs
      <3>2. next # s /\ ~zone => len[uf] = 0
        BY <2>1, <2>3, <3>1 DEF HostInv, HostStates
      <3>3. ~(next # s /\ ~zone) => HostField(s) = uf
        BY <2>1, <2>2, <2>3, <3>1, HostFieldIs DEF HostStates
      <3>4. ~(next # s /\ ~zone) => End(uf) <= p
        BY <2>1, <3>1, <3>3 DEF HostInv
      <3> HIDE DEF uf, zone
      <3>5. /\ off' \in [Field -> Nat] /\ len' \in [Field -> Nat]
            /\ off'[uf] + len'[uf] <= p + 1
            /\ \A g \in Field \ {uf} : off'[g] = off[g] /\ len'[g] = len[g]
            /\ field_set' = field_set \cup {uf}
        BY <2>1, <2>7, <3>1, <3>2, <3>4, ExtendEnds
      <3>6. \A f \in Field : End(f)' <= Len(real_url)'
        <4> SUFFICES ASSUME NEW f \in Field PROVE off'[f] + len'[f] <= Len(real_url)'
          BY DEF End
        <4>1. CASE f = uf
          <5>1. p + 1 <= Len(real_url) /\ Len(real_url)' = Len(real_url)
            BY <2>4
          <5> QED BY <2>1, <2>4, <3>5, <4>1, <5>1
        <4>2. CASE f # uf
          <5>1. off'[f] = off[f] /\ len'[f] = len[f]
            BY <3>5, <4>2
          <5>2. off[f] + len[f] <= Len(real_url)
            BY <2>5 DEF End
          <5> QED BY <2>4, <5>1, <5>2
        <4> QED BY <4>1, <4>2
      <3>7. HostField(s') \in Field => off'[HostField(s')] + len'[HostField(s')] <= p'
        <4>1. HostField(s') = uf
          BY <2>4 DEF uf
        <4> QED BY <4>1, <2>4, <3>5
      <3>8. "host" \in Field /\ "port" \in Field /\ "userinfo" \in Field
        BY DEF Field
      <3>9. /\ s' \in BeforeHost => len'["host"] = 0
            /\ s' # "s_http_host_port" => len'["port"] = 0
        BY <2>1, <2>3, <2>4, <3>1, <3>5, <3>8 DEF HostInv, BeforeHost, HostStates
      <3>10. HostInv'
        <4>1. s' \in AllHostStates /\ s' # "s_http_userinfo_start" /\ limit' \in 0 .. Len(real_url)'
          BY <2>3, <2>4
        <4> QED BY <4>1, <3>6, <3>7, <3>9 DEF HostInv, End
      <3> QED BY <2>1, <2>4, <3>1, <3>5, <3>10 DEF UrlInv
    <2> QED BY <1>2, <2>6, <2>7
  <1> QED BY <1>1, <1>2 DEF HostScan

LEMMA HostEndKeeps == ASSUME UrlInv, HostEnd PROVE UrlInv'
  <1>1. UNCHANGED <<real_url, p, field_set, off, len>> /\ stage' \in {"invalid", "parsed"}
    BY DEF HostEnd, Reject, scanner
  <1> QED BY <1>1, LeavingKeeps

LEMMA CopyFieldsKeeps == ASSUME UrlInv, CopyFields PROVE UrlInv'
  <1>1. UNCHANGED <<real_url, p, field_set, off, len>> /\ stage' = "copied"
    BY DEF CopyFields, scanner
  <1> QED BY <1>1, LeavingKeeps

LEMMA InsideFollows == UrlInv => FieldsInside
  <1> SUFFICES ASSUME UrlInv PROVE FieldsInside
    OBVIOUS
  <1>1. p <= Len(real_url) /\ field_set \subseteq Field
    BY DEF UrlInv
  <1>2. stage = "scan" => \A f \in Field : End(f) <= p
    BY DEF UrlInv, ScanInv
  <1> QED BY <1>1, <1>2, EndsInside DEF FieldsInside, End

LEMMA UntouchedUrl ==
  ASSUME UrlInv, UNCHANGED <<stage, real_url, scanner>> PROVE UrlInv'
  BY DEF scanner, UrlInv, ScanInv, HostInv, End

-----------------------------------------------------------------------------
(* The number that digits stand for.                                       *)

LEMMA DigitsAreNumbers ==
  ASSUME NEW d \in Seq(Digit), NEW i \in 1 .. Len(d)
  PROVE  DigitValue[d[i]] \in Nat
<1>1. DigitValue \in [Digit -> 0 .. 9]
  BY CharAssumption
<1>2. d[i] \in Digit
  OBVIOUS
<1>3. DigitValue[d[i]] \in 0 .. 9
  BY <1>1, <1>2
<1> QED BY <1>3

\* Reading a digit more, the last one last.
Reads(F, d, S) ==
  /\ F \in [SUBSET S -> Nat] /\ F[{}] = 0
  /\ \A r \in SUBSET S : r # {} => F[r] = 10 * F[r \ {Max(r)}] + DigitValue[d[Max(r)]]

LEMMA NumberReads ==
  ASSUME NEW d \in Seq(Digit)
  PROVE  \E F : Reads(F, d, 1 .. Len(d)) /\ Number(d) = F[1 .. Len(d)]
<1> DEFINE n == Len(d)
           D == 1 .. n
           pick == [r \in SUBSET D |-> Max(r)]
           V == Nat
           base == 0
           step == [xv \in D \X V |-> 10 * xv[2] + DigitValue[d[xv[1]]]]
           Recursion(it) == it = [r \in SUBSET D |-> IF r = {} THEN 0
                                                     ELSE 10 * it[r \ {Max(r)}] + DigitValue[d[Max(r)]]]
<1>1. n \in Nat /\ IsFiniteSet(D) /\ DOMAIN d = D
  BY FS_Interval
<1>2. \A r \in SUBSET D : pick[r] = Max(r) /\ (r # {} => Max(r) \in r)
  BY <1>1, MaxIs
<1>3. \A x \in D : DigitValue[d[x]] \in Nat
  BY DigitsAreNumbers
<1>4. \A x \in D, v \in V : step[<<x, v>>] = 10 * v + DigitValue[d[x]] /\ step[<<x, v>>] \in V
  BY <1>3
<1>5. base \in V /\ Picks(pick, D)
  BY <1>2 DEF Picks
<1>6. \E F \in [SUBSET D -> V] : IsFold(F, D, base, pick, step)
  <2> HIDE DEF n, D, pick, V, base, step
  <2>1. \A r \in SUBSET D : r # {} => pick[r] \in r
    BY <1>5 DEF Picks
  <2> QED BY <1>1, <1>4, <1>5, <2>1, FoldExists
<1>7. PICK F \in [SUBSET D -> V] : IsFold(F, D, base, pick, step)
  BY <1>6
<1>8. Reads(F, d, D)
  <2>1. F \in [SUBSET D -> Nat]
    OBVIOUS
  <2>2. F[{}] = 0
    BY <1>7 DEF IsFold
  <2>3. ASSUME NEW r \in SUBSET D, r # {}
        PROVE  F[r] = 10 * F[r \ {Max(r)}] + DigitValue[d[Max(r)]]
    <3>1. pick[r] = Max(r) /\ Max(r) \in D /\ F[r \ {Max(r)}] \in V
      BY <1>2, <2>1, <2>3
    <3>2. F[r] = step[<<pick[r], F[r \ {pick[r]}]>>]
      BY <1>7, <2>3 DEF IsFold
    <3> HIDE DEF pick, step, V
    <3> QED BY <1>4, <3>1, <3>2
  <2> QED BY <2>1, <2>2, <2>3 DEF Reads
<1>9. Number(d) = (CHOOSE it : Recursion(it))[D]
  BY <1>1 DEF Number, FoldLeft, MapThenFoldSet
<1>10. Recursion(F)
  BY <1>2, <1>8 DEF Reads
<1>11. ASSUME NEW it, Recursion(it) PROVE it = F
  <2>1. IsFunctionOn(it, SUBSET D) /\ IsFunctionOn(F, SUBSET D)
    BY <1>11 DEF IsFunctionOn
  <2>2. it[{}] = F[{}]
    BY <1>8, <1>11 DEF Reads
  <2>3. ASSUME NEW r \in SUBSET D, r # {}, it[r \ {pick[r]}] = F[r \ {pick[r]}]
        PROVE  it[r] = F[r]
    <3>1. it[r] = 10 * it[r \ {Max(r)}] + DigitValue[d[Max(r)]]
      BY <1>11, <2>3
    <3>2. F[r] = 10 * F[r \ {Max(r)}] + DigitValue[d[Max(r)]]
      BY <1>8, <2>3 DEF Reads
    <3>3. pick[r] = Max(r)
      BY <1>2
    <3> HIDE DEF pick, D
    <3> QED BY <2>3, <3>1, <3>2, <3>3
  <2> HIDE DEF pick, D
  <2>4. Alike(it, F, pick, D)
    BY <2>2, <2>3 DEF Alike
  <2> QED BY <1>1, <1>5, <2>1, <2>4, RecursionAgrees
<1> HIDE DEF Recursion
<1> QED BY <1>8, <1>9, <1>10, <1>11

\* The digits one by one.
LEMMA ReadsEach ==
  ASSUME NEW n \in Nat, NEW d, NEW F, Reads(F, d, 1 .. n)
  PROVE  /\ F[1 .. 0] = 0
         /\ \A i \in 0 .. n : F[1 .. i] \in Nat
         /\ \A i \in 1 .. n : F[1 .. i] = 10 * F[1 .. i - 1] + DigitValue[d[i]]
<1>1. F[1 .. 0] = 0
  <2>1. 1 .. 0 = {}
    OBVIOUS
  <2> QED BY <2>1 DEF Reads
<1>2. \A i \in 0 .. n : 1 .. i \in SUBSET (1 .. n)
  OBVIOUS
<1>3. \A i \in 0 .. n : F[1 .. i] \in Nat
  BY <1>2 DEF Reads
<1>4. ASSUME NEW i \in 1 .. n
      PROVE  F[1 .. i] = 10 * F[1 .. i - 1] + DigitValue[d[i]]
  <2>1. 1 .. i \in SUBSET (1 .. n) /\ i \in 1 .. i /\ 1 .. i # {}
    <3>1. i \in Nat /\ i >= 1 /\ i <= n
      OBVIOUS
    <3>2. i \in 1 .. i
      BY <3>1
    <3>3. \A j \in 1 .. i : j \in 1 .. n
      BY <3>1
    <3> QED BY <3>2, <3>3
  <2>2. Max(1 .. i) = i
    <3>1. Max(1 .. i) \in 1 .. i /\ \A y \in 1 .. i : y <= Max(1 .. i)
      BY <2>1, MaxIs
    <3>2. i <= Max(1 .. i) /\ Max(1 .. i) <= i /\ Max(1 .. i) \in Int
      BY <2>1, <3>1
    <3> QED BY <3>2
  <2>3. (1 .. i) \ {i} = 1 .. i - 1
    OBVIOUS
  <2>4. F[1 .. i] = 10 * F[(1 .. i) \ {Max(1 .. i)}] + DigitValue[d[Max(1 .. i)]]
    BY <2>1 DEF Reads
  <2> QED BY <2>2, <2>3, <2>4
<1> QED BY <1>1, <1>3, <1>4

\* The first digits of a number are a smaller number.
LEMMA NumberOfPrefix ==
  ASSUME NEW d \in Seq(Digit), NEW k \in 0 .. Len(d)
  PROVE  Number(SubSeq(d, 1, k)) \in Nat /\ Number(SubSeq(d, 1, k)) <= Number(d)
<1> DEFINE n == Len(d)
           e == SubSeq(d, 1, k)
<1>1. n \in Nat /\ k \in Nat /\ k <= n /\ \A i \in 1 .. n : DigitValue[d[i]] \in Nat
  <2>1. \A i \in 1 .. n : DigitValue[d[i]] \in Nat
    BY DigitsAreNumbers
  <2> QED BY <2>1
<1>2. e \in Seq(Digit) /\ Len(e) = k /\ \A i \in 1 .. k : e[i] = d[i]
  OBVIOUS
<1> HIDE DEF n, e
<1>3. PICK F : Reads(F, d, 1 .. n) /\ Number(d) = F[1 .. n]
  BY NumberReads DEF n
<1>4. PICK G : Reads(G, e, 1 .. k) /\ Number(e) = G[1 .. k]
  BY <1>2, NumberReads
<1>5. /\ F[1 .. 0] = 0
      /\ \A i \in 0 .. n : F[1 .. i] \in Nat
      /\ \A i \in 1 .. n : F[1 .. i] = 10 * F[1 .. i - 1] + DigitValue[d[i]]
  BY <1>1, <1>3, ReadsEach
<1>6. /\ G[1 .. 0] = 0
      /\ \A i \in 1 .. k : G[1 .. i] = 10 * G[1 .. i - 1] + DigitValue[e[i]]
  BY <1>1, <1>4, ReadsEach
<1> DEFINE T == {i \in 0 .. k : F[1 .. i] = G[1 .. i]}
           U == {i \in 0 .. n : i < k \/ F[1 .. k] <= F[1 .. i]}
<1>7. 0 \in T /\ \A i \in 1 .. k : i - 1 \in T => i \in T
  <2>1. 0 \in T
    BY <1>1, <1>5, <1>6
  <2>2. ASSUME NEW i \in 1 .. k, F[1 .. i - 1] = G[1 .. i - 1] PROVE F[1 .. i] = G[1 .. i]
    <3>1. i \in 1 .. n
      BY <1>1
    <3>2. F[1 .. i] = 10 * F[1 .. i - 1] + DigitValue[d[i]] /\ e[i] = d[i]
      BY <1>2, <1>5, <3>1
    <3>3. G[1 .. i] = 10 * G[1 .. i - 1] + DigitValue[e[i]]
      BY <1>6
    <3> QED BY <2>2, <3>2, <3>3
  <2>3. \A i \in 1 .. k : i \in 0 .. k
    OBVIOUS
  <2> QED BY <2>1, <2>2, <2>3
<1>8. k \in T
  <2> HIDE DEF T
  <2>1. \A i \in 0 .. k : i \in T
    BY <1>1, <1>7, CountInduction
  <2> QED BY <1>1, <2>1
<1>9. 0 \in U
  BY <1>1, <1>5
<1>10. ASSUME NEW i \in 1 .. n, i - 1 \in U PROVE i \in U
  <2>1. F[1 .. i] >= F[1 .. i - 1]
    <3>1. F[1 .. i - 1] \in Nat /\ DigitValue[d[i]] \in Nat
      BY <1>1, <1>5
    <3>2. F[1 .. i] = 10 * F[1 .. i - 1] + DigitValue[d[i]]
      BY <1>5
    <3> QED BY <3>1, <3>2
  <2>2. CASE i < k
    BY <2>2, <1>1
  <2>3. CASE i = k
    <3>1. F[1 .. k] \in Nat
      BY <1>1, <1>5
    <3> QED BY <2>3, <3>1, <1>1
  <2>4. CASE i > k
    <3>1. F[1 .. k] <= F[1 .. i - 1]
      BY <1>1, <1>10, <2>4
    <3>2. F[1 .. k] \in Nat /\ F[1 .. i - 1] \in Nat /\ F[1 .. i] \in Nat
      BY <1>1, <1>5
    <3>3. F[1 .. k] <= F[1 .. i]
      BY <2>1, <3>1, <3>2
    <3> QED BY <3>3
  <2> QED BY <1>1, <2>2, <2>3, <2>4
<1>11. n \in U
  <2> HIDE DEF U
  <2>1. \A i \in 0 .. n : i \in U
    BY <1>1, <1>9, <1>10, CountInduction
  <2> QED BY <1>1, <2>1
<1>12. G[1 .. k] \in Nat /\ G[1 .. k] <= F[1 .. n]
  BY <1>1, <1>5, <1>8, <1>11
<1> QED BY <1>3, <1>4, <1>12 DEF e

-----------------------------------------------------------------------------
(* The port is made of digits.                                            *)

DigitsInv ==
  /\ real_url \in Seq(Char)
  /\ stage = "host" /\ s = "s_http_host_port" => End("port") = p
  /\ \A i \in off["port"] + 1 .. End("port") : real_url[i] \in Digit
  /\ "port" \in field_set => len["port"] > 0

LEMMA PortCharacter ==
  ASSUME NEW state \in AllHostStates, NEW ch, http_parse_host_char(state, ch) = "s_http_host_port"
  PROVE  ch \in Digit
<1>1. CASE state \in BeforeHost \cup HostStates \cup {"s_http_host_v6_end"}
  BY <1>1 DEF http_parse_host_char, BeforeHost, HostStates
<1>2. CASE state \in {"s_http_host_port_start", "s_http_host_port"}
  BY <1>2 DEF http_parse_host_char
<1> QED BY <1>1, <1>2 DEF AllHostStates

LEMMA NoPortYet ==
  ASSUME UrlInv, stage \in {"none", "scan"} PROVE "port" \notin field_set /\ len["port"] = 0
<1>0. "port" \in Field
  BY DEF Field
<1>1. CASE stage = "none"
  BY <1>0, <1>1 DEF UrlInv
<1>2. CASE stage = "scan"
  <2>1. ScanInv /\ "port" \notin Seen(s)
    BY <1>2 DEF UrlInv, Seen
  <2> QED BY <1>0, <2>1 DEF ScanInv
<1> QED BY <1>1, <1>2

\* What does not scan leaves the digits.
LEMMA DigitsStay ==
  ASSUME DigitsInv, UNCHANGED <<real_url, p, s, field_set, off, len>>, stage' = "host" => stage = "host"
  PROVE  DigitsInv'
BY DEF DigitsInv, End

LEMMA DigitsGiven == ASSUME UrlInv, NEW u, u.url \in Seq(Char), GiveUrl(u) PROVE DigitsInv'
<1>1. "port" \notin field_set /\ len["port"] = 0 /\ off["port"] \in Nat
  BY NoPortYet DEF GiveUrl, UrlInv, Field
<1>2. real_url' \in Seq(Char) /\ stage' = "scan" /\ UNCHANGED <<field_set, off, len>>
  BY UrlIsSeq DEF GiveUrl, scanner
<1> QED BY <1>1, <1>2 DEF DigitsInv, End

LEMMA DigitsScanned == ASSUME UrlInv, DigitsInv, ScanChar PROVE DigitsInv'
<1>1. CASE Reject
  BY <1>1, DigitsStay DEF Reject, scanner
<1>2. CASE stage' = "scan" /\ UNCHANGED real_url
  <2>1. UrlInv'
    BY ScanCharKeeps
  <2>2. "port" \in Field /\ ScanInv' /\ "port" \notin Seen(s')
    BY <1>2, <2>1 DEF UrlInv, Field, Seen
  <2>3. "port" \notin field_set' /\ len'["port"] = 0 /\ off'["port"] \in Nat
    BY <2>1, <2>2 DEF UrlInv, ScanInv
  <2> QED BY <1>2, <2>3 DEF DigitsInv, End
<1> QED BY <1>1, <1>2 DEF ScanChar

LEMMA DigitsAtEnd == ASSUME UrlInv, DigitsInv, ScanEnd PROVE DigitsInv'
<1>1. CASE Reject
  BY <1>1, DigitsStay DEF Reject, scanner
<1>2. CASE /\ s' \in {"s_http_userinfo_start", "s_http_host_start"} /\ len' = [len EXCEPT !["host"] = 0]
           /\ UNCHANGED <<real_url, field_set, off>>
  <2>1. "port" \notin field_set /\ len["port"] = 0 /\ "port" \in Field /\ off["port"] \in Nat
        /\ len \in [Field -> Nat]
    BY NoPortYet DEF ScanEnd, UrlInv, Field
  <2>2. len'["port"] = 0
    BY <1>2, <2>1
  <2> QED BY <1>2, <2>1, <2>2 DEF DigitsInv, End
<1> QED BY <1>1, <1>2 DEF ScanEnd

LEMMA DigitsInHost == ASSUME UrlInv, DigitsInv, HostScan PROVE DigitsInv'
<1> DEFINE next == http_parse_host_char(s, real_url[p + 1])
           uf == HostField(next)
           zone == next \in {"s_http_host_v6_zone_start", "s_http_host_v6_zone"}
<1>1. CASE Reject
  BY <1>1, DigitsStay DEF Reject, scanner
<1>2. CASE /\ next # "s_http_host_dead" /\ s' = next /\ p' = p + 1
           /\ \/ uf = NoField /\ UNCHANGED <<field_set, off, len>>
              \/ uf # NoField /\ Extend(uf, next # s /\ ~zone)
           /\ UNCHANGED <<stage, real_url, limit>>
  <2>1. /\ HostInv /\ p \in Nat /\ "port" \in Field /\ s \in AllHostStates
        /\ off \in [Field -> Nat] /\ len \in [Field -> Nat] /\ stage = "host"
    BY DEF HostScan, UrlInv, HostInv, Field
  <2>2. next \in HostSuccessors(s)
    BY <1>2, <2>1, HostScanSuccessors
  <2>3. next \in AllHostStates
    BY <2>1, <2>2, HostStep
  <2>4. next = "s_http_host_port" => real_url[p + 1] \in Digit
    BY <2>1, PortCharacter
  <2> HIDE DEF next
  <2>5. uf = "port" <=> next = "s_http_host_port"
    BY <2>3, HostFieldIs
  <2>6. uf # NoField => uf \in Field
    BY <2>3, HostFieldIs
  <2>7. CASE uf # "port"
    <3>1. off'["port"] = off["port"] /\ len'["port"] = len["port"]
          /\ ("port" \in field_set' <=> "port" \in field_set)
      BY <1>2, <2>1, <2>6, <2>7 DEF Extend
    <3> QED BY <1>2, <2>5, <2>7, <3>1 DEF DigitsInv, End
  <2>8. CASE uf = "port"
    <3>1. next = "s_http_host_port" /\ ~zone
      BY <2>5, <2>8
    <3>2. Extend("port", next # s)
      BY <1>2, <2>8, <3>1 DEF NoField
    <3>3. len'["port"] = len["port"] + 1
      BY <2>1, <3>2 DEF Extend
    <3>4. CASE next # s
      <4>1. off'["port"] = p /\ len["port"] = 0
        BY <2>1, <3>1, <3>2, <3>4 DEF Extend, HostInv
      <4>2. End("port")' = p + 1 /\ len'["port"] > 0
        BY <2>1, <3>3, <4>1 DEF End
      <4>3. \A i \in off'["port"] + 1 .. End("port")' : i = p + 1
        BY <2>1, <4>1, <4>2
      <4> QED BY <1>2, <2>4, <3>1, <4>2, <4>3 DEF DigitsInv
    <3>5. CASE next = s
      <4>1. off'["port"] = off["port"] /\ End("port") = p
        BY <2>1, <3>1, <3>2, <3>5 DEF Extend, DigitsInv
      <4>2. End("port")' = p + 1 /\ len'["port"] > 0
        BY <2>1, <3>3, <4>1 DEF End
      <4>3. \A i \in off["port"] + 1 .. p + 1 : i \in off["port"] + 1 .. p \/ i = p + 1
        BY <2>1
      <4> QED BY <1>2, <2>4, <3>1, <4>1, <4>2, <4>3 DEF DigitsInv
    <3> QED BY <3>4, <3>5
  <2> QED BY <2>7, <2>8
<1> QED BY <1>1, <1>2 DEF HostScan

LEMMA DigitsKeep == ASSUME UrlInv, DigitsInv, UrlNext PROVE DigitsInv'
<1>1. CASE HostEnd
  BY <1>1, DigitsStay DEF HostEnd, Reject, scanner
<1>2. CASE CopyFields
  BY <1>2, DigitsStay DEF CopyFields, scanner
<1> QED BY <1>1, <1>2, DigitsScanned, DigitsAtEnd, DigitsInHost DEF UrlNext

LEMMA PartOf ==
  ASSUME NEW S, NEW u \in Seq(S), NEW a \in Nat, NEW l \in Nat, a + l <= Len(u),
         NEW T, \A i \in a + 1 .. a + l : u[i] \in T
  PROVE  SubSeq(u, a + 1, a + l) \in Seq(T) /\ Len(SubSeq(u, a + 1, a + l)) = l
<1>1. /\ Len(SubSeq(u, a + 1, a + l)) = l
      /\ \A i \in 1 .. l : SubSeq(u, a + 1, a + l)[i] = u[a + i]
      /\ SubSeq(u, a + 1, a + l) \in Seq(S)
  OBVIOUS
<1>2. \A i \in 1 .. l : SubSeq(u, a + 1, a + l)[i] \in T
  <2>1. \A i \in 1 .. l : a + i \in a + 1 .. a + l
    OBVIOUS
  <2> QED BY <1>1, <2>1
<1> QED BY <1>1, <1>2

LEMMA PortText ==
  ASSUME UrlInv, DigitsInv
  PROVE  /\ Text("port") \in Seq(Digit)
         /\ "port" \in field_set => Len(Text("port")) > 0
<1> DEFINE a == off["port"]
           b == End("port")
<1>1. a \in Nat /\ len["port"] \in Nat /\ b = a + len["port"] /\ b <= Len(real_url)
      /\ Len(real_url) \in Nat /\ real_url \in Seq(Char)
  BY EndsInside DEF UrlInv, DigitsInv, End, Field
<1>2. \A i \in a + 1 .. b : real_url[i] \in Digit
  BY DEF DigitsInv
<1>3. CASE "port" \notin field_set
  BY <1>3 DEF Text
<1>4. CASE "port" \in field_set
  <2>1. Text("port") = SubSeq(real_url, a + 1, b) /\ len["port"] > 0
    BY <1>4 DEF Text, End, DigitsInv
  <2> DEFINE l == len["port"]
  <2> HIDE DEF a, b, l
  <2>2. a \in Nat /\ l \in Nat /\ b = a + l /\ a + l <= Len(real_url) /\ real_url \in Seq(Char)
    BY <1>1 DEF l
  <2>3. SubSeq(real_url, a + 1, a + l) \in Seq(Digit) /\ Len(SubSeq(real_url, a + 1, a + l)) = l
    BY <1>2, <2>2, PartOf
  <2> QED BY <1>1, <2>1, <2>2, <2>3 DEF l
<1> QED BY <1>3, <1>4

-----------------------------------------------------------------------------
(* Where the fields are.  Spans says of every state of the scanners which   *)
(* characters have been read as fields, and which as marks between them;    *)
(* the fields follow each other, and an empty one may be anywhere.          *)

Placed(f, c) == len[f] > 0 => off[f] = c

\* Path, query after q and fragment after h marks, from c to e.
RestSpan(c, e, q, h) ==
  LET d == c + len["path"]
      k == d + q + len["query"]
  IN  /\ q \in 0 .. 1 /\ h \in Nat
      /\ Placed("path", c) /\ Placed("query", d + q) /\ Placed("fragment", k + h)
      /\ len["query"] > 0 => q = 1
      /\ len["fragment"] > 0 => h > 0
      /\ q = 1 => real_url[d + 1] = "?"
      /\ \A i \in 1 .. h : real_url[k + i] = "#"
      /\ e = k + h + len["fragment"]

SchemaSpan ==
  LET a == len["schema"]
  IN  Placed("schema", 0) /\ real_url[a + 1] = ":" /\ real_url[a + 2] = "/" /\ real_url[a + 3] = "/"

InRest == Server \cup {"s_req_path"} \cup Query \cup Fragment

\* While the scanner is behind the scheme, with q and h marks read.
BehindSchema(q, h) ==
  /\ RestSpan(len["schema"] + 3 + len["host"], p, q, h)
  /\ s \in Server \cup {"s_req_path"} => q = 0
  /\ s \in Query => q = 1
  /\ h > 0 <=> s \in Fragment

ScanSpans ==
  /\ \A f \in field_set : len[f] > 0
  /\ old_uf # NoField => old_uf \in field_set
  /\ Placed("schema", 0)
  /\ s = "s_req_spaces_before_url" => p = 0
  /\ s = "s_req_schema" => p = len["schema"]
  /\ s = "s_req_schema_slash" => p = len["schema"] + 1 /\ real_url[len["schema"] + 1] = ":"
  /\ s = "s_req_schema_slash_slash" =>
       p = len["schema"] + 2 /\ real_url[len["schema"] + 1] = ":" /\ real_url[len["schema"] + 2] = "/"
  /\ s \in InRest =>
       SchemaSpan /\ Placed("host", len["schema"] + 3) /\ \E q \in 0 .. 1, h \in Nat : BehindSchema(q, h)

-----------------------------------------------------------------------------
\* The mark that leads to a state.
LEMMA MarkRead ==
  ASSUME NEW state \in ScanStates, NEW ch, NEW next, next = parse_url_char(state, ch)
  PROVE  /\ next = "s_req_schema_slash" => ch = ":"
         /\ next \in {"s_req_schema_slash_slash", "s_req_server_start"} => ch = "/"
         /\ next = "s_req_query_string_start" => ch = "?"
         /\ next = "s_req_fragment_start" => ch = "#"
<1> USE DEF Server, Query, Fragment
<1>1. CASE state \in {"s_req_spaces_before_url", "s_req_schema", "s_req_schema_slash", "s_req_schema_slash_slash"}
  BY <1>1 DEF parse_url_char
<1>2. CASE state \in Server
  BY <1>2 DEF parse_url_char
<1>3. CASE state = "s_req_path"
  BY <1>3 DEF parse_url_char
<1>4. CASE state \in Query
  BY <1>4 DEF parse_url_char
<1>5. CASE state \in Fragment
  BY <1>5 DEF parse_url_char
<1> QED BY <1>1, <1>2, <1>3, <1>4, <1>5 DEF ScanStates

\* A field that is one character longer, and begins where it did or here.
Grows(f) ==
  /\ f \in Field /\ len'[f] = len[f] + 1
  /\ off'[f] = IF len[f] = 0 THEN p ELSE off[f]
  /\ \A g \in Field \ {f} : len'[g] = len[g] /\ off'[g] = off[g]

LEMMA ExtendGrows ==
  ASSUME NEW f \in Field, NEW starts \in BOOLEAN, Extend(f, starts),
         off \in [Field -> Nat], len \in [Field -> Nat], starts <=> len[f] = 0
  PROVE  Grows(f)
<1>1. CASE starts
  BY <1>1 DEF Extend, Grows
<1>2. CASE ~starts
  BY <1>2 DEF Extend, Grows
<1> QED BY <1>1, <1>2

\* A step of the scanner that does not reject.
ScanMoves(next) ==
  /\ s \in ScanStates /\ next \in Successors(s) /\ next \in ScanStates
  /\ s' = next /\ p' = p + 1 /\ p \in Nat /\ p < Len(real_url)
  /\ UNCHANGED <<stage, given, real_url, limit, text, port>>
  /\ off \in [Field -> Nat] /\ len \in [Field -> Nat] /\ off' \in [Field -> Nat] /\ len' \in [Field -> Nat]
  /\ field_set \subseteq Field /\ \A f \in Field \ Seen(s) : len[f] = 0
  /\ next = "s_req_schema_slash" => real_url[p + 1] = ":"
  /\ next \in {"s_req_schema_slash_slash", "s_req_server_start"} => real_url[p + 1] = "/"
  /\ next = "s_req_query_string_start" => real_url[p + 1] = "?"
  /\ next = "s_req_fragment_start" => real_url[p + 1] = "#"
  /\ \/ ScanField(next) = NoField /\ UNCHANGED <<old_uf, field_set, off, len>>
     \/ /\ ScanField(next) # NoField /\ Grows(ScanField(next))
        /\ field_set' = field_set \cup {ScanField(next)} /\ old_uf' = ScanField(next)

LEMMA ScanCharMoves ==
  ASSUME UrlInv, UrlInv', ScanSpans, ScanChar
  PROVE  LET next == parse_url_char(s, real_url[p + 1])
         IN  (next = "s_dead" /\ Reject) \/ ScanMoves(next)
<1> DEFINE next == parse_url_char(s, real_url[p + 1])
           uf == ScanField(next)
<1>1. /\ stage = "scan" /\ ScanInv /\ p \in Nat /\ p < Len(real_url)
      /\ off \in [Field -> Nat] /\ len \in [Field -> Nat] /\ field_set \subseteq Field
      /\ off' \in [Field -> Nat] /\ len' \in [Field -> Nat]
  BY DEF ScanChar, UrlInv
<1> SUFFICES ASSUME /\ next # "s_dead" /\ s' = next /\ p' = p + 1
                    /\ \/ uf = NoField /\ UNCHANGED <<old_uf, field_set, off, len>>
                       \/ uf # NoField /\ Extend(uf, uf # old_uf) /\ old_uf' = uf
                    /\ UNCHANGED <<stage, given, real_url, limit, text, port>>
             PROVE  ScanMoves(next)
  BY DEF ScanChar
<1>2. s \in ScanStates /\ next \in Successors(s) /\ next \in ScanStates
  <2>1. s \in ScanStates /\ next \in Successors(s)
    BY <1>1, ScanSuccessors DEF ScanInv
  <2> QED BY <2>1, ScanStep
<1>3. \A f \in Field \ Seen(s) : len[f] = 0
  BY <1>1 DEF ScanInv
<1>4. /\ next = "s_req_schema_slash" => real_url[p + 1] = ":"
      /\ next \in {"s_req_schema_slash_slash", "s_req_server_start"} => real_url[p + 1] = "/"
      /\ next = "s_req_query_string_start" => real_url[p + 1] = "?"
      /\ next = "s_req_fragment_start" => real_url[p + 1] = "#"
  BY <1>2, MarkRead
<1>5. uf # NoField => uf \in Field /\ (uf \notin Seen(s) \/ uf = ScanField(s))
  BY <1>2, ScanStep
<1>6. uf # NoField => (uf # old_uf <=> len[uf] = 0)
  <2> SUFFICES ASSUME uf # NoField PROVE uf # old_uf <=> len[uf] = 0
    OBVIOUS
  <2>1. CASE uf = old_uf
    <3>1. len[uf] > 0
      BY <2>1 DEF ScanSpans
    <3> QED BY <2>1, <3>1
  <2>2. CASE uf # old_uf
    <3>1. uf \notin Seen(s)
      BY <1>1, <1>5, <2>2 DEF ScanInv
    <3> QED BY <1>3, <1>5, <2>2, <3>1
  <2> QED BY <2>1, <2>2
<1>7. \/ uf = NoField /\ UNCHANGED <<old_uf, field_set, off, len>>
      \/ uf # NoField /\ Grows(uf) /\ field_set' = field_set \cup {uf} /\ old_uf' = uf
  <2>1. CASE uf = NoField
    BY <2>1
  <2>2. CASE uf # NoField
    <3>1. uf \in Field /\ Extend(uf, uf # old_uf) /\ old_uf' = uf
      BY <1>5, <2>2
    <3>2. Grows(uf)
      <4> DEFINE starts == uf # old_uf
      <4>1. starts \in BOOLEAN /\ Extend(uf, starts) /\ (starts <=> len[uf] = 0)
        BY <1>6, <2>2, <3>1
      <4> HIDE DEF starts, uf
      <4> QED BY <1>1, <3>1, <4>1, ExtendGrows
    <3> QED BY <2>2, <3>1, <3>2 DEF Extend
  <2> QED BY <2>1, <2>2
<1> QED BY <1>1, <1>2, <1>3, <1>4, <1>7 DEF ScanMoves

\* A field that was found has a character.
LEMMA FoundKeep ==
  ASSUME ScanSpans, NEW next, ScanMoves(next)
  PROVE  (\A f \in field_set' : len'[f] > 0) /\ (old_uf' # NoField => old_uf' \in field_set')
<1> DEFINE uf == ScanField(next)
<1>1. CASE UNCHANGED <<old_uf, field_set, off, len>>
  BY <1>1 DEF ScanSpans
<1>2. CASE Grows(uf) /\ field_set' = field_set \cup {uf} /\ old_uf' = uf
  <2>1. uf \in Field /\ len'[uf] > 0
    BY <1>2 DEF Grows, ScanMoves
  <2>2. \A f \in field_set \ {uf} : len'[f] > 0
    BY <1>2 DEF Grows, ScanMoves, ScanSpans
  <2> QED BY <1>2, <2>1, <2>2
<1> QED BY <1>1, <1>2 DEF ScanMoves

LEMMA ScanBegins ==
  ASSUME ScanSpans, NEW next, ScanMoves(next), next \notin InRest
  PROVE  ScanSpans'
<1> USE DEF InRest, Server, Query, Fragment
<1>1. /\ len["schema"] \in Nat /\ off["schema"] \in Nat /\ p \in Nat /\ s' = next /\ p' = p + 1
      /\ real_url' = real_url
  BY DEF ScanMoves, Field
<1>2. CASE next = "s_req_schema"
  <2>1. s \in {"s_req_spaces_before_url", "s_req_schema"}
    BY <1>2 DEF ScanMoves, Successors, ScanStates
  <2>2. ScanField(next) = "schema"
    BY <1>2 DEF ScanField
  <2>3. Grows("schema") /\ field_set' = field_set \cup {"schema"} /\ old_uf' = "schema"
    BY <2>2 DEF ScanMoves, NoField
  <2>4. p = len["schema"]
    <3>1. s = "s_req_spaces_before_url" => len["schema"] = 0 /\ p = 0
      BY DEF ScanMoves, Seen, Field, ScanSpans
    <3> QED BY <2>1, <3>1 DEF ScanSpans
  <2>5. len'["schema"] = p + 1 /\ off'["schema"] = 0
    BY <1>1, <2>3, <2>4 DEF Grows, ScanSpans, Placed
  <2> QED BY <1>1, <1>2, <2>5, FoundKeep DEF ScanSpans, Placed
<1>3. CASE next \in {"s_req_schema_slash", "s_req_schema_slash_slash"}
  <2>1. UNCHANGED <<old_uf, field_set, off, len>>
    BY <1>3 DEF ScanMoves, ScanField, NoField
  <2>2. /\ next = "s_req_schema_slash" => s = "s_req_schema" /\ real_url[p + 1] = ":"
        /\ next = "s_req_schema_slash_slash" => s = "s_req_schema_slash" /\ real_url[p + 1] = "/"
    BY <1>3 DEF ScanMoves, Successors, ScanStates
  <2> QED BY <1>1, <1>3, <2>1, <2>2 DEF ScanSpans, Placed
<1> QED
  <2>1. next \in {"s_req_schema", "s_req_schema_slash", "s_req_schema_slash_slash"}
    <3>1. next \in ScanStates /\ next # "s_req_spaces_before_url"
      BY DEF ScanMoves, Successors
    <3> QED BY <3>1 DEF ScanStates
  <2> QED BY <1>2, <1>3, <2>1

\* Behind the scheme a step keeps the schema, and the host once it has ended.
LEMMA BehindSteps ==
  ASSUME ScanSpans, NEW next, ScanMoves(next), next \in InRest,
         \E q \in 0 .. 1, h \in Nat : BehindSchema(q, h)',
         SchemaSpan', Placed("host", len["schema"] + 3)'
  PROVE  ScanSpans'
<1> DEFINE behind == \E q \in 0 .. 1, h \in Nat : BehindSchema(q, h)
<1>1. s' = next /\ next \notin {"s_req_spaces_before_url", "s_req_schema", "s_req_schema_slash", "s_req_schema_slash_slash"}
  BY DEF ScanMoves, InRest, Server, Query, Fragment
<1>2. Placed("schema", 0)'
  BY DEF SchemaSpan
<1>3. behind'
  OBVIOUS
<1> HIDE DEF behind
<1> QED BY <1>1, <1>2, <1>3, FoundKeep DEF ScanSpans, behind

\* The marks read with one character more.
Asks(next, q) == IF next = "s_req_query_string_start" THEN 1 ELSE q
Hashes(next, h) == IF next = "s_req_fragment_start" THEN h + 1 ELSE h

LEMMA RestGrows ==
  ASSUME ScanSpans, NEW next, ScanMoves(next), s \in InRest,
         NEW q \in 0 .. 1, NEW h \in Nat, BehindSchema(q, h)
  PROVE  /\ BehindSchema(Asks(next, q), Hashes(next, h))'
         /\ SchemaSpan' /\ Placed("host", len["schema"] + 3)'
<1> USE DEF Server, Query, Fragment
<1> DEFINE a == len["schema"]
           b == a + 3
           c == b + len["host"]
           d == c + len["path"]
           k == d + q + len["query"]
<1>1. /\ {"schema", "host", "path", "query", "fragment"} \subseteq Field
      /\ \A f \in Field : off[f] \in Nat /\ len[f] \in Nat /\ off'[f] \in Nat /\ len'[f] \in Nat
      /\ p \in Nat /\ s' = next /\ p' = p + 1 /\ real_url' = real_url
  BY DEF ScanMoves, Field
<1>2. SchemaSpan /\ Placed("host", b)
  BY DEF ScanSpans
<1>3. /\ Placed("path", c) /\ Placed("query", d + q) /\ Placed("fragment", k + h)
      /\ len["query"] > 0 => q = 1
      /\ len["fragment"] > 0 => h > 0
      /\ q = 1 => real_url[d + 1] = "?"
      /\ \A i \in 1 .. h : real_url[k + i] = "#"
      /\ p = k + h + len["fragment"]
      /\ s \in Server \cup {"s_req_path"} => q = 0
      /\ s \in Query => q = 1
      /\ h > 0 <=> s \in Fragment
  BY DEF BehindSchema, RestSpan
<1>4. \A f \in Field \ Seen(s) : len[f] = 0
  BY DEF ScanMoves
<1>5. \A f : Grows(f) => /\ f \in Field /\ len'[f] = len[f] + 1
                         /\ off'[f] = IF len[f] = 0 THEN p ELSE off[f]
                         /\ \A g \in Field \ {f} : len'[g] = len[g] /\ off'[g] = off[g]
  BY DEF Grows
<1>6. CASE next \in Server
  <2>1. s \in Server /\ Grows("host")
    BY <1>6 DEF ScanMoves, Successors, ScanStates, ScanField, NoField, InRest
  <2>2. len["path"] = 0 /\ len["query"] = 0 /\ len["fragment"] = 0 /\ q = 0 /\ h = 0
    BY <1>1, <1>3, <1>4, <2>1 DEF Seen
  <2>3. /\ len'["schema"] = a /\ off'["schema"] = off["schema"] /\ len'["host"] = len["host"] + 1
        /\ off'["host"] = b /\ len'["path"] = 0 /\ len'["query"] = 0 /\ len'["fragment"] = 0
    BY <1>1, <1>2, <1>3, <1>5, <2>1, <2>2 DEF Placed
  <2>4. Asks(next, q) = 0 /\ Hashes(next, h) = 0
    BY <1>6, <2>2 DEF Asks, Hashes
  <2> QED BY <1>1, <1>2, <1>3, <1>6, <2>2, <2>3, <2>4 DEF BehindSchema, RestSpan, Placed, SchemaSpan
<1>7. CASE next = "s_req_path"
  <2>1. s \in Server \cup {"s_req_path"} /\ Grows("path")
    BY <1>7 DEF ScanMoves, Successors, ScanStates, ScanField, NoField, InRest
  <2>2. len["query"] = 0 /\ len["fragment"] = 0 /\ q = 0 /\ h = 0
    BY <1>1, <1>3, <1>4, <2>1 DEF Seen
  <2>3. /\ len'["schema"] = a /\ off'["schema"] = off["schema"] /\ len'["host"] = len["host"]
        /\ off'["host"] = off["host"] /\ len'["path"] = len["path"] + 1 /\ off'["path"] = c
        /\ len'["query"] = 0 /\ len'["fragment"] = 0
    BY <1>1, <1>2, <1>3, <1>5, <2>1, <2>2 DEF Placed
  <2>4. Asks(next, q) = 0 /\ Hashes(next, h) = 0
    BY <1>7, <2>2 DEF Asks, Hashes
  <2> QED BY <1>1, <1>2, <1>3, <1>7, <2>2, <2>3, <2>4 DEF BehindSchema, RestSpan, Placed, SchemaSpan
<1>8. CASE next = "s_req_query_string_start"
  <2>1. s \in Server \cup {"s_req_path"} /\ UNCHANGED <<off, len>> /\ real_url[p + 1] = "?"
    BY <1>8 DEF ScanMoves, Successors, ScanStates, ScanField, NoField, InRest
  <2>2. len["query"] = 0 /\ len["fragment"] = 0 /\ q = 0 /\ h = 0
    BY <1>1, <1>3, <1>4, <2>1 DEF Seen
  <2>4. Asks(next, q) = 1 /\ Hashes(next, h) = 0
    BY <1>8, <2>2 DEF Asks, Hashes
  <2> QED BY <1>1, <1>2, <1>3, <1>8, <2>1, <2>2, <2>4 DEF BehindSchema, RestSpan, Placed, SchemaSpan
<1>9. CASE next = "s_req_query_string"
  <2>1. s \in Query /\ Grows("query")
    BY <1>9 DEF ScanMoves, Successors, ScanStates, ScanField, NoField, InRest
  <2>2. len["fragment"] = 0 /\ q = 1 /\ h = 0
    BY <1>1, <1>3, <1>4, <2>1 DEF Seen
  <2>3. /\ len'["schema"] = a /\ off'["schema"] = off["schema"] /\ len'["host"] = len["host"]
        /\ off'["host"] = off["host"] /\ len'["path"] = len["path"] /\ off'["path"] = off["path"]
        /\ len'["query"] = len["query"] + 1 /\ off'["query"] = d + 1 /\ len'["fragment"] = 0
    BY <1>1, <1>2, <1>3, <1>5, <2>1, <2>2 DEF Placed
  <2>4. Asks(next, q) = 1 /\ Hashes(next, h) = 0
    BY <1>9, <2>2 DEF Asks, Hashes
  <2> QED BY <1>1, <1>2, <1>3, <1>9, <2>2, <2>3, <2>4 DEF BehindSchema, RestSpan, Placed, SchemaSpan
<1>10. CASE next = "s_req_fragment_start"
  <2>1. s # "s_req_fragment" /\ UNCHANGED <<off, len>> /\ real_url[p + 1] = "#"
    BY <1>10 DEF ScanMoves, Successors, ScanStates, ScanField, NoField, InRest
  <2>2. len["fragment"] = 0 /\ p = k + h
    BY <1>1, <1>3, <1>4, <2>1 DEF Seen, InRest
  <2>3. \A i \in 1 .. h + 1 : real_url[k + i] = "#"
    <3> SUFFICES ASSUME NEW i \in 1 .. h + 1 PROVE real_url[k + i] = "#"
      OBVIOUS
    <3>1. CASE i \in 1 .. h
      BY <1>3, <3>1
    <3>2. CASE i = h + 1
      <4>1. k + i = p + 1
        BY <1>1, <2>2, <3>2
      <4> QED BY <4>1, <2>1
    <3> QED BY <3>1, <3>2
  <2>4. Asks(next, q) = q /\ Hashes(next, h) = h + 1
    BY <1>10 DEF Asks, Hashes
  <2>5. RestSpan(c, p + 1, q, h + 1)
    BY <1>1, <1>3, <2>2, <2>3 DEF RestSpan, Placed
  <2>6. RestSpan(len["schema"] + 3 + len["host"], p, q, h + 1)'
    BY <1>1, <2>1, <2>5 DEF RestSpan, Placed
  <2> QED BY <1>1, <1>2, <1>10, <2>1, <2>4, <2>6 DEF BehindSchema, Placed, SchemaSpan
<1>11. CASE next = "s_req_fragment"
  <2>1. s \in Fragment /\ Grows("fragment")
    BY <1>11 DEF ScanMoves, Successors, ScanStates, ScanField, NoField, InRest
  <2>2. h > 0
    BY <1>3, <2>1
  <2>3. /\ len'["schema"] = a /\ off'["schema"] = off["schema"] /\ len'["host"] = len["host"]
        /\ off'["host"] = off["host"] /\ len'["path"] = len["path"] /\ off'["path"] = off["path"]
        /\ len'["query"] = len["query"] /\ off'["query"] = off["query"]
        /\ len'["fragment"] = len["fragment"] + 1 /\ off'["fragment"] = k + h
    BY <1>1, <1>2, <1>3, <1>5, <2>1, <2>2 DEF Placed
  <2>4. Asks(next, q) = q /\ Hashes(next, h) = h
    BY <1>11 DEF Asks, Hashes
  <2> QED BY <1>1, <1>2, <1>3, <1>11, <2>2, <2>3, <2>4 DEF BehindSchema, RestSpan, Placed, SchemaSpan
<1>12. next \in InRest
  BY DEF ScanMoves, Successors, ScanStates, InRest
<1> QED BY <1>6, <1>7, <1>8, <1>9, <1>10, <1>11, <1>12 DEF InRest

\* Behind "://" nothing of what follows has been read.
LEMMA RestBegins ==
  ASSUME ScanSpans, NEW next, ScanMoves(next), s \notin InRest, next \in InRest
  PROVE  /\ BehindSchema(0, 0)' /\ SchemaSpan' /\ Placed("host", len["schema"] + 3)'
         /\ next = "s_req_server_start" /\ s = "s_req_schema_slash_slash" /\ UNCHANGED <<off, len>>
<1> USE DEF Server, Query, Fragment
<1>1. s = "s_req_schema_slash_slash" /\ next = "s_req_server_start"
  BY DEF ScanMoves, Successors, ScanStates, InRest
<1>2. /\ UNCHANGED <<off, len>> /\ real_url[p + 1] = "/" /\ real_url' = real_url /\ p' = p + 1
      /\ s' = next /\ p \in Nat
  BY <1>1 DEF ScanMoves, ScanField, NoField
<1>3. len["host"] = 0 /\ len["path"] = 0 /\ len["query"] = 0 /\ len["fragment"] = 0 /\ len["schema"] \in Nat
  BY <1>1 DEF ScanMoves, Seen, Field
<1>4. /\ p = len["schema"] + 2 /\ real_url[len["schema"] + 1] = ":" /\ real_url[len["schema"] + 2] = "/"
      /\ Placed("schema", 0)
  BY <1>1 DEF ScanSpans
<1>5. SchemaSpan'
  <2>1. p + 1 = len["schema"] + 3
    BY <1>3, <1>4
  <2>2. real_url[len["schema"] + 3] = "/"
    BY <1>2, <2>1
  <2> QED BY <1>2, <1>4, <2>2 DEF SchemaSpan, Placed
<1>6. BehindSchema(0, 0)'
  BY <1>1, <1>2, <1>3, <1>4 DEF BehindSchema, RestSpan, Placed
<1> QED BY <1>1, <1>2, <1>3, <1>5, <1>6 DEF Placed

LEMMA ScanSpansStep == ASSUME ScanSpans, NEW next, ScanMoves(next) PROVE ScanSpans'
<1>1. CASE next \notin InRest
  BY <1>1, ScanBegins
<1>2. CASE s \notin InRest /\ next \in InRest
  <2>1. BehindSchema(0, 0)' /\ SchemaSpan' /\ Placed("host", len["schema"] + 3)'
    BY <1>2, RestBegins
  <2>2. \E q \in 0 .. 1, h \in Nat : BehindSchema(q, h)'
    BY <2>1
  <2> QED BY <1>2, <2>1, <2>2, BehindSteps
<1>3. CASE s \in InRest /\ next \in InRest
  <2>1. PICK q \in 0 .. 1, h \in Nat : BehindSchema(q, h)
    BY <1>3 DEF ScanSpans
  <2>2. BehindSchema(Asks(next, q), Hashes(next, h))' /\ SchemaSpan' /\ Placed("host", len["schema"] + 3)'
    BY <1>3, <2>1, RestGrows
  <2>3. Asks(next, q) \in 0 .. 1 /\ Hashes(next, h) \in Nat
    BY DEF Asks, Hashes
  <2>4. \E x \in 0 .. 1, y \in Nat : BehindSchema(x, y)'
    BY <2>2, <2>3
  <2> QED BY <1>3, <2>2, <2>4, BehindSteps
<1> QED BY <1>1, <1>2, <1>3

-----------------------------------------------------------------------------
(* The host part: user information and, if at is 1, its mark; the host in   *)
(* v brackets; the port.  at and v are known once the scanner is past the   *)
(* place where the mark may be.                                            *)

BeforeAt == {"s_http_userinfo_start", "s_http_userinfo"}
InBrackets == {"s_http_host_v6", "s_http_host_v6_zone_start", "s_http_host_v6_zone"}
AtPort == {"s_http_host_port_start", "s_http_host_port"}

HostSpan(at, v) ==
  LET b == len["schema"] + 3
      u == b + len["userinfo"] + at
      k == u + len["host"] + 2 * v
  IN  /\ Placed("userinfo", b) /\ Placed("host", u + v) /\ Placed("port", k + 1)
      /\ s \in BeforeAt => p = b + len["userinfo"]
      /\ s \notin BeforeAt => (at = 1 => real_url[u] = "@") /\ (len["userinfo"] > 0 => at = 1)
      /\ s = "s_http_host_start" => p = u
      /\ s \notin BeforeAt \cup {"s_http_host_start"} /\ v = 1 => real_url[u + 1] = "["
      /\ s = "s_http_host_v6_start" => v = 1 /\ p = u + 1
      /\ s = "s_http_host" => v = 0 /\ p = u + len["host"]
      /\ s \in InBrackets => v = 1 /\ p = u + 1 + len["host"]
      /\ s = "s_http_host_v6_end" => v = 1 /\ p = k
      /\ s \in AtPort \cup {"s_http_host_v6_end"} /\ v = 1 => real_url[k] = "]"
      /\ s \in AtPort => real_url[k + 1] = ":" /\ p = k + 1 + len["port"]
      /\ s = "s_http_userinfo" => len["userinfo"] > 0
      /\ s \in HostStates => len["host"] > 0
      /\ s = "s_http_host_port" <=> len["port"] > 0

\* The mark that leads to a state of the host part.
LEMMA HostMarkRead ==
  ASSUME NEW state \in AllHostStates, NEW ch, NEW next, next = http_parse_host_char(state, ch)
  PROVE  /\ next = "s_http_host_start" => ch = "@"
         /\ next = "s_http_host_v6_start" => ch = "["
         /\ next = "s_http_host_v6_end" => ch = "]"
         /\ next = "s_http_host_port_start" => ch = ":"
<1>1. CASE state \in {"s_http_userinfo_start", "s_http_userinfo"}
  BY <1>1 DEF http_parse_host_char
<1>2. CASE state \in {"s_http_host_start", "s_http_host"}
  BY <1>2 DEF http_parse_host_char
<1>3. CASE state \in {"s_http_host_v6_start", "s_http_host_v6"}
  BY <1>3 DEF http_parse_host_char
<1>4. CASE state \in {"s_http_host_v6_zone_start", "s_http_host_v6_zone", "s_http_host_v6_end"}
  BY <1>4 DEF http_parse_host_char
<1>5. CASE state \in {"s_http_host_port_start", "s_http_host_port"}
  BY <1>5 DEF http_parse_host_char
<1> QED BY <1>1, <1>2, <1>3, <1>4, <1>5 DEF AllHostStates, BeforeHost, HostStates

\* A step of the host's scanner that does not reject.
HostMoves(next) ==
  /\ s \in AllHostStates /\ next \in HostSuccessors(s) /\ next \in AllHostStates
  /\ s' = next /\ p' = p + 1 /\ p \in Nat /\ p < limit /\ limit <= Len(real_url)
  /\ UNCHANGED <<stage, given, real_url, limit, text, port>>
  /\ off \in [Field -> Nat] /\ len \in [Field -> Nat] /\ off' \in [Field -> Nat] /\ len' \in [Field -> Nat]
  /\ field_set \subseteq Field
  /\ s \in BeforeHost => len["host"] = 0
  /\ s # "s_http_host_port" => len["port"] = 0
  /\ s = "s_http_userinfo_start" => len["userinfo"] = 0
  /\ next = "s_http_host_start" => real_url[p + 1] = "@"
  /\ next = "s_http_host_v6_start" => real_url[p + 1] = "["
  /\ next = "s_http_host_v6_end" => real_url[p + 1] = "]"
  /\ next = "s_http_host_port_start" => real_url[p + 1] = ":"
  /\ \/ HostField(next) = NoField /\ UNCHANGED <<field_set, off, len>>
     \/ /\ HostField(next) # NoField /\ field_set' = field_set \cup {HostField(next)}
        /\ HostField(next) \in Field /\ Extend(HostField(next), next # s /\ next \notin InBrackets \ {"s_http_host_v6"})

LEMMA HostScanMoves ==
  ASSUME UrlInv, UrlInv', HostScan
  PROVE  LET next == http_parse_host_char(s, real_url[p + 1])
         IN  (next = "s_http_host_dead" /\ Reject) \/ HostMoves(next)
<1> DEFINE next == http_parse_host_char(s, real_url[p + 1])
           uf == HostField(next)
           zone == next \in {"s_http_host_v6_zone_start", "s_http_host_v6_zone"}
<1>1. /\ stage = "host" /\ HostInv /\ p \in Nat /\ p < limit /\ limit \in 0 .. Len(real_url)
      /\ off \in [Field -> Nat] /\ len \in [Field -> Nat] /\ field_set \subseteq Field
      /\ off' \in [Field -> Nat] /\ len' \in [Field -> Nat] /\ Len(real_url) \in Nat
  BY DEF HostScan, UrlInv, HostInv
<1> SUFFICES ASSUME /\ next # "s_http_host_dead" /\ s' = next /\ p' = p + 1
                    /\ \/ uf = NoField /\ UNCHANGED <<field_set, off, len>>
                       \/ uf # NoField /\ Extend(uf, next # s /\ ~zone)
                    /\ UNCHANGED <<stage, given, real_url, limit, text, port>>
             PROVE  HostMoves(next)
  BY DEF HostScan
<1>2. s \in AllHostStates /\ next \in HostSuccessors(s) /\ next \in AllHostStates
  <2>1. s \in AllHostStates /\ next \in HostSuccessors(s)
    BY <1>1, HostScanSuccessors DEF HostInv
  <2> QED BY <2>1, HostStep
<1>3. /\ next = "s_http_host_start" => real_url[p + 1] = "@"
      /\ next = "s_http_host_v6_start" => real_url[p + 1] = "["
      /\ next = "s_http_host_v6_end" => real_url[p + 1] = "]"
      /\ next = "s_http_host_port_start" => real_url[p + 1] = ":"
  BY <1>2, HostMarkRead
<1>4. uf # NoField => uf \in Field
  BY <1>2, HostFieldIs
<1>5. zone <=> next \in InBrackets \ {"s_http_host_v6"}
  BY DEF InBrackets
<1>6. /\ s \in BeforeHost => len["host"] = 0
      /\ s # "s_http_host_port" => len["port"] = 0
      /\ s = "s_http_userinfo_start" => len["userinfo"] = 0
  BY <1>1 DEF HostInv
<1>7. \/ uf = NoField /\ UNCHANGED <<field_set, off, len>>
      \/ /\ uf # NoField /\ field_set' = field_set \cup {uf} /\ uf \in Field
         /\ Extend(uf, next # s /\ next \notin InBrackets \ {"s_http_host_v6"})
  BY <1>4, <1>5 DEF Extend
<1> QED BY <1>1, <1>2, <1>3, <1>6, <1>7 DEF HostMoves

\* A field of the host part that begins or goes on.
LEMMA HostGrows ==
  ASSUME NEW next, HostMoves(next), NEW f \in {"userinfo", "host", "port"}, HostField(next) = f,
         NEW c \in Int, Placed(f, c), c + len[f] = p,
         (next # s /\ next \notin InBrackets \ {"s_http_host_v6"}) <=> len[f] = 0
  PROVE  /\ len'[f] = len[f] + 1 /\ off'[f] = c
         /\ \A g \in Field \ {f} : len'[g] = len[g] /\ off'[g] = off[g]
<1>1. f \in Field /\ f # NoField
  BY DEF Field, NoField
<1>2. len[f] \in Nat /\ off[f] \in Nat /\ off \in [Field -> Nat] /\ len \in [Field -> Nat]
  BY <1>1 DEF HostMoves
<1> DEFINE starts == next # s /\ next \notin InBrackets \ {"s_http_host_v6"}
<1>3. Extend(f, starts) /\ starts \in BOOLEAN /\ (starts <=> len[f] = 0)
  BY <1>1 DEF HostMoves
<1> HIDE DEF starts
<1>4. Grows(f)
  BY <1>1, <1>2, <1>3, ExtendGrows
<1>5. off'[f] = c
  BY <1>2, <1>4 DEF Grows, Placed
<1> QED BY <1>4, <1>5 DEF Grows

LEMMA HostSpanStep ==
  ASSUME NEW next, HostMoves(next), NEW at \in 0 .. 1, NEW v \in 0 .. 1, HostSpan(at, v),
         NEW at2 \in 0 .. 1, NEW v2 \in 0 .. 1,
         s \in BeforeAt /\ next \notin BeforeAt => at2 = 1,
         s \notin BeforeAt => at2 = at,
         next = "s_http_host_v6_start" => v2 = 1,
         next = "s_http_host" /\ s = "s_http_host_start" => v2 = 0,
         s \notin BeforeAt \cup {"s_http_host_start"} => v2 = v
  PROVE  /\ HostSpan(at2, v2)'
         /\ \A f \in Field \ {"userinfo", "host", "port"} : len'[f] = len[f] /\ off'[f] = off[f]
<1> USE DEF BeforeAt, InBrackets, AtPort, HostStates, BeforeHost
<1> DEFINE b == len["schema"] + 3
           u == b + len["userinfo"] + at
           k == u + len["host"] + 2 * v
<1>1. /\ {"schema", "userinfo", "host", "port"} \subseteq Field
      /\ \A f \in Field : off[f] \in Nat /\ len[f] \in Nat /\ off'[f] \in Nat /\ len'[f] \in Nat
      /\ p \in Nat /\ s' = next /\ p' = p + 1 /\ real_url' = real_url
  BY DEF HostMoves, Field
<1>2. /\ Placed("userinfo", b) /\ Placed("host", u + v) /\ Placed("port", k + 1)
      /\ s \in BeforeAt => p = b + len["userinfo"]
      /\ s \notin BeforeAt => (at = 1 => real_url[u] = "@") /\ (len["userinfo"] > 0 => at = 1)
      /\ s = "s_http_host_start" => p = u
      /\ s \notin BeforeAt \cup {"s_http_host_start"} /\ v = 1 => real_url[u + 1] = "["
      /\ s = "s_http_host_v6_start" => v = 1 /\ p = u + 1
      /\ s = "s_http_host" => v = 0 /\ p = u + len["host"]
      /\ s \in InBrackets => v = 1 /\ p = u + 1 + len["host"]
      /\ s = "s_http_host_v6_end" => v = 1 /\ p = k
      /\ s \in AtPort \cup {"s_http_host_v6_end"} /\ v = 1 => real_url[k] = "]"
      /\ s \in AtPort => real_url[k + 1] = ":" /\ p = k + 1 + len["port"]
      /\ s = "s_http_userinfo" => len["userinfo"] > 0
      /\ s \in HostStates => len["host"] > 0
      /\ s = "s_http_host_port" <=> len["port"] > 0
  BY DEF HostSpan
<1>3. /\ s \in BeforeHost => len["host"] = 0
      /\ s # "s_http_host_port" => len["port"] = 0
      /\ s = "s_http_userinfo_start" => len["userinfo"] = 0
  BY DEF HostMoves
<1>4. CASE next = "s_http_userinfo"
  <2>1. s \in BeforeAt /\ HostField(next) = "userinfo"
    BY <1>4 DEF HostMoves, HostSuccessors, AllHostStates, HostField
  <2>2. /\ len'["userinfo"] = len["userinfo"] + 1 /\ off'["userinfo"] = b
        /\ \A g \in Field \ {"userinfo"} : len'[g] = len[g] /\ off'[g] = off[g]
    BY <1>1, <1>2, <1>3, <1>4, <2>1, HostGrows
  <2>3. len["host"] = 0 /\ len["port"] = 0
    BY <1>3, <2>1
  <2> QED BY <1>1, <1>2, <1>4, <2>1, <2>2, <2>3 DEF HostSpan, Placed
<1>5. CASE next = "s_http_host_start"
  <2>1. s \in BeforeAt /\ UNCHANGED <<off, len>> /\ real_url[p + 1] = "@" /\ at2 = 1
    BY <1>5 DEF HostMoves, HostSuccessors, AllHostStates, HostField, NoField
  <2>2. len["host"] = 0 /\ len["port"] = 0
    BY <1>3, <2>1
  <2> QED BY <1>1, <1>2, <1>5, <2>1, <2>2 DEF HostSpan, Placed
<1>6. CASE next = "s_http_host_v6_start"
  <2>1. /\ s = "s_http_host_start" /\ UNCHANGED <<off, len>> /\ real_url[p + 1] = "["
        /\ at2 = at /\ v2 = 1
    BY <1>6 DEF HostMoves, HostSuccessors, AllHostStates, HostField, NoField
  <2>2. len["host"] = 0 /\ len["port"] = 0
    BY <1>3, <2>1
  <2> QED BY <1>1, <1>2, <1>6, <2>1, <2>2 DEF HostSpan, Placed
<1>7. CASE next \in HostStates
  <2>1. /\ HostField(next) = "host" /\ at2 = at
        /\ s \in {"s_http_host_start", "s_http_host_v6_start"} \cup HostStates
        /\ next = "s_http_host" => s \in {"s_http_host_start", "s_http_host"} /\ v2 = 0
        /\ next \in InBrackets => s \in {"s_http_host_v6_start"} \cup InBrackets /\ v2 = v /\ v = 1
    BY <1>2, <1>7 DEF HostMoves, HostSuccessors, AllHostStates, HostField
  <2>2. u + v2 + len["host"] = p
    BY <1>1, <1>2, <1>3, <1>7, <2>1
  <2>3. Placed("host", u + v2)
    BY <1>2, <1>3, <2>1 DEF Placed
  <2>4. (next # s /\ next \notin InBrackets \ {"s_http_host_v6"}) <=> len["host"] = 0
    <3>1. /\ next = "s_http_host_v6" => s \in {"s_http_host_v6_start", "s_http_host_v6"}
          /\ next \in {"s_http_host_v6_zone_start", "s_http_host_v6_zone"} => s \in InBrackets
      BY <2>1 DEF HostMoves, HostSuccessors, AllHostStates
    <3>2. s \in HostStates => len["host"] > 0 /\ len["host"] # 0
      BY <1>1, <1>2
    <3>3. CASE s \in HostStates
      BY <1>7, <2>1, <3>1, <3>2, <3>3
    <3>4. CASE s \in {"s_http_host_start", "s_http_host_v6_start"}
      BY <1>3, <1>7, <2>1, <3>1, <3>4
    <3> QED BY <2>1, <3>3, <3>4
  <2>5. /\ len'["host"] = len["host"] + 1 /\ off'["host"] = u + v2
        /\ \A g \in Field \ {"host"} : len'[g] = len[g] /\ off'[g] = off[g]
    <3>1. u + v2 \in Int
      BY <1>1
    <3> HIDE DEF u
    <3> QED BY <2>1, <2>2, <2>3, <2>4, <3>1, HostGrows
  <2>6. len["port"] = 0
    BY <1>3, <2>1
  <2>7. v2 = 1 => real_url[u + 1] = "["
    BY <1>1, <1>2, <1>7, <2>1
  <2> QED BY <1>1, <1>2, <1>7, <2>1, <2>2, <2>5, <2>6, <2>7 DEF HostSpan, Placed
<1>8. CASE next = "s_http_host_v6_end"
  <2>1. /\ s \in InBrackets /\ UNCHANGED <<off, len>> /\ real_url[p + 1] = "]" /\ at2 = at /\ v2 = v
    BY <1>8 DEF HostMoves, HostSuccessors, AllHostStates, HostField, NoField
  <2>2. len["port"] = 0
    BY <1>3, <2>1
  <2> QED BY <1>1, <1>2, <1>8, <2>1, <2>2 DEF HostSpan, Placed
<1>9. CASE next = "s_http_host_port_start"
  <2>1. /\ s \in {"s_http_host", "s_http_host_v6_end"} /\ UNCHANGED <<off, len>> /\ real_url[p + 1] = ":"
        /\ at2 = at /\ v2 = v
    BY <1>9 DEF HostMoves, HostSuccessors, AllHostStates, HostField, NoField
  <2>2. len["port"] = 0
    BY <1>3, <2>1
  <2>3. p = k
    BY <1>1, <1>2, <2>1
  <2> QED BY <1>1, <1>2, <1>9, <2>1, <2>2, <2>3 DEF HostSpan, Placed
<1>10. CASE next = "s_http_host_port"
  <2>1. /\ s \in AtPort /\ HostField(next) = "port" /\ at2 = at /\ v2 = v
    BY <1>10 DEF HostMoves, HostSuccessors, AllHostStates, HostField
  <2>2. k + 1 \in Int /\ k + 1 + len["port"] = p
    BY <1>1, <1>2, <2>1
  <2>3. (next # s /\ next \notin InBrackets \ {"s_http_host_v6"}) <=> len["port"] = 0
    BY <1>1, <1>2, <1>3, <1>10, <2>1
  <2>4. /\ len'["port"] = len["port"] + 1 /\ off'["port"] = k + 1
        /\ \A g \in Field \ {"port"} : len'[g] = len[g] /\ off'[g] = off[g]
    <3> HIDE DEF k
    <3> QED BY <1>2, <2>1, <2>2, <2>3, HostGrows
  <2> QED BY <1>1, <1>2, <1>10, <2>1, <2>2, <2>4 DEF HostSpan, Placed
<1> QED
  <2>1. next # "s_http_userinfo_start" /\ next \in AllHostStates
    BY DEF HostMoves, HostSuccessors, AllHostStates
  <2> QED BY <1>4, <1>5, <1>6, <1>7, <1>8, <1>9, <1>10, <2>1 DEF AllHostStates

HostEnds == {"s_http_host", "s_http_host_v6_end", "s_http_host_port"}

Spans ==
  /\ real_url \in Seq(Char)
  /\ stage = "none" => old_uf = NoField
  /\ stage = "scan" => ScanSpans
  /\ stage \in {"host", "parsed", "copied"} =>
       /\ \A f \in Field : len[f] > 0 => f \in field_set
       /\ SchemaSpan
       /\ \E at \in 0 .. 1, v \in 0 .. 1 : HostSpan(at, v)
       /\ \E q \in 0 .. 1, h \in Nat : RestSpan(limit, Len(real_url), q, h)
  /\ stage \in {"parsed", "copied"} => p = limit /\ s \in HostEnds

LEMMA InitSpans == UrlInit => Spans
BY DEF UrlInit, Spans

LEMMA GiveUrlSpans == ASSUME UrlInv, Spans, NEW url, url.url \in Seq(Char), GiveUrl(url) PROVE Spans'
<1>1. real_url' \in Seq(Char)
  BY UrlIsSeq DEF GiveUrl
<1>2. stage = "none" /\ stage' = "scan" /\ UNCHANGED <<p, s, old_uf, found_at, limit, field_set, off, len>>
  BY DEF GiveUrl, scanner
<1>3. /\ p = 0 /\ s = "s_req_spaces_before_url" /\ field_set = {} /\ old_uf = NoField
      /\ len = [f \in Field |-> 0]
  BY <1>2 DEF UrlInv, Spans
<1>4. len["schema"] = 0
  BY <1>3 DEF Field
<1>5. ScanSpans'
  BY <1>2, <1>3, <1>4 DEF ScanSpans, Placed, InRest, Server, Query, Fragment
<1> QED BY <1>1, <1>2, <1>5 DEF Spans

\* The end of the URL: the host part is read again from its beginning.
LEMMA ScanEndSpans ==
  ASSUME UrlInv, ScanSpans, ScanEnd, ~Reject, NEW at \in 0 .. 1, NEW v \in 0 .. 1, ~found_at => at = 0
  PROVE  /\ stage' = "host" /\ UNCHANGED <<given, real_url, off, found_at, text, port>>
         /\ limit' = len["schema"] + 3 + len["host"] /\ s \in InRest
         /\ s' = IF found_at THEN "s_http_userinfo_start" ELSE "s_http_host_start"
         /\ len' = [len EXCEPT !["host"] = 0] /\ p' = len["schema"] + 3
         /\ len["userinfo"] = 0 /\ len["port"] = 0 /\ len \in [Field -> Nat] /\ len["host"] > 0
         /\ HostSpan(at, v)' /\ SchemaSpan'
         /\ \A f \in Field : len'[f] > 0 => f \in field_set'
         /\ \A q \in 0 .. 1, h \in Nat : BehindSchema(q, h) => RestSpan(limit, Len(real_url), q, h)'
<1>1. /\ stage = "scan" /\ p = Len(real_url) /\ "host" \in field_set /\ stage' = "host"
      /\ p' = off["host"] /\ limit' = off["host"] + len["host"]
      /\ len' = [len EXCEPT !["host"] = 0]
      /\ s' = IF found_at THEN "s_http_userinfo_start" ELSE "s_http_host_start"
      /\ UNCHANGED <<given, real_url, field_set, off, found_at, text, port>>
  BY DEF ScanEnd
<1>2. ScanInv /\ off \in [Field -> Nat] /\ len \in [Field -> Nat] /\ Len(real_url) \in Nat
  BY <1>1 DEF UrlInv
<1>3. len["host"] > 0 /\ s \in InRest
  <2>1. "host" \in Seen(s) /\ s \in ScanStates
    BY <1>1, <1>2 DEF ScanInv
  <2> QED BY <1>1, <2>1 DEF ScanSpans, Seen, ScanStates, InRest, Server, Query, Fragment
<1>4. SchemaSpan /\ Placed("host", len["schema"] + 3) /\ off["host"] = len["schema"] + 3
  BY <1>3 DEF ScanSpans, Placed
<1>5. len["userinfo"] = 0 /\ len["port"] = 0
  <2>1. "port" \notin Seen(s) /\ "userinfo" \notin Seen(s)
    BY DEF Seen
  <2> QED BY <1>2, <2>1 DEF ScanInv, Field
<1>6. /\ len'["host"] = 0 /\ len'["userinfo"] = 0 /\ len'["port"] = 0
      /\ \A f \in Field \ {"host"} : len'[f] = len[f]
      /\ {"schema", "path", "query", "fragment", "host"} \subseteq Field
  BY <1>1, <1>2, <1>5 DEF Field
<1>7. HostSpan(at, v)'
  <2>1. len["schema"] \in Nat /\ len'["schema"] \in Nat
    BY <1>2, <1>6
  <2> USE DEF BeforeAt, AtPort, InBrackets, HostStates
  <2>2. CASE found_at
    BY <1>1, <1>4, <1>6, <2>1, <2>2 DEF HostSpan, Placed
  <2>3. CASE ~found_at
    BY <1>1, <1>4, <1>6, <2>1, <2>3 DEF HostSpan, Placed
  <2> QED BY <2>2, <2>3
<1>8. SchemaSpan'
  BY <1>1, <1>4, <1>6 DEF SchemaSpan, Placed
<1>9. \A f \in Field : len'[f] > 0 => f \in field_set'
  BY <1>1, <1>2, <1>6 DEF ScanInv
<1>10. ASSUME NEW q \in 0 .. 1, NEW h \in Nat, BehindSchema(q, h)
       PROVE  RestSpan(limit, Len(real_url), q, h)'
  <2>1. RestSpan(len["schema"] + 3 + len["host"], p, q, h)
    BY <1>10 DEF BehindSchema
  <2>2. limit' = len["schema"] + 3 + len["host"]
    BY <1>1, <1>4
  <2> QED BY <1>1, <1>6, <2>1, <2>2 DEF RestSpan, Placed
<1>11. limit' = len["schema"] + 3 + len["host"] /\ p' = len["schema"] + 3
  BY <1>1, <1>4
<1> QED BY <1>1, <1>2, <1>3, <1>5, <1>7, <1>8, <1>9, <1>10, <1>11

LEMMA ScanEndKeepsSpans == ASSUME UrlInv, Spans, ScanEnd PROVE Spans'
<1>1. CASE Reject
  BY <1>1 DEF Reject, Spans
<1>2. CASE ~Reject
  <2>1. ScanSpans
    BY DEF ScanEnd, Spans
  <2>2. PICK at \in 0 .. 1 : ~found_at => at = 0
    OBVIOUS
  <2>3. /\ stage' = "host" /\ UNCHANGED real_url /\ s \in InRest /\ HostSpan(at, 0)' /\ SchemaSpan'
        /\ \A f \in Field : len'[f] > 0 => f \in field_set'
        /\ \A q \in 0 .. 1, h \in Nat : BehindSchema(q, h) => RestSpan(limit, Len(real_url), q, h)'
    BY <1>2, <2>1, <2>2, ScanEndSpans
  <2>4. PICK q \in 0 .. 1, h \in Nat : BehindSchema(q, h)
    BY <2>1, <2>3 DEF ScanSpans
  <2>5. \E x \in 0 .. 1, y \in Nat : RestSpan(limit, Len(real_url), x, y)'
    BY <2>3, <2>4
  <2>6. \E x \in 0 .. 1, y \in 0 .. 1 : HostSpan(x, y)'
    BY <2>2, <2>3
  <2> QED BY <2>3, <2>5, <2>6 DEF Spans
<1> QED BY <1>1, <1>2

\* What a step in the host part leaves of the rest.
LEMMA HostLeavesRest ==
  ASSUME NEW next, HostMoves(next), SchemaSpan,
         \A f \in Field \ {"userinfo", "host", "port"} : len'[f] = len[f] /\ off'[f] = off[f]
  PROVE  /\ SchemaSpan'
         /\ \A q, h : RestSpan(limit, Len(real_url), q, h) => RestSpan(limit, Len(real_url), q, h)'
<1>1. /\ limit' = limit /\ real_url' = real_url
      /\ len'["schema"] = len["schema"] /\ off'["schema"] = off["schema"]
      /\ len'["path"] = len["path"] /\ off'["path"] = off["path"]
      /\ len'["query"] = len["query"] /\ off'["query"] = off["query"]
      /\ len'["fragment"] = len["fragment"] /\ off'["fragment"] = off["fragment"]
  BY DEF HostMoves, Field
<1> QED BY <1>1 DEF SchemaSpan, RestSpan, Placed

LEMMA HostFound ==
  ASSUME NEW next, HostMoves(next), \A f \in Field : len[f] > 0 => f \in field_set
  PROVE  \A f \in Field : len'[f] > 0 => f \in field_set'
<1> DEFINE uf == HostField(next)
           starts == next # s /\ next \notin InBrackets \ {"s_http_host_v6"}
<1>1. CASE UNCHANGED <<field_set, len>>
  BY <1>1
<1>2. CASE uf \in Field /\ field_set' = field_set \cup {uf} /\ Extend(uf, starts)
  <2>1. \A f \in Field \ {uf} : len'[f] = len[f]
    BY <1>2 DEF Extend, HostMoves
  <2> QED BY <1>2, <2>1
<1> QED BY <1>1, <1>2 DEF HostMoves

LEMMA HostScanSpans == ASSUME UrlInv, UrlInv', Spans, HostScan PROVE Spans'
<1> DEFINE next == http_parse_host_char(s, real_url[p + 1])
<1>1. CASE Reject
  BY <1>1 DEF Reject, Spans
<1>2. CASE HostMoves(next)
  <2> HIDE DEF next
  <2>1. stage = "host" /\ stage' = "host" /\ real_url' = real_url
    BY <1>2 DEF HostScan, HostMoves
  <2>2. PICK at \in 0 .. 1, v \in 0 .. 1 : HostSpan(at, v)
    BY <2>1 DEF Spans
  <2>3. PICK q \in 0 .. 1, h \in Nat : RestSpan(limit, Len(real_url), q, h)
    BY <2>1 DEF Spans
  <2>4. PICK at2 \in 0 .. 1, v2 \in 0 .. 1 :
          /\ at2 = IF s \in BeforeAt THEN 1 ELSE at
          /\ v2 = IF s = "s_http_host_start" THEN IF next = "s_http_host" THEN 0 ELSE 1 ELSE v
    OBVIOUS
  <2>5. next = "s_http_host_v6_start" => v2 = 1
    <3>1. next = "s_http_host_v6_start" => s = "s_http_host_start"
      BY <1>2 DEF HostMoves, HostSuccessors, AllHostStates, BeforeHost, HostStates
    <3> QED BY <2>4, <3>1
  <2>6. /\ HostSpan(at2, v2)'
        /\ \A f \in Field \ {"userinfo", "host", "port"} : len'[f] = len[f] /\ off'[f] = off[f]
    BY <1>2, <2>2, <2>4, <2>5, HostSpanStep
  <2>7. SchemaSpan' /\ RestSpan(limit, Len(real_url), q, h)'
    BY <1>2, <2>1, <2>3, <2>6, HostLeavesRest DEF Spans
  <2>8. \E x \in 0 .. 1, y \in 0 .. 1 : HostSpan(x, y)'
    BY <2>4, <2>6
  <2>9. \E x \in 0 .. 1, y \in Nat : RestSpan(limit, Len(real_url), x, y)'
    BY <2>7
  <2>10. \A f \in Field : len'[f] > 0 => f \in field_set'
    BY <1>2, <2>1, HostFound DEF Spans
  <2> QED BY <2>1, <2>7, <2>8, <2>9, <2>10 DEF Spans
<1> QED BY <1>1, <1>2, HostScanMoves

LEMMA HostEndSpans == ASSUME Spans, HostEnd PROVE Spans'
<1>1. CASE Reject
  BY <1>1 DEF Reject, Spans
<1>2. CASE stage' = "parsed" /\ s \in HostEnds /\ UNCHANGED <<real_url, scanner>>
  BY <1>2 DEF HostEnd, Spans, scanner, SchemaSpan, HostSpan, RestSpan, Placed
<1> QED BY <1>1, <1>2 DEF HostEnd, HostEnds

LEMMA ScanCharSpans == ASSUME UrlInv, UrlInv', Spans, ScanChar PROVE Spans'
<1>1. CASE Reject
  BY <1>1 DEF Reject, Spans
<1>2. CASE ScanMoves(parse_url_char(s, real_url[p + 1]))
  <2>1. ScanSpans /\ stage = "scan" /\ stage' = "scan" /\ real_url' = real_url
    BY <1>2 DEF ScanChar, ScanMoves, Spans
  <2>2. ScanSpans'
    BY <1>2, <2>1, ScanSpansStep
  <2> QED BY <2>1, <2>2 DEF Spans
<1>3. ScanSpans
  BY DEF ScanChar, Spans
<1> QED BY <1>1, <1>2, <1>3, ScanCharMoves

LEMMA CopyFieldsSpans == ASSUME Spans, CopyFields PROVE Spans'
<1>1. stage = "parsed" /\ stage' = "copied" /\ UNCHANGED <<real_url, scanner>>
  BY DEF CopyFields
<1> QED BY <1>1 DEF Spans, scanner, SchemaSpan, HostSpan, RestSpan, Placed

LEMMA UntouchedSpans == ASSUME Spans, UNCHANGED <<stage, real_url, scanner>> PROVE Spans'
<1>1. UNCHANGED <<stage, real_url, p, s, old_uf, found_at, limit, field_set, off, len>>
  BY DEF scanner
<1>2. ScanSpans => ScanSpans'
  BY <1>1 DEF ScanSpans, SchemaSpan, Placed, BehindSchema, RestSpan
<1>3. /\ SchemaSpan => SchemaSpan'
      /\ \A at, v : HostSpan(at, v) => HostSpan(at, v)'
      /\ \A q, h : RestSpan(limit, Len(real_url), q, h) => RestSpan(limit, Len(real_url), q, h)'
  BY <1>1 DEF SchemaSpan, HostSpan, RestSpan, Placed
<1> QED BY <1>1, <1>2, <1>3 DEF Spans

-----------------------------------------------------------------------------
(* Sequences side by side.                                                 *)

\* x stands in u behind c characters.
Has(u, c, x) == c + Len(x) <= Len(u) /\ \A i \in 1 .. Len(x) : u[c + i] = x[i]

LEMMA HasJoin ==
  ASSUME NEW S, NEW u \in Seq(S), NEW x \in Seq(S), NEW y \in Seq(S), NEW c \in Nat
  PROVE  /\ x \o y \in Seq(S) /\ Len(x \o y) = Len(x) + Len(y)
         /\ Has(u, c, x \o y) <=> Has(u, c, x) /\ Has(u, c + Len(x), y)
<1> DEFINE z == x \o y
<1>1. /\ z \in Seq(S) /\ Len(z) = Len(x) + Len(y) /\ Len(x) \in Nat /\ Len(y) \in Nat /\ Len(u) \in Nat
      /\ \A i \in 1 .. Len(z) : z[i] = IF i <= Len(x) THEN x[i] ELSE y[i - Len(x)]
  OBVIOUS
<1> HIDE DEF z
<1>2. ASSUME Has(u, c, z) PROVE Has(u, c, x)
  <2> SUFFICES ASSUME NEW i \in 1 .. Len(x) PROVE u[c + i] = x[i]
    BY <1>1, <1>2 DEF Has
  <2>1. i \in 1 .. Len(z) /\ z[i] = x[i]
    BY <1>1
  <2> QED BY <1>2, <2>1 DEF Has
<1>3. ASSUME Has(u, c, z) PROVE Has(u, c + Len(x), y)
  <2> SUFFICES ASSUME NEW i \in 1 .. Len(y) PROVE u[c + Len(x) + i] = y[i]
    BY <1>1, <1>3 DEF Has
  <2>1. Len(x) + i \in 1 .. Len(z) /\ z[Len(x) + i] = y[i] /\ c + (Len(x) + i) = c + Len(x) + i
    <3>1. Len(x) + i \in 1 .. Len(z) /\ ~(Len(x) + i <= Len(x)) /\ Len(x) + i - Len(x) = i
      BY <1>1
    <3>2. z[Len(x) + i] = y[Len(x) + i - Len(x)]
      BY <1>1, <3>1
    <3> QED BY <1>1, <3>1, <3>2
  <2>2. u[c + (Len(x) + i)] = z[Len(x) + i]
    BY <1>3, <2>1 DEF Has
  <2> QED BY <2>1, <2>2
<1>4. ASSUME Has(u, c, x), Has(u, c + Len(x), y) PROVE Has(u, c, z)
  <2> SUFFICES ASSUME NEW i \in 1 .. Len(z) PROVE u[c + i] = z[i]
    BY <1>1, <1>4 DEF Has
  <2>1. CASE i <= Len(x)
    BY <1>1, <1>4, <2>1 DEF Has
  <2>2. CASE ~(i <= Len(x))
    <3>1. i - Len(x) \in 1 .. Len(y) /\ c + Len(x) + (i - Len(x)) = c + i /\ z[i] = y[i - Len(x)]
      BY <1>1, <2>2
    <3>2. u[c + Len(x) + (i - Len(x))] = y[i - Len(x)]
      BY <1>4, <3>1 DEF Has
    <3> QED BY <3>1, <3>2
  <2> QED BY <2>1, <2>2
<1> QED BY <1>1, <1>2, <1>3, <1>4 DEF z

LEMMA HasAll ==
  ASSUME NEW S, NEW u \in Seq(S), NEW x \in Seq(S), Len(x) = Len(u), Has(u, 0, x)
  PROVE  u = x
<1>1. \A i \in 1 .. Len(u) : u[i] = x[i]
  BY DEF Has
<1> QED BY <1>1

LEMMA PartLen ==
  ASSUME NEW S, NEW u \in Seq(S), NEW c \in Nat, NEW n \in Nat, c + n <= Len(u),
         NEW x, x = SubSeq(u, c + 1, c + n)
  PROVE  Len(x) = n
OBVIOUS

LEMMA HasPart ==
  ASSUME NEW S, NEW u \in Seq(S), NEW c \in Nat, NEW n \in Nat, c + n <= Len(u),
         NEW x, x = SubSeq(u, c + 1, c + n)
  PROVE  x \in Seq(S) /\ Len(x) = n /\ Has(u, c, x)
<1>1. x \in Seq(S)
  OBVIOUS
<1>2. Len(x) = n
  OBVIOUS
<1>3. \A i \in 1 .. n : x[i] = u[c + i]
  <2> SUFFICES ASSUME NEW i \in 1 .. n PROVE x[i] = u[c + i]
    OBVIOUS
  <2>1. c + 1 + i - 1 = c + i
    OBVIOUS
  <2> QED BY <2>1
<1> QED BY <1>1, <1>2, <1>3 DEF Has

LEMMA PartIs ==
  ASSUME NEW S, NEW u \in Seq(S), NEW x \in Seq(S), NEW c \in Nat, Has(u, c, x)
  PROVE  SubSeq(u, c + 1, c + Len(x)) = x
<1> DEFINE y == SubSeq(u, c + 1, c + Len(x))
<1>1. Len(x) \in Nat /\ c + Len(x) <= Len(u)
  BY DEF Has
<1>2. y \in Seq(S) /\ Len(y) = Len(x) /\ Has(u, c, y)
  <2> DEFINE n == Len(x)
  <2>1. n \in Nat /\ c + n <= Len(u) /\ y = SubSeq(u, c + 1, c + n)
    BY <1>1
  <2> HIDE DEF y, n
  <2>2. y \in Seq(S)
    BY <2>1, HasPart
  <2>3. Len(y) = n
    BY <2>1, PartLen
  <2>4. Has(u, c, y)
    BY <2>1, HasPart
  <2> QED BY <2>2, <2>3, <2>4 DEF n
<1> HIDE DEF y
<1>3. \A i \in 1 .. Len(x) : y[i] = x[i]
  BY <1>2 DEF Has
<1>4. y = x
  BY <1>2, <1>3
<1> QED BY <1>4 DEF y

\* A mark, and nothing.
LEMMA HasMark ==
  ASSUME NEW S, NEW u \in Seq(S), NEW c \in Nat, NEW m
  PROVE  /\ Has(u, c, <<m>>) <=> c + 1 <= Len(u) /\ u[c + 1] = m
         /\ Has(u, c, <<>>) <=> c <= Len(u)
         /\ Len(<<m>>) = 1 /\ Len(<<>>) = 0
<1>1. Len(<<m>>) = 1 /\ <<m>>[1] = m /\ Len(<<>>) = 0
  OBVIOUS
<1>2. \A i \in 1 .. 1 : i = 1
  OBVIOUS
<1> QED BY <1>1, <1>2 DEF Has

-----------------------------------------------------------------------------
(* The fields and the marks between them are the whole URL.                *)

LEMMA TextHas ==
  ASSUME UrlInv, Spans, stage \in {"parsed", "copied"}, NEW f \in Field, NEW c \in Nat,
         Placed(f, c), c + len[f] <= Len(real_url)
  PROVE  Text(f) \in Seq(Char) /\ Len(Text(f)) = len[f] /\ Has(real_url, c, Text(f))
<1>1. /\ len[f] \in Nat /\ off[f] \in Nat /\ real_url \in Seq(Char) /\ End(f) <= Len(real_url)
      /\ len[f] > 0 => f \in field_set
  BY DEF UrlInv, Spans
<1>2. CASE len[f] > 0
  <2>1. Text(f) = SubSeq(real_url, c + 1, c + len[f])
    BY <1>1, <1>2 DEF Text, Placed
  <2>2. \A n \in Nat : c + n <= Len(real_url) => Len(SubSeq(real_url, c + 1, c + n)) = n
    BY <1>1
  <2>3. \A n \in Nat : c + n <= Len(real_url) => Has(real_url, c, SubSeq(real_url, c + 1, c + n))
    BY <1>1, HasPart
  <2>4. Text(f) \in Seq(Char)
    BY <1>1, <2>1
  <2> QED BY <1>1, <2>1, <2>2, <2>3, <2>4
<1>3. CASE ~(len[f] > 0)
  <2>1. len[f] = 0
    BY <1>1, <1>3
  <2>2. Text(f) \in Seq(Char) /\ Len(Text(f)) = 0
    <3>1. CASE f \in field_set
      <4>1. Text(f) = SubSeq(real_url, off[f] + 1, off[f] + 0)
        BY <2>1, <3>1 DEF Text
      <4>2. off[f] + 0 <= Len(real_url)
        BY <1>1, <2>1 DEF End
      <4> DEFINE t == Text(f)
                 e == off[f]
      <4>3. e \in Nat /\ t = SubSeq(real_url, e + 1, e + 0) /\ e + 0 <= Len(real_url)
        BY <1>1, <4>1, <4>2
      <4> HIDE DEF t, e
      <4>4. t \in Seq(Char) /\ Len(t) = 0
        BY <1>1, <4>3, HasPart
      <4> QED BY <4>4 DEF t
    <3>2. CASE f \notin field_set
      BY <3>2 DEF Text
    <3> QED BY <3>1, <3>2
  <2> QED BY <1>1, <2>1, <2>2 DEF Has
<1> QED BY <1>2, <1>3

\* A mark that is there if n is 1.
MarkIf(n, m) == IF n = 1 THEN <<m>> ELSE <<>>

LEMMA MarkHas ==
  ASSUME real_url \in Seq(Char), NEW m \in Char, NEW n \in 0 .. 1, NEW c \in Nat,
         c + n <= Len(real_url), n = 1 => real_url[c + 1] = m
  PROVE  MarkIf(n, m) \in Seq(Char) /\ Len(MarkIf(n, m)) = n /\ Has(real_url, c, MarkIf(n, m))
<1>1. CASE n = 1
  <2>1. MarkIf(n, m) = <<m>>
    BY <1>1 DEF MarkIf
  <2> QED BY <1>1, <2>1, HasMark
<1>2. CASE n # 1
  <2>1. MarkIf(n, m) = <<>> /\ n = 0
    BY <1>2 DEF MarkIf
  <2>2. Has(real_url, c, <<>>)
    BY <2>1 DEF Has
  <2> QED BY <2>1, <2>2
<1> QED BY <1>1, <1>2

LEMMA MarksAreChars == {":", "/", "@", "[", "]", "?", "#"} \subseteq Char
BY DEF Char, UrlChar, UserinfoChar

\* The places of the parts when the host part has been read.
LEMMA Places ==
  ASSUME UrlInv, Spans, stage \in {"parsed", "copied"}, NEW at \in 0 .. 1, NEW v \in 0 .. 1, HostSpan(at, v)
  PROVE  LET b == len["schema"] + 3
             u == b + len["userinfo"] + at
             k == u + len["host"] + 2 * v
             colon == IF len["port"] > 0 THEN 1 ELSE 0
         IN  /\ k + colon + len["port"] = limit /\ limit <= Len(real_url)
             /\ at = 1 => real_url[b + len["userinfo"] + 1] = "@"
             /\ len["userinfo"] > 0 => at = 1
             /\ v = 1 => real_url[u + 1] = "[" /\ real_url[u + 1 + len["host"] + 1] = "]"
             /\ colon = 1 => real_url[k + 1] = ":"
             /\ Placed("port", k + colon)
<1>1. /\ len["schema"] \in Nat /\ len["userinfo"] \in Nat /\ len["host"] \in Nat /\ len["port"] \in Nat
      /\ p <= Len(real_url) /\ p = limit /\ s \in HostEnds
  BY DEF UrlInv, Spans, Field
<1>2. s \notin BeforeAt \cup {"s_http_host_start"}
  BY <1>1 DEF HostEnds, BeforeAt
<1> DEFINE b == len["schema"] + 3
           u == b + len["userinfo"] + at
           k == u + len["host"] + 2 * v
           colon == IF len["port"] > 0 THEN 1 ELSE 0
<1>3. /\ (at = 1 => real_url[u] = "@") /\ (len["userinfo"] > 0 => at = 1)
      /\ v = 1 => real_url[u + 1] = "["
      /\ s = "s_http_host" => v = 0 /\ p = u + len["host"]
      /\ s = "s_http_host_v6_end" => v = 1 /\ p = k
      /\ s \in AtPort \cup {"s_http_host_v6_end"} /\ v = 1 => real_url[k] = "]"
      /\ s \in AtPort => real_url[k + 1] = ":" /\ p = k + 1 + len["port"]
      /\ s = "s_http_host_port" <=> len["port"] > 0
      /\ Placed("port", k + 1)
  BY <1>2 DEF HostSpan
<1>4. k + colon + len["port"] = limit
  <2>1. CASE s = "s_http_host"
    <3>1. len["port"] = 0 /\ v = 0 /\ p = u + len["host"]
      BY <1>1, <1>3, <2>1
    <3> QED BY <1>1, <3>1
  <2>2. CASE s = "s_http_host_v6_end"
    <3>1. len["port"] = 0 /\ p = k
      BY <1>1, <1>3, <2>2
    <3> QED BY <1>1, <3>1
  <2>3. CASE s = "s_http_host_port"
    <3>1. len["port"] > 0 /\ p = k + 1 + len["port"]
      BY <1>1, <1>3, <2>3 DEF AtPort
    <3> QED BY <1>1, <3>1
  <2> QED BY <1>1, <2>1, <2>2, <2>3 DEF HostEnds
<1>5. colon = 1 => real_url[k + 1] = ":"
  BY <1>1, <1>3 DEF AtPort
<1>6. at = 1 => real_url[b + len["userinfo"] + 1] = "@"
  BY <1>3
<1>7. v = 1 => real_url[u + 1 + len["host"] + 1] = "]"
  <2>1. v = 1 => k = u + 1 + len["host"] + 1 /\ s \in AtPort \cup {"s_http_host_v6_end"}
    <3>1. s = "s_http_host" => v # 1
      BY <1>3
    <3>2. v = 1 => k = u + 1 + len["host"] + 1
      BY <1>1
    <3> QED BY <1>1, <3>1, <3>2 DEF HostEnds, AtPort
  <2> QED BY <1>3, <2>1
<1>8. Placed("port", k + colon)
  BY <1>3 DEF Placed
<1>9. limit <= Len(real_url)
  BY <1>1
<1> QED BY <1>3, <1>4, <1>5, <1>6, <1>7, <1>8, <1>9

\* x is what stands in real_url behind m characters, up to n.
Follows(m, n, x) == x \in Seq(Char) /\ m + Len(x) = n /\ Has(real_url, m, x)

LEMMA TextLen ==
  ASSUME UrlInv, Spans, stage \in {"parsed", "copied"}, NEW f \in Field
  PROVE  Len(Text(f)) = len[f]
<1> DEFINE c == off[f]
<1>1. c \in Nat /\ Placed(f, c) /\ c + len[f] <= Len(real_url)
  BY DEF UrlInv, Placed, End
<1> HIDE DEF c
<1>2. Len(Text(f)) = len[f]
  BY <1>1, TextHas
<1> QED BY <1>2

LEMMA TextNext ==
  ASSUME UrlInv, Spans, stage \in {"parsed", "copied"}, NEW f \in Field, NEW c \in Nat, NEW n \in Nat,
         Placed(f, c), c + len[f] = n, n <= Len(real_url)
  PROVE  Follows(c, n, Text(f))
<1>1. c + len[f] <= Len(real_url)
  OBVIOUS
<1>2. Text(f) \in Seq(Char) /\ Len(Text(f)) = len[f] /\ Has(real_url, c, Text(f))
  BY <1>1, TextHas
<1> QED BY <1>2 DEF Follows

LEMMA MarkFollows ==
  ASSUME real_url \in Seq(Char), NEW m \in Char, NEW c \in Nat, NEW i \in 0 .. 1,
         c + i <= Len(real_url), i = 1 => real_url[c + 1] = m
  PROVE  Follows(c, c + i, MarkIf(i, m))
<1>1. MarkIf(i, m) \in Seq(Char) /\ Len(MarkIf(i, m)) = i /\ Has(real_url, c, MarkIf(i, m))
  BY MarkHas
<1> QED BY <1>1 DEF Follows

LEMMA FollowsOn ==
  ASSUME real_url \in Seq(Char), NEW x, NEW y, NEW l \in Nat, NEW m \in Nat, NEW n \in Nat,
         Follows(l, m, x), Follows(m, n, y)
  PROVE  Follows(l, n, x \o y)
<1>1. /\ x \in Seq(Char) /\ y \in Seq(Char) /\ l + Len(x) = m /\ Has(real_url, l, x)
      /\ Has(real_url, l + Len(x), y) /\ m + Len(y) = n
  BY DEF Follows
<1>2. x \o y \in Seq(Char) /\ Len(x \o y) = Len(x) + Len(y) /\ Len(x) \in Nat /\ Len(y) \in Nat
  BY <1>1
<1>3. Has(real_url, l, x \o y) <=> Has(real_url, l, x) /\ Has(real_url, l + Len(x), y)
  BY <1>1, HasJoin
<1> DEFINE z == x \o y
<1>4. z \in Seq(Char) /\ Len(z) = Len(x) + Len(y) /\ Has(real_url, l, z)
  BY <1>1, <1>2, <1>3
<1> HIDE DEF z
<1>5. PICK i \in Nat, j \in Nat : i = Len(x) /\ j = Len(y)
  BY <1>2
<1>6. l + i = m /\ m + j = n /\ Len(z) = i + j
  BY <1>1, <1>4, <1>5
<1>7. l + Len(z) = n
  BY <1>6
<1> QED BY <1>4, <1>7 DEF Follows, z

LEMMA Spelled == ASSUME UrlInv, Spans PROVE SpelledAsRead
<1> SUFFICES ASSUME stage \in {"parsed", "copied"} PROVE SpelledAsRead
  BY DEF SpelledAsRead
<1>0. /\ real_url \in Seq(Char) /\ SchemaSpan
      /\ {"schema", "userinfo", "host", "port", "path", "query", "fragment"} \subseteq Field
  BY DEF Spans, Field
<1>1. /\ len["schema"] \in Nat /\ len["userinfo"] \in Nat /\ len["host"] \in Nat /\ len["port"] \in Nat
      /\ len["path"] \in Nat /\ len["query"] \in Nat /\ len["fragment"] \in Nat
  BY DEF UrlInv, Field
<1>2. PICK at \in 0 .. 1, v \in 0 .. 1 : HostSpan(at, v)
  BY DEF Spans
<1>3. PICK q \in 0 .. 1, h \in Nat : RestSpan(limit, Len(real_url), q, h)
  BY DEF Spans
<1>4. PICK colon \in 0 .. 1 : colon = IF len["port"] > 0 THEN 1 ELSE 0
  OBVIOUS
<1>5. PICK a \in Nat, nu \in Nat, nh \in Nat, np \in Nat, nd \in Nat, nq \in Nat, nf \in Nat :
        /\ a = len["schema"] /\ nu = len["userinfo"] /\ nh = len["host"] /\ np = len["port"]
        /\ nd = len["path"] /\ nq = len["query"] /\ nf = len["fragment"]
  BY <1>1
<1> DEFINE b == a + 3
           b1 == b + nu
           u == b1 + at
           u1 == u + v
           u2 == u1 + nh
           k == u2 + v
           k1 == k + colon
           c == k1 + np
           d == c + nd
           d1 == d + q
           e == d1 + nq
           e1 == e + h
<1>6. /\ c = limit /\ limit <= Len(real_url)
      /\ at = 1 => real_url[b1 + 1] = "@"
      /\ nu > 0 => at = 1
      /\ v = 1 => real_url[u + 1] = "[" /\ real_url[u2 + 1] = "]"
      /\ colon = 1 => real_url[k + 1] = ":"
      /\ Placed("port", k1)
  <2>1. LET b_ == len["schema"] + 3
            u_ == b_ + len["userinfo"] + at
            k_ == u_ + len["host"] + 2 * v
            colon_ == IF len["port"] > 0 THEN 1 ELSE 0
        IN  /\ k_ + colon_ + len["port"] = limit /\ limit <= Len(real_url)
            /\ at = 1 => real_url[b_ + len["userinfo"] + 1] = "@"
            /\ len["userinfo"] > 0 => at = 1
            /\ v = 1 => real_url[u_ + 1] = "[" /\ real_url[u_ + 1 + len["host"] + 1] = "]"
            /\ colon_ = 1 => real_url[k_ + 1] = ":"
            /\ Placed("port", k_ + colon_)
    BY <1>2, Places
  <2>2. LET u_ == a + 3 + nu + at
            k_ == u_ + nh + 2 * v
        IN  /\ k_ + colon + np = limit /\ limit <= Len(real_url)
            /\ at = 1 => real_url[a + 3 + nu + 1] = "@"
            /\ nu > 0 => at = 1
            /\ v = 1 => real_url[u_ + 1] = "[" /\ real_url[u_ + 1 + nh + 1] = "]"
            /\ colon = 1 => real_url[k_ + 1] = ":"
            /\ Placed("port", k_ + colon)
    BY <1>4, <1>5, <2>1
  <2>3. LET u_ == a + 3 + nu + at
            k_ == u_ + nh + 2 * v
        IN  u_ = u /\ k_ = k /\ k_ + colon = k1 /\ (v = 1 => u_ + 1 + nh = u2) /\ k_ + colon + np = c
    OBVIOUS
  <2> QED BY <2>2, <2>3
<1>7. /\ Placed("schema", 0) /\ real_url[a + 1] = ":" /\ real_url[a + 2] = "/" /\ real_url[a + 3] = "/"
      /\ Placed("userinfo", b) /\ Placed("host", u1)
      /\ Placed("path", c) /\ Placed("query", d1) /\ Placed("fragment", e1)
      /\ nq > 0 => q = 1
      /\ nf > 0 => h > 0
      /\ q = 1 => real_url[d + 1] = "?"
      /\ \A i \in 1 .. h : real_url[e + i] = "#"
      /\ e1 + nf = Len(real_url)
  <2>1. Placed("schema", 0) /\ real_url[a + 1] = ":" /\ real_url[a + 2] = "/" /\ real_url[a + 3] = "/"
    BY <1>0, <1>5 DEF SchemaSpan
  <2>2. Placed("userinfo", b) /\ Placed("host", u1)
    <3>1. Placed("userinfo", len["schema"] + 3) /\ Placed("host", len["schema"] + 3 + len["userinfo"] + at + v)
      BY <1>2 DEF HostSpan
    <3> QED BY <1>5, <3>1
  <2>3. LET d_ == limit + len["path"]
            k_ == d_ + q + len["query"]
        IN  /\ Placed("path", limit) /\ Placed("query", d_ + q) /\ Placed("fragment", k_ + h)
            /\ len["query"] > 0 => q = 1
            /\ len["fragment"] > 0 => h > 0
            /\ q = 1 => real_url[d_ + 1] = "?"
            /\ \A i \in 1 .. h : real_url[k_ + i] = "#"
            /\ Len(real_url) = k_ + h + len["fragment"]
    BY <1>3 DEF RestSpan
  <2>4. c = limit
    BY <1>6
  <2> HIDE DEF b, b1, u, u1, u2, k, k1, c
  <2>5. /\ Placed("path", c) /\ Placed("query", d1) /\ Placed("fragment", e1)
        /\ nq > 0 => q = 1
        /\ nf > 0 => h > 0
        /\ q = 1 => real_url[d + 1] = "?"
        /\ \A i \in 1 .. h : real_url[e + i] = "#"
        /\ e1 + nf = Len(real_url)
    BY <1>5, <2>3, <2>4
  <2> QED BY <2>1, <2>2, <2>5
<1>8. /\ a \in Nat /\ b \in Nat /\ b1 \in Nat /\ u \in Nat /\ u1 \in Nat /\ u2 \in Nat /\ k \in Nat
      /\ k1 \in Nat /\ c \in Nat /\ d \in Nat /\ d1 \in Nat /\ e \in Nat /\ e1 \in Nat
      /\ b <= Len(real_url) /\ b1 <= Len(real_url) /\ u <= Len(real_url) /\ u1 <= Len(real_url)
      /\ u2 <= Len(real_url) /\ k <= Len(real_url) /\ k1 <= Len(real_url) /\ c <= Len(real_url)
      /\ d <= Len(real_url) /\ d1 <= Len(real_url) /\ e <= Len(real_url) /\ e1 <= Len(real_url)
      /\ Len(real_url) \in Nat
  <2>1. Len(real_url) \in Nat
    BY <1>0
  <2> QED BY <1>7, <2>1
<1>9. Follows(0, a, Text("schema"))
  <2>1. a <= Len(real_url)
    BY <1>8
  <2>2. 0 \in Nat /\ 0 + len["schema"] = a
    BY <1>5
  <2> QED BY <1>0, <1>5, <1>7, <2>1, <2>2, TextNext
<1>10. Follows(a, b, <<":", "/", "/">>)
  <2> DEFINE x == <<":", "/", "/">>
  <2>1. x \in Seq(Char) /\ Len(x) = 3 /\ x[1] = ":" /\ x[2] = "/" /\ x[3] = "/"
    BY MarksAreChars
  <2>2. \A i \in 1 .. 3 : i = 1 \/ i = 2 \/ i = 3
    OBVIOUS
  <2> HIDE DEF x
  <2>3. \A i \in 1 .. 3 : real_url[a + i] = x[i]
    BY <1>7, <2>1, <2>2
  <2>4. Follows(a, b, x)
    BY <1>8, <2>1, <2>3 DEF Follows, Has
  <2> QED BY <2>4 DEF x
<1>11. Follows(b, b1, Text("userinfo"))
  BY <1>0, <1>5, <1>7, <1>8, TextNext
<1>12. Follows(b1, u, MarkIf(at, "@"))
  BY <1>0, <1>6, <1>8, MarkFollows, MarksAreChars
<1>13. Follows(u, u1, MarkIf(v, "["))
  BY <1>0, <1>6, <1>8, MarkFollows, MarksAreChars
<1>14. Follows(u1, u2, Text("host"))
  BY <1>0, <1>5, <1>7, <1>8, TextNext
<1>15. Follows(u2, k, MarkIf(v, "]"))
  BY <1>0, <1>6, <1>8, MarkFollows, MarksAreChars
<1>16. Follows(k, k1, MarkIf(colon, ":"))
  BY <1>0, <1>6, <1>8, MarkFollows, MarksAreChars
<1>17. Follows(k1, c, Text("port"))
  BY <1>0, <1>5, <1>6, <1>8, TextNext
<1>18. Follows(c, d, Text("path"))
  BY <1>0, <1>5, <1>7, <1>8, TextNext
<1>19. Follows(d, d1, MarkIf(q, "?"))
  BY <1>0, <1>7, <1>8, MarkFollows, MarksAreChars
<1>20. Follows(d1, e, Text("query"))
  BY <1>0, <1>5, <1>7, <1>8, TextNext
<1>21. Follows(e, e1, [i \in 1 .. h |-> "#"])
  <2> DEFINE x == [i \in 1 .. h |-> "#"]
  <2>1. x \in Seq(Char) /\ Len(x) = h /\ \A i \in 1 .. h : x[i] = "#"
    BY MarksAreChars
  <2> HIDE DEF x
  <2> QED BY <1>7, <1>8, <2>1 DEF Follows, Has
<1>22. Follows(e1, Len(real_url), Text("fragment"))
  <2>1. e1 + len["fragment"] = Len(real_url)
    BY <1>5, <1>7
  <2>2. e1 \in Nat /\ Placed("fragment", e1) /\ Len(real_url) \in Nat /\ Len(real_url) <= Len(real_url)
    BY <1>7, <1>8
  <2> HIDE DEF e1
  <2> QED BY <1>0, <2>1, <2>2, TextNext
<1> DEFINE x1 == Text("schema") \o <<":", "/", "/">>
           x2 == x1 \o Text("userinfo")
           x3 == x2 \o MarkIf(at, "@")
           y1 == MarkIf(v, "[") \o Text("host")
           y2 == y1 \o MarkIf(v, "]")
           x4 == x3 \o y2
           y3 == MarkIf(colon, ":") \o Text("port")
           x5 == x4 \o y3
           x6 == x5 \o Text("path")
           x7 == x6 \o MarkIf(q, "?")
           x8 == x7 \o Text("query")
           x9 == x8 \o [i \in 1 .. h |-> "#"]
           x10 == x9 \o Text("fragment")
<1>30. Follows(0, b, x1) BY <1>0, <1>8, <1>9, <1>10, FollowsOn
<1>31. Follows(0, b1, x2) BY <1>0, <1>8, <1>11, <1>30, FollowsOn DEF x2
<1>32. Follows(0, u, x3) BY <1>0, <1>8, <1>12, <1>31, FollowsOn DEF x3
<1>33. Follows(u, u2, y1) BY <1>0, <1>8, <1>13, <1>14, FollowsOn DEF y1
<1>34. Follows(u, k, y2) BY <1>0, <1>8, <1>15, <1>33, FollowsOn DEF y2
<1>35. Follows(0, k, x4) BY <1>0, <1>8, <1>32, <1>34, FollowsOn DEF x4
<1>36. Follows(k, c, y3) BY <1>0, <1>8, <1>16, <1>17, FollowsOn DEF y3
<1>37. Follows(0, c, x5) BY <1>0, <1>8, <1>35, <1>36, FollowsOn DEF x5
<1>38. Follows(0, d, x6) BY <1>0, <1>8, <1>18, <1>37, FollowsOn DEF x6
<1>39. Follows(0, d1, x7) BY <1>0, <1>8, <1>19, <1>38, FollowsOn DEF x7
<1>40. Follows(0, e, x8) BY <1>0, <1>8, <1>20, <1>39, FollowsOn DEF x8
<1>41. Follows(0, e1, x9) BY <1>0, <1>8, <1>21, <1>40, FollowsOn DEF x9
<1>42. Follows(0, Len(real_url), x10) BY <1>0, <1>8, <1>22, <1>41, FollowsOn DEF x10
<1>50. real_url = x10
  <2> DEFINE x == x10
  <2>1. x \in Seq(Char) /\ Len(x) = Len(real_url) /\ Has(real_url, 0, x)
    BY <1>8, <1>42 DEF Follows
  <2> HIDE DEF x
  <2>2. real_url = x
    BY <1>0, <2>1, HasAll
  <2> QED BY <2>2 DEF x
<1>51. Len(Text("userinfo")) = nu /\ Len(Text("port")) = np /\ Len(Text("query")) = nq /\ Len(Text("fragment")) = nf
  BY <1>0, <1>5, TextLen
<1>52. y2 = Bracketed(Text("host"), v = 1)
  <2>1. Text("host") \in Seq(Char)
    BY <1>14 DEF Follows
  <2> DEFINE x == Text("host")
  <2> HIDE DEF x
  <2>2. x \in Seq(Char) => <<>> \o x \o <<>> = x
    OBVIOUS
  <2>3. y2 = IF v = 1 THEN <<"[">> \o x \o <<"]">> ELSE <<>> \o x \o <<>>
    BY DEF MarkIf, x
  <2> QED BY <2>1, <2>2, <2>3 DEF Bracketed, x
<1>53. y3 = After(<<":">>, Text("port"))
  BY <1>4, <1>5, <1>51 DEF After, MarkIf
<1>54. /\ nu > 0 => at = 1
       /\ nq > 0 => q = 1
       /\ nf > 0 => h > 0
       /\ h \in 0 .. Len(real_url)
  BY <1>6, <1>7, <1>8
<1> DEFINE ats == MarkIf(at, "@")
           asks == MarkIf(q, "?")
<1>55. /\ ats \in {<<>>, <<"@">>} /\ asks \in {<<>>, <<"?">>} /\ (v = 1) \in BOOLEAN
       /\ Text("userinfo") # <<>> => ats # <<>>
       /\ Text("query") # <<>> => asks # <<>>
       /\ Text("fragment") # <<>> => h > 0
  <2>1. /\ Text("userinfo") # <<>> => nu > 0
        /\ Text("query") # <<>> => nq > 0
        /\ Text("fragment") # <<>> => nf > 0
    <3>1. Text("userinfo") \in Seq(Char) /\ Text("query") \in Seq(Char) /\ Text("fragment") \in Seq(Char)
      BY <1>11, <1>20, <1>22 DEF Follows
    <3>2. \A x \in Seq(Char) : x # <<>> => Len(x) > 0
      OBVIOUS
    <3> QED BY <1>51, <3>1, <3>2
  <2>2. <<"@">> # <<>> /\ <<"?">> # <<>>
    OBVIOUS
  <2>3. (at = 1 => ats = <<"@">>) /\ (q = 1 => asks = <<"?">>)
    BY DEF MarkIf
  <2>4. ats \in {<<>>, <<"@">>} /\ asks \in {<<>>, <<"?">>}
    BY DEF MarkIf
  <2> HIDE DEF ats, asks
  <2> QED BY <1>54, <2>1, <2>2, <2>3, <2>4
<1> QED
  <2>1. real_url = Text("schema") \o <<":", "/", "/">> \o Text("userinfo") \o ats
                     \o Bracketed(Text("host"), v = 1) \o After(<<":">>, Text("port"))
                     \o Text("path") \o asks \o Text("query")
                     \o [i \in 1 .. h |-> "#"] \o Text("fragment")
    BY <1>50, <1>52, <1>53
  <2> HIDE DEF ats, asks
  <2>2. \E mark \in {<<>>, <<"@">>}, v6 \in BOOLEAN, ask \in {<<>>, <<"?">>}, hashes \in 0 .. Len(real_url) :
          /\ Text("userinfo") # <<>> => mark # <<>>
          /\ Text("query") # <<>> => ask # <<>>
          /\ Text("fragment") # <<>> => hashes > 0
          /\ real_url = Text("schema") \o <<":", "/", "/">> \o Text("userinfo") \o mark
                          \o Bracketed(Text("host"), v6) \o After(<<":">>, Text("port"))
                          \o Text("path") \o ask \o Text("query")
                          \o [i \in 1 .. hashes |-> "#"] \o Text("fragment")
    <3>1. ats \in {<<>>, <<"@">>} /\ (v = 1) \in BOOLEAN /\ asks \in {<<>>, <<"?">>} /\ h \in 0 .. Len(real_url)
      BY <1>54, <1>55
    <3> USE <3>1
    <3> WITNESS ats \in {<<>>, <<"@">>}, (v = 1) \in BOOLEAN, asks \in {<<>>, <<"?">>}, h \in 0 .. Len(real_url)
    <3> QED BY <1>55, <2>1
  <2> QED BY <2>2, Zenon DEF SpelledAsRead

-----------------------------------------------------------------------------
(* A URL written from parts.  Where each part stands is known beforehand,   *)
(* and so are the states of the two scanners behind so many characters.     *)

One(part) == IF part = <<>> THEN 0 ELSE 1
V6(w) == IF ":" \in ToSet(w["host"]) THEN 1 ELSE 0
Part(w, f) == IF f = "schema" /\ w["schema"] = <<>> THEN <<"http">> ELSE w[f]

\* A part is what stands between From and To.
From(w, f) ==
  LET userinfo == Len(Part(w, "schema")) + 3
      host == userinfo + Len(w["userinfo"]) + One(w["userinfo"]) + V6(w)
      number == host + Len(w["host"]) + V6(w) + One(w["port"])
      path == number + Len(w["port"])
      query == path + Len(w["path"]) + One(w["query"])
  IN  CASE f = "schema" -> 0
        [] f = "userinfo" -> userinfo
        [] f = "host" -> host
        [] f = "port" -> number
        [] f = "path" -> path
        [] f = "query" -> query
        [] f = "fragment" -> query + Len(w["query"]) + One(w["fragment"])
To(w, f) == From(w, f) + Len(Part(w, f))

Layout(w, r) ==
  /\ Len(r) = To(w, "fragment")
  /\ \A f \in Field : Has(r, From(w, f), Part(w, f))
  /\ r[To(w, "schema") + 1] = ":" /\ r[To(w, "schema") + 2] = "/" /\ r[To(w, "schema") + 3] = "/"
  /\ w["userinfo"] # <<>> => r[To(w, "userinfo") + 1] = "@"
  /\ V6(w) = 1 => r[From(w, "host")] = "[" /\ r[To(w, "host") + 1] = "]"
  /\ w["port"] # <<>> => r[From(w, "port")] = ":"
  /\ w["query"] # <<>> => r[From(w, "query")] = "?"
  /\ w["fragment"] # <<>> => r[From(w, "fragment")] = "#"

\* The first scanner takes the host part for one field.
ScanFrom(w, f) == From(w, IF f = "host" THEN "userinfo" ELSE f)
ScanTo(w, f) == To(w, IF f = "host" THEN "port" ELSE f)
ScanAt(w, n) ==
  CASE n = 0 -> "s_req_spaces_before_url"
    [] n \in 1 .. To(w, "schema") -> "s_req_schema"
    [] n = To(w, "schema") + 1 -> "s_req_schema_slash"
    [] n = To(w, "schema") + 2 -> "s_req_schema_slash_slash"
    [] n = To(w, "schema") + 3 -> "s_req_server_start"
    [] n \in ScanFrom(w, "host") + 1 .. ScanTo(w, "host") ->
         IF n = To(w, "userinfo") + 1 /\ w["userinfo"] # <<>> THEN "s_req_server_with_at" ELSE "s_req_server"
    [] n \in From(w, "path") + 1 .. To(w, "path") -> "s_req_path"
    [] n = From(w, "query") /\ w["query"] # <<>> -> "s_req_query_string_start"
    [] n \in From(w, "query") + 1 .. To(w, "query") -> "s_req_query_string"
    [] n = From(w, "fragment") /\ w["fragment"] # <<>> -> "s_req_fragment_start"
    [] OTHER -> "s_req_fragment"

Zone(w) == CHOOSE z \in 1 .. Len(w["host"]) : IsV6(w["host"], z)
HostAt(w, n) ==
  LET h == From(w, "host")
      t == To(w, "host")
  IN  CASE n = From(w, "userinfo") /\ w["userinfo"] # <<>> -> "s_http_userinfo_start"
        [] n \in From(w, "userinfo") + 1 .. To(w, "userinfo") -> "s_http_userinfo"
        [] n = h - V6(w) -> "s_http_host_start"
        [] V6(w) = 0 /\ n \in h + 1 .. t -> "s_http_host"
        [] V6(w) = 1 /\ n = h -> "s_http_host_v6_start"
        [] V6(w) = 1 /\ n \in h + 1 .. h + Zone(w) -> "s_http_host_v6"
        [] V6(w) = 1 /\ n = h + Zone(w) + 1 /\ n <= t -> "s_http_host_v6_zone_start"
        [] V6(w) = 1 /\ n \in h + Zone(w) + 2 .. t -> "s_http_host_v6_zone"
        [] V6(w) = 1 /\ n = t + 1 -> "s_http_host_v6_end"
        [] n = From(w, "port") /\ w["port"] # <<>> -> "s_http_host_port_start"
        [] OTHER -> "s_http_host_port"

\* What there is between two places among the first n characters.
Within(n, from, to) == IF n <= from THEN 0 ELSE IF n <= to THEN n - from ELSE to - from

InScan == {"schema", "host", "path", "query", "fragment"}
ScanReads(w) ==
  /\ s = ScanAt(w, p)
  /\ found_at <=> w["userinfo"] # <<>> /\ p > To(w, "userinfo")
  /\ \A f \in InScan : len[f] = Within(p, ScanFrom(w, f), ScanTo(w, f)) /\ Placed(f, ScanFrom(w, f))

InHost == {"userinfo", "host", "port"}
HostReads(w) ==
  /\ limit = To(w, "port") /\ p \in From(w, "userinfo") .. limit
  /\ s = HostAt(w, p)
  /\ \A f \in InHost : len[f] = Within(p, From(w, f), To(w, f)) /\ Placed(f, From(w, f))
  /\ \A f \in Field \ InHost : len[f] = Len(Part(w, f)) /\ Placed(f, From(w, f))

\* What is so while a URL written from w is read.
ReadsAs(w) ==
  /\ stage # "none" => Layout(w, real_url)
  /\ stage = "scan" => ScanReads(w)
  /\ stage = "host" => HostReads(w)
  /\ stage \in {"parsed", "copied"} =>
       \A f \in Field : len[f] = Len(Part(w, f)) /\ Placed(f, From(w, f))
  /\ stage = "copied" =>
       /\ \A f \in Field : text[f] = Part(w, f)
       /\ w["port"] # <<>> => port = Number(w["port"])
  /\ stage # "invalid"

\* All of that, for whatever parts the URL was written from.
ReadInv ==
  /\ stage = "none" => ~found_at /\ given.written = {}
  /\ stage # "copied" => text = [f \in Field |-> <<>>]
  /\ given.written \subseteq Parts
  /\ \A w \in given.written : Fits(w) => ReadsAs(w)

LEMMA CharsApart ==
  /\ Letter \subseteq Alnum /\ Digit \subseteq Alnum /\ Hex \subseteq Alnum /\ Alnum \subseteq HostChar
  /\ HostChar \subseteq ZoneChar /\ ZoneChar \subseteq UserinfoChar /\ UserinfoChar \subseteq UrlChar
  /\ UrlChar \subseteq Char
  /\ {".", "-", "%", ":"} \subseteq UserinfoChar /\ {"/", "@", "[", "]"} \subseteq UrlChar
  /\ {"/", "@", "[", "]", "?", "#"} \cap UserinfoChar = {} /\ {"?", "#"} \cap UrlChar = {}
  /\ {":", "]", "@", "["} \cap ZoneChar = {} /\ {"]", "%"} \cap (Hex \cup {":", "."}) = {}
  /\ {":", "%"} \cap HostChar = {} /\ {".", "-", ":"} \cap Alnum = {} /\ "%" \in ZoneChar
BY CharAssumption DEF Alnum, Hex, HostChar, ZoneChar, UserinfoChar, UrlChar, Char

LEMMA V6Is ==
  ASSUME NEW w \in Parts
  PROVE  /\ V6(w) \in 0 .. 1
         /\ V6(w) = 0 => IsName(w["host"])
         /\ V6(w) = 1 => Zone(w) \in 1 .. Len(w["host"]) /\ IsV6(w["host"], Zone(w))
<1> DEFINE h == w["host"]
<1>1. h \in Seq(Char) /\ (IsName(h) \/ \E z \in 1 .. Len(h) : IsV6(h, z))
  BY DEF Parts, WellFormed, Field
<1>2. \A z \in 1 .. Len(h) : IsV6(h, z) => ":" \in ToSet(h)
  BY DEF IsV6
<1>3. IsName(h) => ":" \notin ToSet(h)
  <2> SUFFICES ASSUME IsName(h), ":" \in ToSet(h) PROVE FALSE
    OBVIOUS
  <2>1. PICK i \in DOMAIN h : h[i] = ":"
    BY DEF ToSet
  <2>2. h \in Seq(HostChar) /\ ":" \notin HostChar
    BY CharsApart DEF IsName
  <2> HIDE DEF h
  <2> QED BY <2>1, <2>2
<1> QED BY <1>1, <1>2, <1>3 DEF V6, Zone

LEMMA PartIsSeq ==
  ASSUME NEW w \in Parts, NEW f \in Field
  PROVE  Part(w, f) \in Seq(Char) /\ Len(Part(w, f)) \in Nat /\ w[f] \in Seq(Char)
<1>1. "http" \in Char
  BY CharAssumption, CharsApart
<1>2. w[f] \in Seq(Char)
  BY DEF Parts
<1>3. Part(w, f) \in Seq(Char)
  <2>1. <<"http">> \in Seq(Char)
    BY <1>1
  <2> QED BY <1>2, <2>1 DEF Part
<1> QED BY <1>2, <1>3

\* The parts one after the other.
LEMMA Order ==
  ASSUME NEW w \in Parts
  PROVE  /\ \A f \in Field : From(w, f) \in Nat /\ To(w, f) \in Nat /\ From(w, f) <= To(w, f)
         /\ From(w, "schema") = 0 /\ To(w, "schema") > 0
         /\ From(w, "userinfo") = To(w, "schema") + 3
         /\ From(w, "host") = To(w, "userinfo") + One(w["userinfo"]) + V6(w)
         /\ To(w, "host") > From(w, "host")
         /\ From(w, "port") = To(w, "host") + V6(w) + One(w["port"])
         /\ From(w, "path") = To(w, "port")
         /\ From(w, "query") = To(w, "path") + One(w["query"])
         /\ From(w, "fragment") = To(w, "query") + One(w["fragment"])
         /\ \A f \in Field : One(w[f]) \in 0 .. 1
         /\ \A f \in Field \ {"schema"} :
              /\ To(w, f) = From(w, f) + Len(w[f])
              /\ w[f] = <<>> => One(w[f]) = 0 /\ From(w, f) = To(w, f)
              /\ w[f] # <<>> => One(w[f]) = 1 /\ From(w, f) < To(w, f)
<1>1. \A f \in Field : /\ Len(w[f]) \in Nat /\ One(w[f]) \in 0 .. 1 /\ Len(Part(w, f)) \in Nat
                       /\ f # "schema" => Part(w, f) = w[f]
                       /\ w[f] = <<>> => One(w[f]) = 0 /\ Len(w[f]) = 0
                       /\ w[f] # <<>> => One(w[f]) = 1 /\ Len(w[f]) > 0
  <2> SUFFICES ASSUME NEW f \in Field
               PROVE  /\ Len(w[f]) \in Nat /\ One(w[f]) \in 0 .. 1 /\ Len(Part(w, f)) \in Nat
                      /\ f # "schema" => Part(w, f) = w[f]
                      /\ w[f] = <<>> => One(w[f]) = 0 /\ Len(w[f]) = 0
                      /\ w[f] # <<>> => One(w[f]) = 1 /\ Len(w[f]) > 0
    OBVIOUS
  <2>1. w[f] \in Seq(Char) /\ Len(Part(w, f)) \in Nat
    BY PartIsSeq
  <2>2. \A x \in Seq(Char) : Len(x) \in Nat /\ (x # <<>> => Len(x) > 0) /\ (x = <<>> => Len(x) = 0)
    OBVIOUS
  <2> QED BY <2>1, <2>2 DEF One, Part
<1>2. {"schema", "userinfo", "host", "port", "path", "query", "fragment"} = Field
  BY DEF Field
<1>3. V6(w) \in 0 .. 1
  BY V6Is
<1>4. Len(Part(w, "schema")) > 0
  <2>1. Len(<<"http">>) = 1
    OBVIOUS
  <2> QED BY <1>1, <1>2, <2>1 DEF Part
<1>5. w["host"] # <<>>
  BY V6Is DEF IsName
<1>6. PICK a \in Nat, nu \in Nat, nh \in Nat, np \in Nat, nd \in Nat, nq \in Nat, nf \in Nat :
        /\ a = Len(Part(w, "schema")) /\ nu = Len(w["userinfo"]) /\ nh = Len(w["host"])
        /\ np = Len(w["port"]) /\ nd = Len(w["path"]) /\ nq = Len(w["query"]) /\ nf = Len(w["fragment"])
  BY <1>1, <1>2
<1>7. PICK at \in 0 .. 1, v \in 0 .. 1, colon \in 0 .. 1, ask \in 0 .. 1, hash \in 0 .. 1 :
        /\ at = One(w["userinfo"]) /\ v = V6(w) /\ colon = One(w["port"]) /\ ask = One(w["query"])
        /\ hash = One(w["fragment"])
  BY <1>1, <1>2, <1>3
<1> DEFINE u == a + 3 + nu + at + v
           k == u + nh + v + colon
           d == k + np + nd + ask
<1>8. /\ From(w, "schema") = 0 /\ From(w, "userinfo") = a + 3 /\ From(w, "host") = u
      /\ From(w, "port") = k /\ From(w, "path") = k + np /\ From(w, "query") = d
      /\ From(w, "fragment") = d + nq + hash
  BY <1>6, <1>7 DEF From
<1>9. /\ To(w, "schema") = a /\ To(w, "userinfo") = a + 3 + nu /\ To(w, "host") = u + nh
      /\ To(w, "port") = k + np /\ To(w, "path") = k + np + nd /\ To(w, "query") = d + nq
      /\ To(w, "fragment") = d + nq + hash + nf
  <2>1. /\ To(w, "schema") = From(w, "schema") + a /\ To(w, "userinfo") = From(w, "userinfo") + nu
        /\ To(w, "host") = From(w, "host") + nh /\ To(w, "port") = From(w, "port") + np
        /\ To(w, "path") = From(w, "path") + nd /\ To(w, "query") = From(w, "query") + nq
        /\ To(w, "fragment") = From(w, "fragment") + nf
    BY <1>1, <1>2, <1>6 DEF To
  <2> QED BY <1>8, <2>1
<1>10. nh > 0 /\ a > 0
  BY <1>1, <1>2, <1>4, <1>5, <1>6
<1>11. \A f \in Field : From(w, f) \in Nat /\ To(w, f) \in Nat /\ From(w, f) <= To(w, f)
  BY <1>2, <1>8, <1>9
<1>12. /\ From(w, "host") = To(w, "userinfo") + One(w["userinfo"]) + V6(w)
       /\ From(w, "port") = To(w, "host") + V6(w) + One(w["port"])
       /\ From(w, "query") = To(w, "path") + One(w["query"])
       /\ From(w, "fragment") = To(w, "query") + One(w["fragment"])
       /\ From(w, "userinfo") = To(w, "schema") + 3 /\ From(w, "path") = To(w, "port")
       /\ To(w, "host") > From(w, "host")
  BY <1>7, <1>8, <1>9, <1>10
<1>13. ASSUME NEW f \in Field \ {"schema"}
       PROVE  /\ To(w, f) = From(w, f) + Len(w[f])
              /\ w[f] = <<>> => One(w[f]) = 0 /\ From(w, f) = To(w, f)
              /\ w[f] # <<>> => One(w[f]) = 1 /\ From(w, f) < To(w, f)
  <2>1. To(w, f) = From(w, f) + Len(w[f])
    BY <1>1 DEF To
  <2> QED BY <1>1, <1>11, <2>1
<1>14. \A f \in Field : One(w[f]) \in 0 .. 1
  BY <1>1
<1> QED BY <1>8, <1>9, <1>10, <1>11, <1>12, <1>13, <1>14

LEMMA HasAt ==
  ASSUME NEW r, NEW c \in Nat, NEW x, Has(r, c, x), NEW n \in c .. c + Len(x) - 1, Len(x) \in Nat
  PROVE  r[n + 1] = x[n + 1 - c] /\ n + 1 - c \in 1 .. Len(x)
<1>1. PICK i \in 1 .. Len(x) : c + i = n + 1 /\ i = n + 1 - c
  OBVIOUS
<1>2. r[c + i] = x[i]
  BY <1>1 DEF Has
<1>3. c + i <= Len(r) 
  BY <1>1 DEF Has
<1> QED BY <1>1, <1>2

\* What the scanners meet behind n characters.
LEMMA PartLetters ==
  ASSUME NEW w \in Parts, NEW r \in Seq(Char), Layout(w, r), NEW n \in Nat
  PROVE  /\ n \in From(w, "schema") .. To(w, "schema") - 1 => r[n + 1] \in Letter
         /\ n \in From(w, "userinfo") .. To(w, "userinfo") - 1 => r[n + 1] \in UserinfoChar
         /\ n \in From(w, "port") .. To(w, "port") - 1 => r[n + 1] \in Digit
         /\ n \in From(w, "path") .. To(w, "path") - 1 => r[n + 1] \in UrlChar
         /\ n = From(w, "path") /\ n < To(w, "path") => r[n + 1] = "/"
         /\ n \in From(w, "query") .. To(w, "query") - 1 => r[n + 1] \in UrlChar \cup {"?"}
         /\ n \in From(w, "fragment") .. To(w, "fragment") - 1 => r[n + 1] \in UrlChar \cup {"?"}
         /\ n \in From(w, "host") .. To(w, "host") - 1 =>
              r[n + 1] = w["host"][n + 1 - From(w, "host")] /\ n + 1 - From(w, "host") \in 1 .. Len(w["host"])
<1>1. \A f \in Field : n \in From(w, f) .. To(w, f) - 1 =>
        r[n + 1] = Part(w, f)[n + 1 - From(w, f)] /\ n + 1 - From(w, f) \in 1 .. Len(Part(w, f))
  <2> SUFFICES ASSUME NEW f \in Field, n \in From(w, f) .. To(w, f) - 1
               PROVE  r[n + 1] = Part(w, f)[n + 1 - From(w, f)] /\ n + 1 - From(w, f) \in 1 .. Len(Part(w, f))
    OBVIOUS
  <2>1. From(w, f) \in Nat /\ Len(Part(w, f)) \in Nat /\ Has(r, From(w, f), Part(w, f))
    BY Order, PartIsSeq DEF Layout
  <2>2. n \in From(w, f) .. From(w, f) + Len(Part(w, f)) - 1
    BY <2>1 DEF To
  <2> QED BY <2>1, <2>2, HasAt
<1>2. {"schema", "userinfo", "host", "port", "path", "query", "fragment"} = Field
  BY DEF Field
<1>3. \A f \in Field \ {"schema"} : Part(w, f) = w[f]
  BY DEF Part
<1>4. /\ Part(w, "schema") \in Seq(Letter) /\ w["userinfo"] \in Seq(UserinfoChar)
      /\ w["port"] \in Seq(Digit) /\ w["path"] \in Seq(UrlChar)
      /\ w["path"] # <<>> => w["path"][1] = "/"
      /\ w["query"] \in Seq(UrlChar \cup {"?"}) /\ w["fragment"] \in Seq(UrlChar \cup {"?"})
  <2>1. WellFormed(w)
    BY DEF Parts
  <2>2. <<"http">> \in Seq(Letter)
    <3>1. "http" \in Letter
      BY CharAssumption
    <3> QED BY <3>1
  <2>3. Part(w, "schema") \in Seq(Letter)
    BY <2>1, <2>2 DEF WellFormed, Part
  <2>4. w["query"] \in Seq(UrlChar \cup {"?"}) /\ w["fragment"] \in Seq(UrlChar \cup {"?"})
    <3>1. {w["query"], w["fragment"]} \subseteq Seq(UrlChar \cup {"?"})
      BY <2>1 DEF WellFormed
    <3> QED BY <3>1
  <2>5. /\ w["userinfo"] \in Seq(UserinfoChar) /\ w["port"] \in Seq(Digit) /\ w["path"] \in Seq(UrlChar)
        /\ w["path"] # <<>> => w["path"][1] = "/"
    BY <2>1 DEF WellFormed
  <2> QED BY <2>3, <2>4, <2>5
<1>5. n = From(w, "path") /\ n < To(w, "path") => r[n + 1] = "/"
  <2> SUFFICES ASSUME n = From(w, "path"), n < To(w, "path") PROVE r[n + 1] = "/"
    OBVIOUS
  <2>1. n + 1 - From(w, "path") = 1 /\ w["path"] # <<>> /\ n \in From(w, "path") .. To(w, "path") - 1
    <3>1. From(w, "path") \in Nat /\ To(w, "path") \in Nat /\ (w["path"] = <<>> => From(w, "path") = To(w, "path"))
      BY <1>2, Order
    <3> QED BY <3>1
  <2>2. "path" \in Field /\ Part(w, "path") = w["path"]
    BY <1>2, <1>3
  <2>3. r[n + 1] = w["path"][1]
    BY <1>1, <2>1, <2>2
  <2> QED BY <1>4, <2>1, <2>3
<1>6. /\ n \in From(w, "schema") .. To(w, "schema") - 1 => r[n + 1] \in Letter
      /\ n \in From(w, "userinfo") .. To(w, "userinfo") - 1 => r[n + 1] \in UserinfoChar
      /\ n \in From(w, "port") .. To(w, "port") - 1 => r[n + 1] \in Digit
      /\ n \in From(w, "path") .. To(w, "path") - 1 => r[n + 1] \in UrlChar
      /\ n \in From(w, "query") .. To(w, "query") - 1 => r[n + 1] \in UrlChar \cup {"?"}
      /\ n \in From(w, "fragment") .. To(w, "fragment") - 1 => r[n + 1] \in UrlChar \cup {"?"}
  <2>1. \A S, x : x \in Seq(S) => \A i \in 1 .. Len(x) : x[i] \in S
    OBVIOUS
  <2>2. /\ \A i \in 1 .. Len(Part(w, "schema")) : Part(w, "schema")[i] \in Letter
        /\ \A i \in 1 .. Len(w["userinfo"]) : w["userinfo"][i] \in UserinfoChar
        /\ \A i \in 1 .. Len(w["port"]) : w["port"][i] \in Digit
        /\ \A i \in 1 .. Len(w["path"]) : w["path"][i] \in UrlChar
        /\ \A i \in 1 .. Len(w["query"]) : w["query"][i] \in UrlChar \cup {"?"}
        /\ \A i \in 1 .. Len(w["fragment"]) : w["fragment"][i] \in UrlChar \cup {"?"}
    BY <1>4
  <2>3. \A f \in Field \ {"schema"} : n \in From(w, f) .. To(w, f) - 1 =>
          r[n + 1] = w[f][n + 1 - From(w, f)] /\ n + 1 - From(w, f) \in 1 .. Len(w[f])
    BY <1>1, <1>3
  <2> QED BY <1>1, <1>2, <2>2, <2>3
<1>7. n \in From(w, "host") .. To(w, "host") - 1 =>
        r[n + 1] = w["host"][n + 1 - From(w, "host")] /\ n + 1 - From(w, "host") \in 1 .. Len(w["host"])
  <2>1. "host" \in Field /\ Part(w, "host") = w["host"]
    BY <1>2, <1>3
  <2> QED BY <1>1, <2>1
<1> QED BY <1>5, <1>6, <1>7

LEMMA HostLetters ==
  ASSUME NEW w \in Parts, NEW i \in 1 .. Len(w["host"])
  PROVE  w["host"][i] \in UserinfoChar
<1>1. PICK h \in Seq(Char) : h = w["host"]
  BY DEF Parts, Field
<1>2. i \in 1 .. Len(h) /\ Len(h) \in Nat
  BY <1>1
<1>3. CASE V6(w) = 0
  <2>1. h \in Seq(HostChar)
    BY <1>1, <1>3, V6Is DEF IsName
  <2>2. h[i] \in HostChar
    BY <1>2, <2>1
  <2> QED BY <1>1, <2>2, CharsApart
<1>4. CASE V6(w) = 1
  <2>1. PICK z \in 1 .. Len(h) : IsV6(h, z)
    BY <1>1, <1>4, V6Is
  <2>2. /\ \A j \in 1 .. z : h[j] \in Hex \cup {":", "."}
        /\ z < Len(h) => h[z + 1] = "%" /\ \A j \in z + 2 .. Len(h) : h[j] \in ZoneChar
    BY <2>1 DEF IsV6
  <2>3. CASE i \in 1 .. z
    <3>1. h[i] \in Hex \cup {":", "."}
      BY <2>2, <2>3
    <3> QED BY <1>1, <3>1, CharsApart
  <2>4. CASE i = z + 1
    BY <1>1, <1>2, <2>1, <2>2, <2>4, CharsApart
  <2>5. CASE i \in z + 2 .. Len(h)
    <3>1. h[i] \in ZoneChar
      BY <1>2, <2>1, <2>2, <2>5
    <3> QED BY <1>1, <3>1, CharsApart
  <2> QED BY <1>2, <2>3, <2>4, <2>5
<1> QED BY <1>3, <1>4, V6Is

\* Which places are the same, and which are apart.
LEMMA Chain ==
  ASSUME NEW w \in Parts
  PROVE  /\ To(w, "schema") \in Nat /\ From(w, "userinfo") \in Nat /\ To(w, "userinfo") \in Nat
         /\ From(w, "host") \in Nat /\ To(w, "host") \in Nat /\ From(w, "port") \in Nat
         /\ From(w, "path") \in Nat /\ To(w, "path") \in Nat /\ From(w, "query") \in Nat
         /\ To(w, "query") \in Nat /\ From(w, "fragment") \in Nat /\ To(w, "fragment") \in Nat
         /\ From(w, "schema") = 0 /\ To(w, "schema") > 0 /\ From(w, "userinfo") = To(w, "schema") + 3
         /\ To(w, "port") = From(w, "path") /\ From(w, "host") < To(w, "host")
         /\ w["userinfo"] = <<>> => /\ To(w, "userinfo") = From(w, "userinfo")
                                    /\ From(w, "host") = To(w, "userinfo") + V6(w)
         /\ w["userinfo"] # <<>> => /\ To(w, "userinfo") > From(w, "userinfo")
                                    /\ From(w, "host") = To(w, "userinfo") + 1 + V6(w)
         /\ w["port"] = <<>> => From(w, "port") = To(w, "host") + V6(w) /\ From(w, "path") = From(w, "port")
         /\ w["port"] # <<>> => From(w, "port") = To(w, "host") + V6(w) + 1 /\ From(w, "path") > From(w, "port")
         /\ w["path"] = <<>> => To(w, "path") = From(w, "path")
         /\ w["path"] # <<>> => To(w, "path") > From(w, "path")
         /\ w["query"] = <<>> => From(w, "query") = To(w, "path") /\ To(w, "query") = From(w, "query")
         /\ w["query"] # <<>> => From(w, "query") = To(w, "path") + 1 /\ To(w, "query") > From(w, "query")
         /\ w["fragment"] = <<>> => From(w, "fragment") = To(w, "query") /\ To(w, "fragment") = From(w, "fragment")
         /\ w["fragment"] # <<>> => From(w, "fragment") = To(w, "query") + 1 /\ To(w, "fragment") > From(w, "fragment")
         /\ V6(w) \in 0 .. 1
<1>1. {"schema", "userinfo", "host", "port", "path", "query", "fragment"} = Field
  BY DEF Field
<1>2. \A f \in Field : From(w, f) \in Nat /\ To(w, f) \in Nat
  BY Order
<1>3. /\ From(w, "schema") = 0 /\ To(w, "schema") > 0
      /\ From(w, "userinfo") = To(w, "schema") + 3
      /\ From(w, "host") = To(w, "userinfo") + One(w["userinfo"]) + V6(w)
      /\ To(w, "host") > From(w, "host")
      /\ From(w, "port") = To(w, "host") + V6(w) + One(w["port"])
      /\ From(w, "path") = To(w, "port")
      /\ From(w, "query") = To(w, "path") + One(w["query"])
      /\ From(w, "fragment") = To(w, "query") + One(w["fragment"])
  BY Order
<1>4. \A f \in Field \ {"schema"} :
        /\ w[f] = <<>> => One(w[f]) = 0 /\ From(w, f) = To(w, f)
        /\ w[f] # <<>> => One(w[f]) = 1 /\ From(w, f) < To(w, f)
  BY Order
<1>5. V6(w) \in 0 .. 1
  BY V6Is
<1>6. /\ w["userinfo"] = <<>> => One(w["userinfo"]) = 0 /\ From(w, "userinfo") = To(w, "userinfo")
      /\ w["userinfo"] # <<>> => One(w["userinfo"]) = 1 /\ From(w, "userinfo") < To(w, "userinfo")
      /\ w["port"] = <<>> => One(w["port"]) = 0 /\ From(w, "port") = To(w, "port")
      /\ w["port"] # <<>> => One(w["port"]) = 1 /\ From(w, "port") < To(w, "port")
      /\ w["path"] = <<>> => One(w["path"]) = 0 /\ From(w, "path") = To(w, "path")
      /\ w["path"] # <<>> => One(w["path"]) = 1 /\ From(w, "path") < To(w, "path")
      /\ w["query"] = <<>> => One(w["query"]) = 0 /\ From(w, "query") = To(w, "query")
      /\ w["query"] # <<>> => One(w["query"]) = 1 /\ From(w, "query") < To(w, "query")
      /\ w["fragment"] = <<>> => One(w["fragment"]) = 0 /\ From(w, "fragment") = To(w, "fragment")
      /\ w["fragment"] # <<>> => One(w["fragment"]) = 1 /\ From(w, "fragment") < To(w, "fragment")
  BY <1>1, <1>4
<1>7. /\ To(w, "schema") \in Nat /\ From(w, "userinfo") \in Nat /\ To(w, "userinfo") \in Nat
      /\ From(w, "host") \in Nat /\ To(w, "host") \in Nat /\ From(w, "port") \in Nat
      /\ From(w, "path") \in Nat /\ To(w, "path") \in Nat /\ From(w, "query") \in Nat
      /\ To(w, "query") \in Nat /\ From(w, "fragment") \in Nat /\ To(w, "fragment") \in Nat
  BY <1>1, <1>2
<1>8. /\ From(w, "path") = To(w, "port")
      /\ w["userinfo"] = <<>> => /\ To(w, "userinfo") = From(w, "userinfo")
                                 /\ From(w, "host") = To(w, "userinfo") + V6(w)
      /\ w["userinfo"] # <<>> => /\ To(w, "userinfo") > From(w, "userinfo")
                                 /\ From(w, "host") = To(w, "userinfo") + 1 + V6(w)
  BY <1>3, <1>5, <1>6, <1>7
<1>9. /\ w["port"] = <<>> => From(w, "port") = To(w, "host") + V6(w) /\ From(w, "path") = From(w, "port")
      /\ w["port"] # <<>> => From(w, "port") = To(w, "host") + V6(w) + 1 /\ From(w, "path") > From(w, "port")
  BY <1>3, <1>5, <1>6, <1>7
<1>10. /\ w["path"] = <<>> => To(w, "path") = From(w, "path")
       /\ w["path"] # <<>> => To(w, "path") > From(w, "path")
  BY <1>3, <1>6, <1>7
<1>11. /\ w["query"] = <<>> => From(w, "query") = To(w, "path") /\ To(w, "query") = From(w, "query")
       /\ w["query"] # <<>> => From(w, "query") = To(w, "path") + 1 /\ To(w, "query") > From(w, "query")
  BY <1>3, <1>6, <1>7
<1>12. /\ w["fragment"] = <<>> => From(w, "fragment") = To(w, "query") /\ To(w, "fragment") = From(w, "fragment")
       /\ w["fragment"] # <<>> => From(w, "fragment") = To(w, "query") + 1 /\ To(w, "fragment") > From(w, "fragment")
  BY <1>3, <1>6, <1>7
<1> QED BY <1>3, <1>5, <1>7, <1>8, <1>9, <1>10, <1>11, <1>12

\* The state of the first scanner behind n characters, by the place.
LEMMA ScanPlaces ==
  ASSUME NEW w \in Parts, NEW n \in 0 .. To(w, "fragment")
  PROVE  /\ n = 0 => ScanAt(w, n) = "s_req_spaces_before_url"
         /\ n \in 1 .. To(w, "schema") => ScanAt(w, n) = "s_req_schema"
         /\ n = To(w, "schema") + 1 => ScanAt(w, n) = "s_req_schema_slash"
         /\ n = To(w, "schema") + 2 => ScanAt(w, n) = "s_req_schema_slash_slash"
         /\ n = From(w, "userinfo") => ScanAt(w, n) = "s_req_server_start"
         /\ n \in From(w, "userinfo") + 1 .. From(w, "path") =>
              ScanAt(w, n) = IF n = To(w, "userinfo") + 1 /\ w["userinfo"] # <<>>
                             THEN "s_req_server_with_at" ELSE "s_req_server"
         /\ n \in From(w, "path") + 1 .. To(w, "path") => ScanAt(w, n) = "s_req_path"
         /\ n = From(w, "query") /\ w["query"] # <<>> => ScanAt(w, n) = "s_req_query_string_start"
         /\ n \in From(w, "query") + 1 .. To(w, "query") => ScanAt(w, n) = "s_req_query_string"
         /\ n = From(w, "fragment") /\ w["fragment"] # <<>> => ScanAt(w, n) = "s_req_fragment_start"
         /\ n \in From(w, "fragment") + 1 .. To(w, "fragment") => ScanAt(w, n) = "s_req_fragment"
<1> DEFINE a == To(w, "schema")
           b == From(w, "userinfo")
           b1 == To(w, "userinfo")
           u == From(w, "host")
           t == To(w, "host")
           k == From(w, "port")
           c == From(w, "path")
           d == To(w, "path")
           d1 == From(w, "query")
           e == To(w, "query")
           e1 == From(w, "fragment")
           z == To(w, "fragment")
           at == w["userinfo"] # <<>>
           colon == w["port"] # <<>>
           path == w["path"] # <<>>
           ask == w["query"] # <<>>
           hash == w["fragment"] # <<>>
           v == V6(w)
<1>1. /\ a \in Nat /\ b \in Nat /\ b1 \in Nat /\ u \in Nat /\ t \in Nat /\ k \in Nat /\ c \in Nat /\ d \in Nat
      /\ d1 \in Nat /\ e \in Nat /\ e1 \in Nat /\ z \in Nat
      /\ a > 0 /\ b = a + 3 /\ u < t /\ To(w, "port") = c /\ From(w, "schema") = 0
  BY Chain
<1>2. /\ ~at => b1 = b /\ u = b1 + v
      /\ at => b1 > b /\ u = b1 + 1 + v
      /\ ~colon => k = t + v /\ c = k
      /\ colon => k = t + v + 1 /\ c > k
      /\ ~path => d = c
      /\ path => d > c
      /\ ~ask => d1 = d /\ e = d1
      /\ ask => d1 = d + 1 /\ e > d1
      /\ ~hash => e1 = e /\ z = e1
      /\ hash => e1 = e + 1 /\ z > e1
      /\ v \in 0 .. 1
  BY Chain
<1>3. ScanAt(w, n) =
        CASE n = 0 -> "s_req_spaces_before_url"
          [] n \in 1 .. a -> "s_req_schema"
          [] n = a + 1 -> "s_req_schema_slash"
          [] n = a + 2 -> "s_req_schema_slash_slash"
          [] n = a + 3 -> "s_req_server_start"
          [] n \in b + 1 .. c -> IF n = b1 + 1 /\ at THEN "s_req_server_with_at" ELSE "s_req_server"
          [] n \in c + 1 .. d -> "s_req_path"
          [] n = d1 /\ ask -> "s_req_query_string_start"
          [] n \in d1 + 1 .. e -> "s_req_query_string"
          [] n = e1 /\ hash -> "s_req_fragment_start"
          [] OTHER -> "s_req_fragment"
  BY <1>1 DEF ScanAt, ScanFrom, ScanTo
<1> HIDE DEF a, b, b1, u, t, k, c, d, d1, e, e1, z, at, colon, path, ask, hash, v
<1>4. n \in 0 .. z
  BY DEF z
<1>5. /\ b <= c /\ c <= d /\ d <= d1 /\ d1 <= e /\ e <= e1 /\ e1 <= z
      /\ ask => d < d1
      /\ hash => e < e1
  BY <1>1, <1>2
<1>6. n = 0 => ScanAt(w, n) = "s_req_spaces_before_url"
  BY <1>1, <1>3, <1>4, <1>5
<1>7. n \in 1 .. a => ScanAt(w, n) = "s_req_schema"
  BY <1>1, <1>3, <1>4, <1>5
<1>8. n = a + 1 => ScanAt(w, n) = "s_req_schema_slash"
  BY <1>1, <1>3, <1>4, <1>5
<1>9. n = a + 2 => ScanAt(w, n) = "s_req_schema_slash_slash"
  BY <1>1, <1>3, <1>4, <1>5
<1>10. n = b => ScanAt(w, n) = "s_req_server_start"
  BY <1>1, <1>3, <1>4, <1>5
<1>11. n \in b + 1 .. c => ScanAt(w, n) = IF n = b1 + 1 /\ at THEN "s_req_server_with_at" ELSE "s_req_server"
  BY <1>1, <1>3, <1>4, <1>5
<1>12. n \in c + 1 .. d => ScanAt(w, n) = "s_req_path"
  BY <1>1, <1>3, <1>4, <1>5
<1>13. n = d1 /\ ask => ScanAt(w, n) = "s_req_query_string_start"
  BY <1>1, <1>3, <1>4, <1>5
<1>14. n \in d1 + 1 .. e => ScanAt(w, n) = "s_req_query_string"
  BY <1>1, <1>3, <1>4, <1>5
<1>15. n = e1 /\ hash => ScanAt(w, n) = "s_req_fragment_start"
  BY <1>1, <1>3, <1>4, <1>5
<1>16. n \in e1 + 1 .. z => ScanAt(w, n) = "s_req_fragment"
  BY <1>1, <1>3, <1>4, <1>5
<1> QED BY <1>1, <1>6, <1>7, <1>8, <1>9, <1>10, <1>11, <1>12, <1>13, <1>14, <1>15, <1>16 DEF a, b, b1, c, d, d1, e, e1, z, at, ask, hash

\* The first scanner goes on from every place to the next.
LEMMA ScanGoes ==
  ASSUME NEW w \in Parts, NEW r \in Seq(Char), Layout(w, r), NEW n \in 0 .. Len(r) - 1,
         w["fragment"] # <<>> => w["path"] # <<>> \/ w["query"] # <<>>
  PROVE  parse_url_char(ScanAt(w, n), r[n + 1]) = ScanAt(w, n + 1)
<1> USE DEF Server, Query, Fragment
<1> DEFINE a == To(w, "schema")
           b == From(w, "userinfo")
           b1 == To(w, "userinfo")
           u == From(w, "host")
           t == To(w, "host")
           k == From(w, "port")
           c == From(w, "path")
           d == To(w, "path")
           d1 == From(w, "query")
           e == To(w, "query")
           e1 == From(w, "fragment")
           z == To(w, "fragment")
           at == w["userinfo"] # <<>>
           colon == w["port"] # <<>>
           path == w["path"] # <<>>
           ask == w["query"] # <<>>
           hash == w["fragment"] # <<>>
           v == V6(w)
<1>1. /\ a \in Nat /\ b \in Nat /\ b1 \in Nat /\ u \in Nat /\ t \in Nat /\ k \in Nat /\ c \in Nat /\ d \in Nat
      /\ d1 \in Nat /\ e \in Nat /\ e1 \in Nat /\ z \in Nat
      /\ a > 0 /\ b = a + 3 /\ u < t /\ To(w, "port") = c /\ From(w, "schema") = 0
  BY Chain
<1>2. /\ ~at => b1 = b /\ u = b1 + v
      /\ at => b1 > b /\ u = b1 + 1 + v
      /\ ~colon => k = t + v /\ c = k
      /\ colon => k = t + v + 1 /\ c > k
      /\ ~path => d = c
      /\ path => d > c
      /\ ~ask => d1 = d /\ e = d1
      /\ ask => d1 = d + 1 /\ e > d1
      /\ ~hash => e1 = e /\ z = e1
      /\ hash => e1 = e + 1 /\ z > e1
      /\ v \in 0 .. 1
  BY Chain
<1>3. /\ r[a + 1] = ":" /\ r[a + 2] = "/" /\ r[a + 3] = "/"
      /\ at => r[b1 + 1] = "@"
      /\ v = 1 => r[u] = "[" /\ r[t + 1] = "]"
      /\ colon => r[k] = ":"
      /\ ask => r[d1] = "?"
      /\ hash => r[e1] = "#"
      /\ z = Len(r) /\ n \in 0 .. z - 1
  BY DEF Layout
<1>4. /\ n \in 0 .. a - 1 => r[n + 1] \in Letter
      /\ n \in b .. b1 - 1 => r[n + 1] \in UserinfoChar
      /\ n \in u .. t - 1 => r[n + 1] \in UserinfoChar
      /\ n \in k .. c - 1 => r[n + 1] \in Digit
      /\ n \in c .. d - 1 => r[n + 1] \in UrlChar
      /\ n = c /\ n < d => r[n + 1] = "/"
      /\ n \in d1 .. e - 1 => r[n + 1] \in UrlChar \cup {"?"}
      /\ n \in e1 .. z - 1 => r[n + 1] \in UrlChar \cup {"?"}
  <2>0. n \in Nat
    BY <1>1, <1>3
  <2>1. n \in u .. t - 1 =>
          r[n + 1] = w["host"][n + 1 - From(w, "host")] /\ n + 1 - From(w, "host") \in 1 .. Len(w["host"])
    BY <2>0, PartLetters
  <2>2. n \in u .. t - 1 => r[n + 1] \in UserinfoChar
    BY <2>1, HostLetters
  <2>3. /\ n \in From(w, "schema") .. a - 1 => r[n + 1] \in Letter
        /\ n \in b .. b1 - 1 => r[n + 1] \in UserinfoChar
        /\ n \in k .. To(w, "port") - 1 => r[n + 1] \in Digit
        /\ n \in c .. d - 1 => r[n + 1] \in UrlChar
        /\ n = c /\ n < d => r[n + 1] = "/"
        /\ n \in d1 .. e - 1 => r[n + 1] \in UrlChar \cup {"?"}
        /\ n \in e1 .. z - 1 => r[n + 1] \in UrlChar \cup {"?"}
    BY <2>0, PartLetters
  <2> HIDE DEF a, b, b1, u, t, k, c, d, d1, e, e1, z, at, colon, path, ask, hash, v
  <2> QED BY <1>1, <2>2, <2>3
<1>5. \A i \in 0 .. z :
        /\ i = 0 => ScanAt(w, i) = "s_req_spaces_before_url"
        /\ i \in 1 .. a => ScanAt(w, i) = "s_req_schema"
        /\ i = a + 1 => ScanAt(w, i) = "s_req_schema_slash"
        /\ i = a + 2 => ScanAt(w, i) = "s_req_schema_slash_slash"
        /\ i = b => ScanAt(w, i) = "s_req_server_start"
        /\ i \in b + 1 .. c => ScanAt(w, i) = IF i = b1 + 1 /\ at THEN "s_req_server_with_at" ELSE "s_req_server"
        /\ i \in c + 1 .. d => ScanAt(w, i) = "s_req_path"
        /\ i = d1 /\ ask => ScanAt(w, i) = "s_req_query_string_start"
        /\ i \in d1 + 1 .. e => ScanAt(w, i) = "s_req_query_string"
        /\ i = e1 /\ hash => ScanAt(w, i) = "s_req_fragment_start"
        /\ i \in e1 + 1 .. z => ScanAt(w, i) = "s_req_fragment"
  BY ScanPlaces
<1>6. hash => path \/ ask
  OBVIOUS
<1>7. n \in 0 .. z /\ n + 1 \in 0 .. z
  <2>1. z \in Nat /\ n \in 0 .. z - 1
    BY <1>1, <1>3
  <2> HIDE DEF z
  <2> QED BY <2>1
<1> DEFINE S == ScanAt(w, n)
           N == ScanAt(w, n + 1)
           ch == r[n + 1]
<1>8. parse_url_char(S, ch) = N
  <2> HIDE DEF a, b, b1, u, t, k, c, d, d1, e, e1, z, at, colon, path, ask, hash, v, S, N, ch
  <2>1. CASE n < a
    <3>1. S \in {"s_req_spaces_before_url", "s_req_schema"} /\ N = "s_req_schema" /\ ch \in Letter
      BY <1>1, <1>4, <1>5, <1>7, <2>1 DEF S, N, ch
    <3>2. ch # ":" /\ ch # "/"
      BY <3>1, CharsApart
    <3> QED BY <3>1, <3>2 DEF parse_url_char
  <2>2. CASE n = a
    <3>1. S = "s_req_schema" /\ N = "s_req_schema_slash" /\ ch = ":"
      BY <1>1, <1>3, <1>5, <1>7, <2>2 DEF S, N, ch
    <3>2. ":" \notin Letter
      BY CharsApart
    <3> QED BY <3>1, <3>2 DEF parse_url_char
  <2>3. CASE n = a + 1
    <3>1. S = "s_req_schema_slash" /\ N = "s_req_schema_slash_slash" /\ ch = "/"
      BY <1>1, <1>3, <1>5, <1>7, <2>3 DEF S, N, ch
    <3> QED BY <3>1 DEF parse_url_char
  <2>4. CASE n = a + 2
    <3>1. S = "s_req_schema_slash_slash" /\ N = "s_req_server_start" /\ ch = "/"
      BY <1>1, <1>3, <1>5, <1>7, <2>4 DEF S, N, ch
    <3> QED BY <3>1 DEF parse_url_char
  <2>5. CASE n \in b .. c - 1
    <3>1. S \in Server /\ (S = "s_req_server_with_at" => n = b1 + 1 /\ at)
      BY <1>1, <1>5, <1>7, <2>5 DEF S
    <3>2. N = IF n + 1 = b1 + 1 /\ at THEN "s_req_server_with_at" ELSE "s_req_server"
      BY <1>1, <1>5, <1>7, <2>5 DEF N
    <3>3. CASE n = b1 /\ at
      <4>1. ch = "@" /\ S # "s_req_server_with_at" /\ N = "s_req_server_with_at"
        BY <1>1, <1>3, <3>1, <3>2, <3>3 DEF ch
      <4>2. "@" \notin UserinfoChar \cup {"[", "]"}
        BY CharsApart
      <4> QED BY <3>1, <4>1, <4>2 DEF parse_url_char
    <3>4. CASE ~(n = b1 /\ at)
      <4>1. N = "s_req_server"
        BY <1>1, <3>2, <3>4
      <4>2. ch \in UserinfoChar \cup {"[", "]"}
        <5>1. \/ n \in b .. b1 - 1 \/ n \in u .. t - 1
              \/ v = 1 /\ n = u - 1
              \/ v = 1 /\ n = t
              \/ colon /\ n = k - 1
              \/ n \in k .. c - 1
          BY <1>1, <1>2, <1>7, <2>5, <3>4
        <5>2. v = 1 => u - 1 + 1 = u
          BY <1>1
        <5>3. colon => k - 1 + 1 = k
          BY <1>1
        <5>4. ch \in UserinfoChar \/ ch \in {"[", "]"} \/ ch = ":" \/ ch \in Digit
          BY <1>3, <1>4, <5>1, <5>2, <5>3 DEF ch
        <5>5. Digit \subseteq UserinfoChar /\ ":" \in UserinfoChar
          BY CharsApart
        <5> QED BY <5>4, <5>5
      <4>3. ch # "/" /\ ch # "@" /\ ch # "?"
        BY <4>2, CharsApart
      <4> QED BY <3>1, <4>1, <4>2, <4>3 DEF parse_url_char
    <3> QED BY <3>3, <3>4
  <2>6. CASE n \in c .. d - 1
    <3>1. S \in Server \cup {"s_req_path"} /\ (S \in Server => n = c) /\ N = "s_req_path" /\ ch \in UrlChar
      <4>1. n = c \/ n \in c + 1 .. d
        BY <1>1, <1>7, <2>6
      <4>2. n = c => S \in Server
        BY <1>1, <1>2, <1>5, <1>7 DEF S
      <4>3. n \in c + 1 .. d => S = "s_req_path"
        BY <1>5, <1>7 DEF S
      <4>4. n + 1 \in c + 1 .. d /\ ch \in UrlChar
        BY <1>1, <1>4, <1>7, <2>6 DEF ch
      <4>5. N = "s_req_path"
        BY <1>5, <1>7, <4>4 DEF N
      <4> QED BY <4>1, <4>2, <4>3, <4>4, <4>5
    <3>2. S \in Server => ch = "/"
      BY <1>1, <1>4, <2>6, <3>1 DEF ch
    <3>3. "/" \notin UserinfoChar \cup {"[", "]"}  /\ ch # "?" /\ ch # "#"
      BY <3>1, CharsApart
    <3> QED BY <3>1, <3>2, <3>3 DEF parse_url_char
  <2>7. CASE n \in d .. d1 - 1
    <3>1. S \in Server \cup {"s_req_path"} /\ N = "s_req_query_string_start" /\ ch = "?"
      <4>0. n \in Nat /\ d <= n /\ n < d1
        BY <1>1, <1>7, <2>7
      <4>1. ask /\ n = d /\ n + 1 = d1
        BY <1>1, <1>2, <4>0
      <4>2. ch = "?" /\ N = "s_req_query_string_start"
        BY <1>3, <1>5, <1>7, <4>1 DEF ch, N
      <4>3. n \in b + 1 .. c \/ n \in c + 1 .. d
        BY <1>1, <1>2, <1>7, <4>1
      <4>4. S \in Server \cup {"s_req_path"}
        BY <1>5, <1>7, <4>3 DEF S
      <4> QED BY <4>2, <4>4
    <3>2. "?" \notin UrlChar
      BY CharsApart
    <3>3. "?" \notin UserinfoChar \cup {"[", "]"}
      BY CharsApart
    <3> QED BY <3>1, <3>2, <3>3 DEF parse_url_char
  <2>8. CASE n \in d1 .. e - 1
    <3>1. S \in Query /\ N = "s_req_query_string" /\ ch \in UrlChar \cup {"?"}
      <4>1. ask /\ n + 1 \in d1 + 1 .. e /\ (n = d1 \/ n \in d1 + 1 .. e)
        BY <1>1, <1>2, <1>7, <2>8
      <4> QED BY <1>4, <1>5, <1>7, <2>8, <4>1 DEF S, N, ch
    <3>2. ch # "#"
      BY <3>1, CharsApart
    <3> QED BY <3>1, <3>2 DEF parse_url_char
  <2>9. CASE n \in e .. e1 - 1
    <3>1. S \in Query \cup {"s_req_path"} /\ N = "s_req_fragment_start" /\ ch = "#"
      <4>1. hash /\ n = e /\ n + 1 = e1
        BY <1>1, <1>2, <1>7, <2>9
      <4>2. ch = "#" /\ N = "s_req_fragment_start"
        BY <1>3, <1>5, <1>7, <4>1 DEF ch, N
      <4>3. n \in d1 + 1 .. e \/ n \in c + 1 .. d
        BY <1>1, <1>2, <1>6, <1>7, <4>1
      <4>4. S \in Query \cup {"s_req_path"}
        BY <1>5, <1>7, <4>3 DEF S
      <4> QED BY <4>2, <4>4
    <3>2. "#" \notin UrlChar \cup {"?"}
      BY CharsApart
    <3> QED BY <3>1, <3>2 DEF parse_url_char
  <2>10. CASE n \in e1 .. z - 1
    <3>1. S \in Fragment /\ N = "s_req_fragment" /\ ch \in UrlChar \cup {"?"}
      <4>1. hash /\ n + 1 \in e1 + 1 .. z /\ (n = e1 \/ n \in e1 + 1 .. z)
        BY <1>1, <1>2, <1>7, <2>10
      <4> QED BY <1>4, <1>5, <1>7, <2>10, <4>1 DEF S, N, ch
    <3>2. ch # "#"
      BY <3>1, CharsApart
    <3> QED BY <3>1, <3>2 DEF parse_url_char
  <2> QED BY <1>1, <1>2, <1>7, <2>1, <2>2, <2>3, <2>4, <2>5, <2>6, <2>7, <2>8, <2>9, <2>10
<1> QED BY <1>8 DEF S, N, ch

\* The state of the second scanner behind n characters, by the place.
LEMMA HostPlaces ==
  ASSUME NEW w \in Parts, NEW n \in From(w, "userinfo") .. To(w, "port")
  PROVE  /\ n = From(w, "userinfo") /\ w["userinfo"] # <<>> => HostAt(w, n) = "s_http_userinfo_start"
         /\ n \in From(w, "userinfo") + 1 .. To(w, "userinfo") => HostAt(w, n) = "s_http_userinfo"
         /\ n = From(w, "host") - V6(w) => HostAt(w, n) = "s_http_host_start"
         /\ V6(w) = 0 /\ n \in From(w, "host") + 1 .. To(w, "host") => HostAt(w, n) = "s_http_host"
         /\ V6(w) = 1 /\ n = From(w, "host") => HostAt(w, n) = "s_http_host_v6_start"
         /\ V6(w) = 1 /\ n \in From(w, "host") + 1 .. From(w, "host") + Zone(w) =>
              HostAt(w, n) = "s_http_host_v6"
         /\ V6(w) = 1 /\ n = From(w, "host") + Zone(w) + 1 /\ n <= To(w, "host") =>
              HostAt(w, n) = "s_http_host_v6_zone_start"
         /\ V6(w) = 1 /\ n \in From(w, "host") + Zone(w) + 2 .. To(w, "host") =>
              HostAt(w, n) = "s_http_host_v6_zone"
         /\ V6(w) = 1 /\ n = To(w, "host") + 1 => HostAt(w, n) = "s_http_host_v6_end"
         /\ n = From(w, "port") /\ w["port"] # <<>> => HostAt(w, n) = "s_http_host_port_start"
         /\ n \in From(w, "port") + 1 .. To(w, "port") => HostAt(w, n) = "s_http_host_port"
<1> DEFINE b == From(w, "userinfo")
           b1 == To(w, "userinfo")
           u == From(w, "host")
           t == To(w, "host")
           k == From(w, "port")
           c == To(w, "port")
           at == w["userinfo"] # <<>>
           colon == w["port"] # <<>>
           v == V6(w)
           z == Zone(w)
           H == HostAt(w, n)
<1>1. /\ b \in Nat /\ b1 \in Nat /\ u \in Nat /\ t \in Nat /\ k \in Nat /\ c \in Nat /\ u < t
      /\ ~at => b1 = b /\ u = b1 + v
      /\ at => b1 > b /\ u = b1 + 1 + v
      /\ ~colon => k = t + v /\ c = k
      /\ colon => k = t + v + 1 /\ c > k
      /\ v \in 0 .. 1
  BY Chain
<1>2. v = 1 => z \in Nat /\ z > 0 /\ u + z <= t
  <2>1. v = 1 => z \in 1 .. Len(w["host"])
    BY V6Is
  <2>2. t = u + Len(w["host"]) /\ Len(w["host"]) \in Nat
    <3>1. "host" \in Field \ {"schema"}
      BY DEF Field
    <3> QED BY <3>1, Order, PartIsSeq
  <2> HIDE DEF z, v, u, t
  <2> QED BY <1>1, <2>1, <2>2
<1>3. H = CASE n = b /\ at -> "s_http_userinfo_start"
            [] n \in b + 1 .. b1 -> "s_http_userinfo"
            [] n = u - v -> "s_http_host_start"
            [] v = 0 /\ n \in u + 1 .. t -> "s_http_host"
            [] v = 1 /\ n = u -> "s_http_host_v6_start"
            [] v = 1 /\ n \in u + 1 .. u + z -> "s_http_host_v6"
            [] v = 1 /\ n = u + z + 1 /\ n <= t -> "s_http_host_v6_zone_start"
            [] v = 1 /\ n \in u + z + 2 .. t -> "s_http_host_v6_zone"
            [] v = 1 /\ n = t + 1 -> "s_http_host_v6_end"
            [] n = k /\ colon -> "s_http_host_port_start"
            [] OTHER -> "s_http_host_port"
  BY DEF HostAt
<1>4. n \in Nat /\ b <= n /\ n <= c
  <2>1. n \in b .. c
    OBVIOUS
  <2> HIDE DEF b, c
  <2> QED BY <1>1, <2>1
<1> HIDE DEF b, b1, u, t, k, c, at, colon, v, z, H
<1>5. n = b /\ at => H = "s_http_userinfo_start"
  <2> SUFFICES ASSUME n = b, at PROVE H = "s_http_userinfo_start"
    OBVIOUS
  <2>1. /\ n < b + 1 /\ n # u - v /\ n < u + 1 /\ n # u /\ n < t /\ n < u + 2 /\ n # k
        /\ v = 1 => n < u + z + 1
    BY <1>1, <1>2
  <2>2. /\ ~(n \in b + 1 .. b1) /\ n # u - v /\ ~(v = 0 /\ n \in u + 1 .. t) /\ n # u
        /\ ~(v = 1 /\ n \in u + 1 .. u + z) /\ ~(v = 1 /\ n = u + z + 1) /\ n # t + 1 /\ n # k
        /\ ~(v = 1 /\ n \in u + z + 2 .. t)
    BY <1>1, <1>2, <2>1
  <2> QED BY <1>3, <2>2
<1>6. n \in b + 1 .. b1 => H = "s_http_userinfo"
  BY <1>1, <1>2, <1>3, <1>4
<1>7. n = u - v => H = "s_http_host_start"
  BY <1>1, <1>2, <1>3, <1>4
<1>8. v = 0 /\ n \in u + 1 .. t => H = "s_http_host"
  <2> SUFFICES ASSUME v = 0, n \in u + 1 .. t PROVE H = "s_http_host"
    OBVIOUS
  <2>1. n > b1 /\ n # u - v /\ n # b /\ v # 1 /\ (n = k => ~colon)
    BY <1>1
  <2>2. ~(n \in b + 1 .. b1) /\ n <= k
    BY <1>1, <2>1
  <2>3. ~(n = b /\ at) /\ n # u - v /\ v # 1 /\ ~(n = k /\ colon)
    BY <2>1
  <2> QED BY <1>3, <2>2, <2>3
<1>9. v = 1 /\ n = u => H = "s_http_host_v6_start"
  BY <1>1, <1>2, <1>3, <1>4
<1>10. v = 1 /\ n \in u + 1 .. u + z => H = "s_http_host_v6"
  BY <1>1, <1>2, <1>3, <1>4
<1>11. v = 1 /\ n = u + z + 1 /\ n <= t => H = "s_http_host_v6_zone_start"
  BY <1>1, <1>2, <1>3, <1>4
<1>12. v = 1 /\ n \in u + z + 2 .. t => H = "s_http_host_v6_zone"
  BY <1>1, <1>2, <1>3, <1>4
<1>13. v = 1 /\ n = t + 1 => H = "s_http_host_v6_end"
  <2> SUFFICES ASSUME v = 1, n = t + 1 PROVE H = "s_http_host_v6_end"
    OBVIOUS
  <2>1. n > b1 /\ n # u - v /\ n # b /\ n # u /\ v # 0 /\ n > t /\ n > u + z
    BY <1>1, <1>2
  <2>2. /\ ~(n \in b + 1 .. b1) /\ ~(n \in u + 1 .. u + z) /\ ~(n \in u + z + 2 .. t)
        /\ ~(n = u + z + 1 /\ n <= t)
    BY <1>1, <1>2, <2>1
  <2>3. ~(n = b /\ at) /\ n # u - v /\ n # u /\ v # 0 /\ ~(n = k /\ colon)
    BY <1>1, <2>1
  <2> QED BY <1>3, <2>2, <2>3
<1>14. n = k /\ colon => H = "s_http_host_port_start"
  BY <1>1, <1>2, <1>3, <1>4
<1>15. n \in k + 1 .. c => H = "s_http_host_port"
  BY <1>1, <1>2, <1>3, <1>4
<1> QED BY <1>5, <1>6, <1>7, <1>8, <1>9, <1>10, <1>11, <1>12, <1>13, <1>14, <1>15 DEF b, b1, u, t, k, c, at, colon, v, z, H

\* The second scanner goes on from every place to the next.
LEMMA HostGoes ==
  ASSUME NEW w \in Parts, NEW r \in Seq(Char), Layout(w, r), NEW n \in Nat,
         n >= From(w, "userinfo"), n < To(w, "port")
  PROVE  http_parse_host_char(HostAt(w, n), r[n + 1]) = HostAt(w, n + 1)
<1> DEFINE b == From(w, "userinfo")
           b1 == To(w, "userinfo")
           u == From(w, "host")
           t == To(w, "host")
           k == From(w, "port")
           c == To(w, "port")
           at == w["userinfo"] # <<>>
           colon == w["port"] # <<>>
           v == V6(w)
           z == Zone(w)
           S == HostAt(w, n)
           N == HostAt(w, n + 1)
           ch == r[n + 1]
<1>1. /\ b \in Nat /\ b1 \in Nat /\ u \in Nat /\ t \in Nat /\ k \in Nat /\ c \in Nat /\ u < t
      /\ ~at => b1 = b /\ u = b1 + v
      /\ at => b1 > b /\ u = b1 + 1 + v
      /\ ~colon => k = t + v /\ c = k
      /\ colon => k = t + v + 1 /\ c > k
      /\ v \in 0 .. 1
  BY Chain
<1>2. /\ v = 0 => IsName(w["host"])
      /\ v = 1 => z \in 1 .. Len(w["host"]) /\ IsV6(w["host"], z)
  BY V6Is
<1>3. t = u + Len(w["host"]) /\ Len(w["host"]) \in Nat
  <2>1. "host" \in Field \ {"schema"}
    BY DEF Field
  <2> QED BY <2>1, Order, PartIsSeq
<1>4. v = 1 => z \in Nat /\ z > 0 /\ u + z <= t
  <2>1. v = 1 => z \in 1 .. Len(w["host"])
    BY <1>2
  <2> HIDE DEF z, v, u, t
  <2> QED BY <1>1, <1>3, <2>1
<1>5. /\ at => r[b1 + 1] = "@"
      /\ v = 1 => r[u] = "[" /\ r[t + 1] = "]"
      /\ colon => r[k] = ":"
  BY DEF Layout
<1>6. /\ n \in b .. b1 - 1 => ch \in UserinfoChar
      /\ n \in k .. c - 1 => ch \in Digit
      /\ n \in u .. t - 1 => ch = w["host"][n + 1 - u] /\ n + 1 - u \in 1 .. Len(w["host"])
  BY PartLetters
<1>7. \A i \in b .. c :
        /\ i = b /\ at => HostAt(w, i) = "s_http_userinfo_start"
        /\ i \in b + 1 .. b1 => HostAt(w, i) = "s_http_userinfo"
        /\ i = u - v => HostAt(w, i) = "s_http_host_start"
        /\ v = 0 /\ i \in u + 1 .. t => HostAt(w, i) = "s_http_host"
        /\ v = 1 /\ i = u => HostAt(w, i) = "s_http_host_v6_start"
        /\ v = 1 /\ i \in u + 1 .. u + z => HostAt(w, i) = "s_http_host_v6"
        /\ v = 1 /\ i = u + z + 1 /\ i <= t => HostAt(w, i) = "s_http_host_v6_zone_start"
        /\ v = 1 /\ i \in u + z + 2 .. t => HostAt(w, i) = "s_http_host_v6_zone"
        /\ v = 1 /\ i = t + 1 => HostAt(w, i) = "s_http_host_v6_end"
        /\ i = k /\ colon => HostAt(w, i) = "s_http_host_port_start"
        /\ i \in k + 1 .. c => HostAt(w, i) = "s_http_host_port"
  BY HostPlaces
<1>8. b <= n /\ n < c
  OBVIOUS
<1>9. n \in b .. c /\ n + 1 \in b .. c
  <2> HIDE DEF b, c
  <2> QED BY <1>1, <1>8
<1>10. http_parse_host_char(S, ch) = N
  <2> HIDE DEF b, b1, u, t, k, c, at, colon, v, z, S, N, ch
  <2>1. CASE n \in b .. b1 - 1
    <3>1. at /\ (n = b \/ n \in b + 1 .. b1) /\ n + 1 \in b + 1 .. b1
      BY <1>1, <1>8, <2>1
    <3>2. S \in {"s_http_userinfo_start", "s_http_userinfo"} /\ N = "s_http_userinfo"
      BY <1>7, <1>9, <3>1 DEF S, N
    <3>3. ch \in UserinfoChar /\ ch # "@"
      BY <1>6, <2>1, CharsApart
    <3> QED BY <3>2, <3>3 DEF http_parse_host_char
  <2>2. CASE at /\ n = b1
    <3>1. n \in b + 1 .. b1 /\ n + 1 = u - v
      BY <1>1, <2>2
    <3>2. S = "s_http_userinfo" /\ N = "s_http_host_start" /\ ch = "@"
      BY <1>5, <1>7, <1>9, <2>2, <3>1 DEF S, N, ch
    <3>3. "@" \notin UserinfoChar
      BY CharsApart
    <3> QED BY <3>2, <3>3 DEF http_parse_host_char
  <2>3. CASE v = 0 /\ n \in u .. t - 1
    <3>1. (n = u - v \/ n \in u + 1 .. t) /\ n + 1 \in u + 1 .. t
      BY <1>1, <1>8, <2>3
    <3>2. S \in {"s_http_host_start", "s_http_host"} /\ N = "s_http_host"
      BY <1>7, <1>9, <2>3, <3>1 DEF S, N
    <3>3. ch \in HostChar
      <4>1. w["host"] \in Seq(HostChar)
        BY <1>2, <2>3 DEF IsName
      <4>2. \A x \in Seq(HostChar) : \A i \in 1 .. Len(x) : x[i] \in HostChar
        OBVIOUS
      <4> QED BY <1>6, <2>3, <4>1, <4>2
    <3>4. ch # ":" /\ ch # "["
      BY <3>3, CharsApart
    <3> QED BY <3>2, <3>3, <3>4 DEF http_parse_host_char
  <2>4. CASE v = 1 /\ n = u - 1
    <3>1. n = u - v /\ n + 1 = u
      BY <1>1, <2>4
    <3>2. S = "s_http_host_start" /\ N = "s_http_host_v6_start" /\ ch = "["
      BY <1>5, <1>7, <1>9, <2>4, <3>1 DEF S, N, ch
    <3>3. "[" \notin HostChar
      BY CharsApart
    <3> QED BY <3>2, <3>3 DEF http_parse_host_char
  <2>5. CASE v = 1 /\ n \in u .. u + z - 1
    <3>1. (n = u \/ n \in u + 1 .. u + z) /\ n + 1 \in u + 1 .. u + z /\ n \in u .. t - 1
      BY <1>1, <1>4, <1>8, <2>5
    <3>2. S \in {"s_http_host_v6_start", "s_http_host_v6"} /\ N = "s_http_host_v6"
      BY <1>7, <1>9, <2>5, <3>1 DEF S, N
    <3>3. ch \in Hex \cup {":", "."}
      <4>1. \A i \in 1 .. z : w["host"][i] \in Hex \cup {":", "."}
        BY <1>2, <2>5 DEF IsV6
      <4>2. n + 1 - u \in 1 .. z
        BY <1>1, <1>4, <2>5
      <4> QED BY <1>6, <3>1, <4>1, <4>2
    <3>4. ch # "]" /\ ch # "%"
      BY <3>3, CharsApart
    <3> QED BY <3>2, <3>3, <3>4 DEF http_parse_host_char
  <2>6. CASE v = 1 /\ n = u + z /\ n < t
    <3>1. n \in u + 1 .. u + z /\ n + 1 = u + z + 1 /\ n + 1 <= t /\ n \in u .. t - 1 /\ n + 1 - u = z + 1
      BY <1>1, <1>4, <2>6
    <3>2. S = "s_http_host_v6" /\ N = "s_http_host_v6_zone_start"
      BY <1>7, <1>9, <2>6, <3>1 DEF S, N
    <3>3. ch = "%"
      <4>1. z < Len(w["host"])
        BY <1>1, <1>3, <1>4, <2>6
      <4>2. w["host"][z + 1] = "%"
        BY <1>2, <2>6, <4>1 DEF IsV6
      <4> QED BY <1>6, <3>1, <4>2
    <3>4. "%" \notin Hex \cup {":", "."}
      BY CharsApart
    <3> QED BY <3>2, <3>3, <3>4 DEF http_parse_host_char
  <2>7. CASE v = 1 /\ n \in u + z + 1 .. t - 1
    <3>1. (n = u + z + 1 \/ n \in u + z + 2 .. t) /\ n <= t /\ n + 1 \in u + z + 2 .. t /\ n \in u .. t - 1
      BY <1>1, <1>4, <1>8, <2>7
    <3>2. S \in {"s_http_host_v6_zone_start", "s_http_host_v6_zone"} /\ N = "s_http_host_v6_zone"
      BY <1>7, <1>9, <2>7, <3>1 DEF S, N
    <3>3. ch \in ZoneChar
      <4>1. z < Len(w["host"]) /\ n + 1 - u \in z + 2 .. Len(w["host"])
        BY <1>1, <1>3, <1>4, <2>7
      <4>2. \A i \in z + 2 .. Len(w["host"]) : w["host"][i] \in ZoneChar
        BY <1>2, <2>7, <4>1 DEF IsV6
      <4> QED BY <1>6, <3>1, <4>1, <4>2
    <3>4. ch # "]"
      BY <3>3, CharsApart
    <3> QED BY <3>2, <3>3, <3>4 DEF http_parse_host_char
  <2>8. CASE v = 1 /\ n = t
    <3>1. n \in u + 1 .. u + z \/ n \in u + z + 2 .. t
      <4>1. z < Len(w["host"]) => z + 1 < Len(w["host"])
        BY <1>2, <2>8 DEF IsV6
      <4> QED BY <1>1, <1>3, <1>4, <2>8, <4>1
    <3>2. S \in {"s_http_host_v6", "s_http_host_v6_zone"} /\ N = "s_http_host_v6_end" /\ ch = "]"
      BY <1>5, <1>7, <1>9, <2>8, <3>1 DEF S, N, ch
    <3>3. "]" \notin Hex \cup {":", "."}
      BY CharsApart
    <3>4. "]" \notin ZoneChar
      BY CharsApart
    <3> QED BY <3>2, <3>3, <3>4 DEF http_parse_host_char
  <2>9. CASE colon /\ n = k - 1
    <3>1. n + 1 = k /\ (v = 0 => n \in u + 1 .. t) /\ (v = 1 => n = t + 1)
      BY <1>1, <2>9
    <3>2. S \in {"s_http_host", "s_http_host_v6_end"} /\ N = "s_http_host_port_start" /\ ch = ":"
      BY <1>1, <1>5, <1>7, <1>9, <2>9, <3>1 DEF S, N, ch
    <3>3. ":" \notin HostChar
      BY CharsApart
    <3> QED BY <3>2, <3>3 DEF http_parse_host_char
  <2>10. CASE n \in k .. c - 1
    <3>1. colon /\ (n = k \/ n \in k + 1 .. c) /\ n + 1 \in k + 1 .. c
      BY <1>1, <1>8, <2>10
    <3>2. S \in {"s_http_host_port_start", "s_http_host_port"} /\ N = "s_http_host_port"
      BY <1>7, <1>9, <3>1 DEF S, N
    <3>3. ch \in Digit
      BY <1>6, <2>10
    <3> QED BY <3>2, <3>3 DEF http_parse_host_char
  <2>11. \/ n \in b .. b1 - 1
         \/ at /\ n = b1
         \/ v = 1 /\ n = u - 1
         \/ n \in u .. t - 1
         \/ v = 1 /\ n = t
         \/ colon /\ n = k - 1
         \/ n \in k .. c - 1
    BY <1>1, <1>8
  <2>12. v = 1 /\ n \in u .. t - 1 => n \in u .. u + z - 1 \/ (n = u + z /\ n < t) \/ n \in u + z + 1 .. t - 1
    BY <1>1, <1>4
  <2> QED BY <1>1, <2>1, <2>2, <2>3, <2>4, <2>5, <2>6, <2>7, <2>8, <2>9, <2>10, <2>11, <2>12
<1> QED BY <1>10 DEF S, N, ch

-----------------------------------------------------------------------------
(* The URL that is written from parts has them in these places.            *)

LEMMA AfterHas ==
  ASSUME NEW r \in Seq(Char), NEW c \in Nat, NEW m \in Char, NEW x \in Seq(Char)
  PROVE  /\ After(<<m>>, x) \in Seq(Char) /\ Len(After(<<m>>, x)) = One(x) + Len(x)
         /\ Has(r, c, After(<<m>>, x)) => Has(r, c + One(x), x) /\ (x # <<>> => r[c + One(x)] = m)
<1>0. <<m>> \in Seq(Char) /\ Len(<<m>>) = 1 /\ Len(x) \in Nat
  OBVIOUS
<1>1. CASE x = <<>>
  <2>1. After(<<m>>, x) = x /\ One(x) = 0
    BY <1>1 DEF After, One
  <2>2. c + 0 = c /\ 0 + Len(x) = Len(x)
    BY <1>0
  <2> QED BY <1>1, <2>1, <2>2
<1>2. CASE x # <<>>
  <2>1. After(<<m>>, x) = <<m>> \o x /\ One(x) = 1
    BY <1>2 DEF After, One
  <2> DEFINE y == <<m>>
  <2>2. y \in Seq(Char) /\ Len(y) = 1
    BY <1>0
  <2>3. Has(r, c, y) <=> c + 1 <= Len(r) /\ r[c + 1] = m
    BY HasMark
  <2> HIDE DEF y
  <2>4. /\ y \o x \in Seq(Char) /\ Len(y \o x) = Len(y) + Len(x)
        /\ Has(r, c, y \o x) <=> Has(r, c, y) /\ Has(r, c + Len(y), x)
    BY <2>2, HasJoin
  <2>5. y = <<m>>
    BY DEF y
  <2> QED BY <2>1, <2>2, <2>3, <2>4, <2>5
<1> QED BY <1>1, <1>2

LEMMA BeforeHas ==
  ASSUME NEW r \in Seq(Char), NEW c \in Nat, NEW y \in Seq(Char), NEW x \in Seq(Char)
  PROVE  /\ Before(x, y) \in Seq(Char)
         /\ Len(Before(x, y)) = IF x = <<>> THEN 0 ELSE Len(x) + Len(y)
         /\ Has(r, c, Before(x, y)) => Has(r, c, x) /\ (x # <<>> => Has(r, c + Len(x), y))
<1>1. CASE x = <<>>
  BY <1>1 DEF Before
<1>2. CASE x # <<>>
  <2>1. Before(x, y) = x \o y
    BY <1>2 DEF Before
  <2>2. /\ x \o y \in Seq(Char) /\ Len(x \o y) = Len(x) + Len(y)
        /\ Has(r, c, x \o y) <=> Has(r, c, x) /\ Has(r, c + Len(x), y)
    BY HasJoin
  <2> QED BY <1>2, <2>1, <2>2
<1> QED BY <1>1, <1>2

LEMMA BracketedHas ==
  ASSUME NEW r \in Seq(Char), NEW c \in Nat, NEW x \in Seq(Char)
  PROVE  /\ <<"[">> \o x \o <<"]">> \in Seq(Char) /\ Len(<<"[">> \o x \o <<"]">>) = Len(x) + 2
         /\ Has(r, c, <<"[">> \o x \o <<"]">>) =>
              Has(r, c + 1, x) /\ r[c + 1] = "[" /\ r[c + 1 + Len(x) + 1] = "]"
<1>0. "[" \in Char /\ "]" \in Char /\ Len(x) \in Nat
  BY MarksAreChars
<1> DEFINE y == <<"[">>
           z == <<"]">>
           yx == y \o x
<1>1. y \in Seq(Char) /\ Len(y) = 1 /\ z \in Seq(Char) /\ Len(z) = 1
  BY <1>0
<1>2. \A d \in Nat : /\ Has(r, d, y) => r[d + 1] = "["
                     /\ Has(r, d, z) => r[d + 1] = "]"
  BY HasMark
<1> HIDE DEF y, z
<1>3. /\ yx \in Seq(Char) /\ Len(yx) = Len(y) + Len(x)
      /\ Has(r, c, yx) <=> Has(r, c, y) /\ Has(r, c + Len(y), x)
  BY <1>1, HasJoin
<1> HIDE DEF yx
<1>4. /\ yx \o z \in Seq(Char) /\ Len(yx \o z) = Len(yx) + Len(z)
      /\ Has(r, c, yx \o z) <=> Has(r, c, yx) /\ Has(r, c + Len(yx), z)
  BY <1>1, <1>3, HasJoin
<1>5. Len(yx) = 1 + Len(x) /\ c + (1 + Len(x)) = c + 1 + Len(x) /\ c + 1 + Len(x) \in Nat
  BY <1>0, <1>1, <1>3
<1>6. Len(yx \o z) = Len(x) + 2
  BY <1>0, <1>1, <1>4, <1>5
<1>7. Has(r, c, yx \o z) => Has(r, c, y) /\ Has(r, c + 1, x) /\ Has(r, c + 1 + Len(x), z)
  BY <1>1, <1>3, <1>4, <1>5
<1>8. Has(r, c, yx \o z) => r[c + 1] = "[" /\ r[c + 1 + Len(x) + 1] = "]"
  BY <1>2, <1>5, <1>7
<1> QED BY <1>4, <1>6, <1>7, <1>8 DEF y, z, yx

\* Behind q characters of scheme, or none, stands the URL that was written.
LEMMA WholeLayout ==
  ASSUME NEW w \in Parts, NEW r \in Seq(Char), NEW q \in Nat, Has(r, q, Whole(w)),
         Len(r) = q + Len(Whole(w)),
         IF w["schema"] = <<>> THEN q = 4 /\ r[1] = "http" /\ r[2] = ":" /\ r[3] = "/" /\ r[4] = "/" ELSE q = 0
  PROVE  Layout(w, r)
<1> DEFINE b == From(w, "userinfo")
           b1 == To(w, "userinfo")
           u == From(w, "host")
           t == To(w, "host")
           k == From(w, "port")
           c == From(w, "path")
           d == To(w, "path")
           d1 == From(w, "query")
           e == To(w, "query")
           e1 == From(w, "fragment")
           z == To(w, "fragment")
           v == V6(w)
           six == ":" \in ToSet(w["host"])
           A == Before(w["schema"], <<":", "/", "/">>)
           B == Before(w["userinfo"], <<"@">>)
           C == Bracketed(w["host"], six)
           D == After(<<":">>, w["port"])
           E == w["path"]
           F == After(<<"?">>, w["query"])
           G == After(<<"#">>, w["fragment"])
<1>1. \A f \in Field : /\ w[f] \in Seq(Char) /\ Len(w[f]) \in Nat /\ One(w[f]) \in 0 .. 1
                       /\ From(w, f) \in Nat /\ To(w, f) \in Nat
  BY PartIsSeq, Order
<1>2. {"schema", "userinfo", "host", "port", "path", "query", "fragment"} = Field
  BY DEF Field
<1>3. \A f \in Field \ {"schema"} : Part(w, f) = w[f] /\ To(w, f) = From(w, f) + Len(w[f])
  BY Order DEF Part
<1>4. v \in 0 .. 1 /\ v = (IF six THEN 1 ELSE 0)
  BY V6Is DEF V6
<1>5. /\ b = To(w, "schema") + 3 /\ u = b1 + One(w["userinfo"]) + v /\ k = t + v + One(w["port"])
      /\ c = To(w, "port") /\ d1 = d + One(w["query"]) /\ e1 = e + One(w["fragment"])
      /\ From(w, "schema") = 0
  BY Order
<1>6. To(w, "schema") = Len(Part(w, "schema"))
  BY <1>1, <1>2, <1>5, PartIsSeq DEF To
<1>7. {":", "@", "?", "#", "/"} \subseteq Char /\ <<":", "/", "/">> \in Seq(Char) /\ <<"@">> \in Seq(Char)
  BY MarksAreChars
<1>8. /\ A \in Seq(Char) /\ Len(A) = (IF w["schema"] = <<>> THEN 0 ELSE Len(w["schema"]) + 3)
      /\ Has(r, q, A) => Has(r, q, w["schema"]) /\ (w["schema"] # <<>> => Has(r, q + Len(w["schema"]), <<":", "/", "/">>))
  <2>1. Len(<<":", "/", "/">>) = 3
    OBVIOUS
  <2> DEFINE y == <<":", "/", "/">>
             x == w["schema"]
  <2>2. x \in Seq(Char) /\ y \in Seq(Char)
    BY <1>1, <1>2, <1>7
  <2> HIDE DEF x, y
  <2>3. /\ Before(x, y) \in Seq(Char)
        /\ Len(Before(x, y)) = IF x = <<>> THEN 0 ELSE Len(x) + Len(y)
        /\ Has(r, q, Before(x, y)) => Has(r, q, x) /\ (x # <<>> => Has(r, q + Len(x), y))
    BY <2>2, BeforeHas
  <2> QED BY <2>1, <2>3 DEF x, y
<1>9. /\ B \in Seq(Char) /\ Len(B) = Len(w["userinfo"]) + One(w["userinfo"])
      /\ Has(r, b, B) => Has(r, b, w["userinfo"]) /\ (w["userinfo"] # <<>> => r[b1 + 1] = "@")
  <2> DEFINE y == <<"@">>
             x == w["userinfo"]
  <2>1. x \in Seq(Char) /\ y \in Seq(Char) /\ Len(y) = 1 /\ b \in Nat /\ Len(x) \in Nat /\ b1 = b + Len(x)
    BY <1>1, <1>2, <1>3, <1>7
  <2>2. Has(r, b + Len(x), y) => r[b + Len(x) + 1] = "@"
    <3>1. b + Len(x) \in Nat
      BY <2>1
    <3> QED BY <3>1, HasMark
  <2>3. x = <<>> => Len(x) = 0
    OBVIOUS
  <2> HIDE DEF x, y, b
  <2>4. /\ Before(x, y) \in Seq(Char)
        /\ Len(Before(x, y)) = IF x = <<>> THEN 0 ELSE Len(x) + Len(y)
        /\ Has(r, b, Before(x, y)) => Has(r, b, x) /\ (x # <<>> => Has(r, b + Len(x), y))
    BY <2>1, BeforeHas
  <2>5. Len(Before(x, y)) = Len(x) + One(x)
    BY <2>1, <2>3, <2>4 DEF One
  <2>6. Has(r, b, Before(x, y)) => Has(r, b, x) /\ (x # <<>> => r[b1 + 1] = "@")
    BY <2>1, <2>2, <2>4
  <2> QED BY <2>4, <2>5, <2>6 DEF x, y, b
<1>10. /\ C \in Seq(Char) /\ Len(C) = Len(w["host"]) + v + v
       /\ Has(r, u - v, C) => Has(r, u, w["host"]) /\ (v = 1 => r[u] = "[" /\ r[t + 1] = "]")
  <2> DEFINE x == w["host"]
             n == u - v
  <2>1. x \in Seq(Char) /\ Len(x) \in Nat /\ b1 \in Nat /\ One(w["userinfo"]) \in 0 .. 1 /\ t = u + Len(x) /\ six \in BOOLEAN
    BY <1>1, <1>2, <1>3
  <2>2. n \in Nat /\ n + v = u /\ (v = 1 => n + 1 = u /\ n + 1 + Len(x) + 1 = t + 1)
    BY <1>4, <1>5, <2>1
  <2>3. CASE six
    <3>1. C = <<"[">> \o x \o <<"]">> /\ v = 1
      BY <1>4, <2>3 DEF Bracketed
    <3> HIDE DEF x, n, C, u, t, v
    <3>2. C \in Seq(Char) /\ Len(C) = Len(x) + 2
      BY <2>1, <2>2, <3>1, BracketedHas
    <3>3. Has(r, n, C) => Has(r, n + 1, x) /\ r[n + 1] = "[" /\ r[n + 1 + Len(x) + 1] = "]"
      BY <2>1, <2>2, <3>1, BracketedHas
    <3>4. Len(C) = Len(x) + v + v
      BY <2>1, <3>1, <3>2
    <3> QED BY <2>2, <3>1, <3>2, <3>3, <3>4 DEF x, n
  <2>4. CASE ~six
    <3>1. C = x /\ v = 0
      BY <1>4, <2>4 DEF Bracketed
    <3> HIDE DEF x, C, u, t, v
    <3>2. n = u /\ Len(C) = Len(x) + v + v
      BY <2>1, <2>2, <3>1
    <3> QED BY <2>1, <3>1, <3>2 DEF x
  <2> QED BY <2>3, <2>4
<1>11. \A m \in Char : \A f \in Field : \A n \in Nat :
         /\ After(<<m>>, w[f]) \in Seq(Char) /\ Len(After(<<m>>, w[f])) = One(w[f]) + Len(w[f])
         /\ Has(r, n, After(<<m>>, w[f])) => Has(r, n + One(w[f]), w[f]) /\ (w[f] # <<>> => r[n + One(w[f])] = m)
  BY <1>1, AfterHas
<1>12. /\ D \in Seq(Char) /\ Len(D) = One(w["port"]) + Len(w["port"])
       /\ Has(r, t + v, D) => Has(r, k, w["port"]) /\ (w["port"] # <<>> => r[k] = ":")
  <2>1. t + v \in Nat
    BY <1>1, <1>2, <1>4
  <2> QED BY <1>2, <1>5, <1>7, <1>11, <2>1
<1>13. /\ F \in Seq(Char) /\ Len(F) = One(w["query"]) + Len(w["query"])
       /\ Has(r, d, F) => Has(r, d1, w["query"]) /\ (w["query"] # <<>> => r[d1] = "?")
  <2>1. d \in Nat /\ "query" \in Field
    BY <1>1, <1>2
  <2> QED BY <1>5, <1>7, <1>11, <2>1
<1>14. /\ G \in Seq(Char) /\ Len(G) = One(w["fragment"]) + Len(w["fragment"])
       /\ Has(r, e, G) => Has(r, e1, w["fragment"]) /\ (w["fragment"] # <<>> => r[e1] = "#")
  <2>1. e \in Nat /\ "fragment" \in Field
    BY <1>1, <1>2
  <2> QED BY <1>5, <1>7, <1>11, <2>1
<1>15. Whole(w) = A \o B \o C \o D \o E \o F \o G
  BY DEF Whole
<1>16. E \in Seq(Char)
  BY <1>1, <1>2
<1>17. b = q + Len(A)
  <2>1. CASE w["schema"] = <<>>
    <3>0. Len(<<"http">>) = 1
      OBVIOUS
    <3>1. Len(Part(w, "schema")) = 1
      BY <2>1, <3>0 DEF Part
    <3>2. b = 4 /\ q = 4 /\ Len(A) = 0
      <4>1. b = 4
        <5>1. b = To(w, "schema") + 3
          BY Order
        <5>2. To(w, "schema") = 1
          BY <1>6, <3>1
        <5> HIDE DEF b
        <5> QED BY <5>1, <5>2
      <4>2. q = 4
        BY <2>1
      <4>3. Len(A) = 0
        BY <1>8, <2>1
      <4> QED BY <4>1, <4>2, <4>3
    <3> HIDE DEF b, A
    <3> QED BY <3>2
  <2>2. CASE w["schema"] # <<>>
    <3>1. Part(w, "schema") = w["schema"] /\ Len(w["schema"]) \in Nat
      BY <1>1, <1>2, <2>2 DEF Part
    <3> QED BY <1>5, <1>6, <1>8, <2>2, <3>1
  <2> QED BY <2>1, <2>2
<1>18. /\ u - v = b + Len(B) /\ t + v = u - v + Len(C) /\ c = t + v + Len(D)
       /\ d = c + Len(E) /\ e = d + Len(F) /\ z = e + Len(G)
  <2> DEFINE m == One(w["userinfo"])
             nc == One(w["port"])
             nq == One(w["query"])
             nf == One(w["fragment"])
             lu == Len(w["userinfo"])
             lh == Len(w["host"])
             lp == Len(w["port"])
             ld == Len(w["path"])
             lq == Len(w["query"])
             lf == Len(w["fragment"])
  <2>1. /\ m \in Nat /\ nc \in Nat /\ nq \in Nat /\ nf \in Nat /\ lu \in Nat /\ lh \in Nat /\ lp \in Nat /\ ld \in Nat
        /\ lq \in Nat /\ lf \in Nat /\ b \in Nat /\ b1 \in Nat /\ u \in Nat /\ t \in Nat /\ k \in Nat /\ c \in Nat
        /\ d \in Nat /\ d1 \in Nat /\ e \in Nat /\ e1 \in Nat /\ z \in Nat
    <3>1. /\ b \in Nat /\ b1 \in Nat /\ u \in Nat /\ t \in Nat /\ k \in Nat /\ c \in Nat
          /\ d \in Nat /\ d1 \in Nat /\ e \in Nat /\ e1 \in Nat /\ z \in Nat
      BY <1>1, <1>2
    <3>2. /\ lu \in Nat /\ lh \in Nat /\ lp \in Nat /\ ld \in Nat /\ lq \in Nat /\ lf \in Nat
      BY <1>1, <1>2
    <3>3. /\ m \in Nat /\ nc \in Nat /\ nq \in Nat /\ nf \in Nat
      <4>1. \A f \in Field : One(w[f]) \in Nat
        BY <1>1
      <4> QED BY <1>2, <4>1
    <3> QED BY <3>1, <3>2, <3>3
  <2>2. /\ b1 = b + lu /\ t = u + lh /\ c = k + lp /\ d = c + ld /\ e = d1 + lq /\ z = e1 + lf
    BY <1>2, <1>3, <1>5
  <2>3. u = b1 + m + v /\ k = t + v + nc /\ d1 = d + nq /\ e1 = e + nf
    BY <1>5
  <2>4. /\ Len(B) = lu + m /\ Len(C) = lh + v + v /\ Len(D) = nc + lp /\ Len(E) = ld /\ Len(F) = nq + lq
        /\ Len(G) = nf + lf
    BY <1>9, <1>10, <1>12, <1>13, <1>14
  <2> HIDE DEF m, nc, nq, nf, lu, lh, lp, ld, lq, lf, b, b1, u, t, k, c, d, d1, e, e1, z, v, A, B, C, D, E, F, G
  <2>5. v \in Nat
    BY <1>4
  <2>6. u - v = b + Len(B)
    BY <2>1, <2>2, <2>3, <2>4, <2>5
  <2>7. t + v = u - v + Len(C)
    BY <2>1, <2>2, <2>4, <2>5
  <2>8. c = t + v + Len(D)
    BY <2>1, <2>2, <2>3, <2>4, <2>5
  <2>9. d = c + Len(E)
    BY <2>2, <2>4
  <2>10. e = d + Len(F)
    <3>1. e = d1 + lq /\ d1 = d + nq /\ Len(F) = nq + lq
      BY <2>2, <2>3, <2>4
    <3> QED BY <2>1, <3>1
  <2>11. z = e + Len(G)
    <3>1. z = e1 + lf /\ e1 = e + nf /\ Len(G) = nf + lf
      BY <2>2, <2>3, <2>4
    <3> QED BY <2>1, <3>1
  <2> QED BY <2>6, <2>7, <2>8, <2>9, <2>10, <2>11
<1>19. /\ Has(r, q, A) /\ Has(r, b, B) /\ Has(r, u - v, C) /\ Has(r, t + v, D)
       /\ Has(r, c, E) /\ Has(r, d, F) /\ Has(r, e, G) /\ Len(r) = z
  <2> DEFINE x == Whole(w)
             u0 == u - v
             t0 == t + v
  <2>1. x = A \o B \o C \o D \o E \o F \o G /\ u0 = b + Len(B) /\ t0 = u0 + Len(C) /\ c = t0 + Len(D)
    BY <1>15, <1>18
  <2> HIDE DEF b, c, d, e, z, x, u0, t0, A, B, C, D, E, F, G
  <2>2. /\ x \in Seq(Char) /\ q + Len(x) = e + Len(G)
        /\ Has(r, q, x) =>
             /\ Has(r, q, A) /\ Has(r, b, B) /\ Has(r, u0, C) /\ Has(r, t0, D)
             /\ Has(r, c, E) /\ Has(r, d, F) /\ Has(r, e, G)
    <3>1. /\ A \in Seq(Char) /\ B \in Seq(Char) /\ C \in Seq(Char) /\ D \in Seq(Char)
          /\ E \in Seq(Char) /\ F \in Seq(Char) /\ G \in Seq(Char)
      BY <1>8, <1>9, <1>10, <1>12, <1>13, <1>14, <1>16
    <3>21. A \in Seq(Char)
      BY <3>1
    <3>22. B \in Seq(Char)
      BY <3>1
    <3>23. C \in Seq(Char)
      BY <3>1
    <3>24. D \in Seq(Char)
      BY <3>1
    <3>25. E \in Seq(Char)
      BY <3>1
    <3>26. F \in Seq(Char)
      BY <3>1
    <3>27. G \in Seq(Char)
      BY <3>1
    <3>2. /\ b = q + Len(A) /\ u0 = b + Len(B) /\ t0 = u0 + Len(C) /\ c = t0 + Len(D)
          /\ d = c + Len(E) /\ e = d + Len(F)
      BY <1>17, <1>18, <2>1
    <3> DEFINE y2 == A \o B
               y3 == y2 \o C
               y4 == y3 \o D
               y5 == y4 \o E
               y6 == y5 \o F
    <3>3. x = y6 \o G
      BY <2>1
    <3>4. /\ y2 \in Seq(Char) /\ Len(y2) = Len(A) + Len(B)
          /\ Has(r, q, y2) => Has(r, q, A) /\ Has(r, q + Len(A), B)
      <4>1. A \in Seq(Char) /\ B \in Seq(Char)
        BY <3>21, <3>22
      <4> QED BY <4>1, HasJoin
    <3> HIDE DEF y2
    <3>5. /\ y3 \in Seq(Char) /\ Len(y3) = Len(y2) + Len(C)
          /\ Has(r, q, y3) => Has(r, q, y2) /\ Has(r, q + Len(y2), C)
      <4>1. y2 \in Seq(Char) /\ C \in Seq(Char)
        BY <3>4, <3>23
      <4> QED BY <4>1, HasJoin
    <3> HIDE DEF y3
    <3>6. /\ y4 \in Seq(Char) /\ Len(y4) = Len(y3) + Len(D)
          /\ Has(r, q, y4) => Has(r, q, y3) /\ Has(r, q + Len(y3), D)
      <4>1. y3 \in Seq(Char) /\ D \in Seq(Char)
        BY <3>5, <3>24
      <4> QED BY <4>1, HasJoin
    <3> HIDE DEF y4
    <3>7. /\ y5 \in Seq(Char) /\ Len(y5) = Len(y4) + Len(E)
          /\ Has(r, q, y5) => Has(r, q, y4) /\ Has(r, q + Len(y4), E)
      <4>1. y4 \in Seq(Char) /\ E \in Seq(Char)
        BY <3>6, <3>25
      <4> QED BY <4>1, HasJoin
    <3> HIDE DEF y5
    <3>8. /\ y6 \in Seq(Char) /\ Len(y6) = Len(y5) + Len(F)
          /\ Has(r, q, y6) => Has(r, q, y5) /\ Has(r, q + Len(y5), F)
      <4>1. y5 \in Seq(Char) /\ F \in Seq(Char)
        BY <3>7, <3>26
      <4> QED BY <4>1, HasJoin
    <3> HIDE DEF y6
    <3>9. /\ x \in Seq(Char) /\ Len(x) = Len(y6) + Len(G)
          /\ Has(r, q, x) => Has(r, q, y6) /\ Has(r, q + Len(y6), G)
      <4>1. y6 \in Seq(Char) /\ G \in Seq(Char)
        BY <3>8, <3>27
      <4> QED BY <4>1, <3>3, HasJoin
    <3>10. /\ q \in Nat /\ Len(A) \in Nat /\ Len(B) \in Nat /\ Len(C) \in Nat /\ Len(D) \in Nat
           /\ Len(E) \in Nat /\ Len(F) \in Nat /\ Len(G) \in Nat
      <4>1. \A y \in Seq(Char) : Len(y) \in Nat
        OBVIOUS
      <4> QED BY <3>1, <4>1
    <3>11. q + Len(A) = b /\ Len(A) \in Nat
      BY <3>2, <3>10
    <3>12. q + Len(y2) = u0 /\ Len(y2) \in Nat
      <4>1. Len(y2) = Len(A) + Len(B) /\ Len(A) \in Nat /\ q + Len(A) = b
        BY <3>4, <3>11
      <4>2. u0 = b + Len(B) /\ Len(B) \in Nat /\ q \in Nat
        BY <3>2, <3>10
      <4> QED BY <4>1, <4>2
    <3>13. q + Len(y3) = t0 /\ Len(y3) \in Nat
      <4>1. Len(y3) = Len(y2) + Len(C) /\ Len(y2) \in Nat /\ q + Len(y2) = u0
        BY <3>5, <3>12
      <4>2. t0 = u0 + Len(C) /\ Len(C) \in Nat /\ q \in Nat
        BY <3>2, <3>10
      <4> QED BY <4>1, <4>2
    <3>14. q + Len(y4) = c /\ Len(y4) \in Nat
      <4>1. Len(y4) = Len(y3) + Len(D) /\ Len(y3) \in Nat /\ q + Len(y3) = t0
        BY <3>6, <3>13
      <4>2. c = t0 + Len(D) /\ Len(D) \in Nat /\ q \in Nat
        BY <3>2, <3>10
      <4> QED BY <4>1, <4>2
    <3>15. q + Len(y5) = d /\ Len(y5) \in Nat
      <4>1. Len(y5) = Len(y4) + Len(E) /\ Len(y4) \in Nat /\ q + Len(y4) = c
        BY <3>7, <3>14
      <4>2. d = c + Len(E) /\ Len(E) \in Nat /\ q \in Nat
        BY <3>2, <3>10
      <4> QED BY <4>1, <4>2
    <3>16. q + Len(y6) = e /\ Len(y6) \in Nat
      <4>1. Len(y6) = Len(y5) + Len(F) /\ Len(y5) \in Nat /\ q + Len(y5) = d
        BY <3>8, <3>15
      <4>2. e = d + Len(F) /\ Len(F) \in Nat /\ q \in Nat
        BY <3>2, <3>10
      <4> QED BY <4>1, <4>2
    <3>17. q + Len(x) = e + Len(G)
      BY <3>9, <3>10, <3>16
    <3> QED BY <3>4, <3>5, <3>6, <3>7, <3>8, <3>9, <3>11, <3>12, <3>13, <3>14, <3>15, <3>16, <3>17
  <2>3. Has(r, q, x) /\ Len(r) = q + Len(x)
    BY DEF x
  <2> QED BY <1>18, <2>2, <2>3 DEF u0, t0
<1>20. /\ Has(r, b, w["userinfo"]) /\ Has(r, u, w["host"]) /\ Has(r, k, w["port"]) /\ Has(r, c, w["path"])
       /\ Has(r, d1, w["query"]) /\ Has(r, e1, w["fragment"])
       /\ w["userinfo"] # <<>> => r[b1 + 1] = "@"
       /\ v = 1 => r[u] = "[" /\ r[t + 1] = "]"
       /\ w["port"] # <<>> => r[k] = ":"
       /\ w["query"] # <<>> => r[d1] = "?"
       /\ w["fragment"] # <<>> => r[e1] = "#"
  BY <1>9, <1>10, <1>12, <1>13, <1>14, <1>19
<1>21. /\ Has(r, 0, Part(w, "schema"))
       /\ r[To(w, "schema") + 1] = ":" /\ r[To(w, "schema") + 2] = "/" /\ r[To(w, "schema") + 3] = "/"
  <2>1. CASE w["schema"] = <<>>
    <3>1. Part(w, "schema") = <<"http">> /\ Len(<<"http">>) = 1 /\ To(w, "schema") = 1
      BY <1>6, <2>1 DEF Part
    <3>2. 1 <= Len(r)
      <4>1. b \in Nat /\ z \in Nat /\ b <= Len(r) /\ b = 4
        <5>1. Has(r, b, w["userinfo"]) /\ Len(w["userinfo"]) \in Nat /\ b \in Nat /\ z \in Nat /\ Len(r) \in Nat
          BY <1>1, <1>2, <1>20
        <5>2. b = 4
          BY <1>5, <3>1
        <5> QED BY <5>1, <5>2 DEF Has
      <4> QED BY <4>1
    <3>3. Has(r, 0, <<"http">>) <=> 0 + 1 <= Len(r) /\ r[0 + 1] = "http"
      BY HasMark
    <3>4. Has(r, 0, <<"http">>)
      BY <2>1, <3>2, <3>3
    <3> QED BY <2>1, <3>1, <3>4
  <2>2. CASE w["schema"] # <<>>
    <3>1. Part(w, "schema") = w["schema"] /\ Len(w["schema"]) \in Nat /\ q = 0
      BY <1>1, <1>2, <2>2 DEF Part
    <3>2. Has(r, 0, w["schema"]) /\ Has(r, 0 + Len(w["schema"]), <<":", "/", "/">>)
      BY <1>8, <1>19, <2>2, <3>1
    <3>3. \A n \in Nat : Has(r, 0 + n, <<":", "/", "/">>) => r[n + 1] = ":" /\ r[n + 2] = "/" /\ r[n + 3] = "/"
      <4>1. Len(<<":", "/", "/">>) = 3 /\ <<":", "/", "/">>[1] = ":" /\ <<":", "/", "/">>[2] = "/" /\ <<":", "/", "/">>[3] = "/"
        OBVIOUS
      <4>2. 1 \in 1 .. 3 /\ 2 \in 1 .. 3 /\ 3 \in 1 .. 3 /\ \A n \in Nat : 0 + n = n
        OBVIOUS
      <4> QED BY <4>1, <4>2 DEF Has
    <3> QED BY <1>6, <3>1, <3>2, <3>3
  <2> QED BY <2>1, <2>2
<1>22. \A f \in Field : Has(r, From(w, f), Part(w, f))
  BY <1>2, <1>3, <1>5, <1>20, <1>21
<1> QED BY <1>19, <1>20, <1>21, <1>22 DEF Layout

\* A URL that was written without a scheme, and one put before it.
LEMMA SchemeBefore ==
  ASSUME NEW x \in Seq(Char), NEW r, r = <<"http", ":", "/", "/">> \o x
  PROVE  /\ r \in Seq(Char) /\ Len(r) = 4 + Len(x) /\ Has(r, 4, x)
         /\ r[1] = "http" /\ r[2] = ":" /\ r[3] = "/" /\ r[4] = "/"
<1> DEFINE y == <<"http", ":", "/", "/">>
<1>1. "http" \in Char /\ ":" \in Char /\ "/" \in Char
  BY CharAssumption, CharsApart
<1>2. y \in Seq(Char) /\ Len(y) = 4 /\ y[1] = "http" /\ y[2] = ":" /\ y[3] = "/" /\ y[4] = "/"
  BY <1>1
<1> HIDE DEF y
<1>3. /\ r \in Seq(Char) /\ Len(r) = 4 + Len(x) /\ Len(x) \in Nat
      /\ \A i \in 1 .. Len(r) : r[i] = IF i <= 4 THEN y[i] ELSE x[i - 4]
  BY <1>2 DEF y
<1>4. \A i \in 1 .. Len(x) : r[4 + i] = x[i]
  <2> SUFFICES ASSUME NEW i \in 1 .. Len(x) PROVE r[4 + i] = x[i]
    OBVIOUS
  <2>1. 4 + i \in 1 .. Len(r) /\ ~(4 + i <= 4) /\ 4 + i - 4 = i
    BY <1>3
  <2> QED BY <1>3, <2>1
<1>5. r[1] = "http" /\ r[2] = ":" /\ r[3] = "/" /\ r[4] = "/"
  <2>1. 1 \in 1 .. Len(r) /\ 2 \in 1 .. Len(r) /\ 3 \in 1 .. Len(r) /\ 4 \in 1 .. Len(r)
    BY <1>3
  <2> QED BY <1>2, <1>3, <2>1
<1> QED BY <1>3, <1>4, <1>5 DEF Has

LEMMA Ascending ==
  ASSUME NEW w \in Parts
  PROVE  /\ To(w, "schema") \in Nat /\ To(w, "schema") > 0 /\ From(w, "userinfo") = To(w, "schema") + 3
         /\ To(w, "fragment") \in Nat /\ From(w, "userinfo") <= To(w, "userinfo")
         /\ To(w, "userinfo") <= From(w, "host") - V6(w) /\ From(w, "host") < To(w, "host")
         /\ To(w, "host") + V6(w) <= From(w, "port") /\ From(w, "port") <= From(w, "path")
         /\ To(w, "port") = From(w, "path") /\ From(w, "path") <= To(w, "path")
         /\ To(w, "path") <= From(w, "query") /\ From(w, "query") <= To(w, "query")
         /\ To(w, "query") <= From(w, "fragment") /\ From(w, "fragment") <= To(w, "fragment")
         /\ To(w, "schema") + 3 < To(w, "port") /\ To(w, "port") <= To(w, "fragment")
         /\ To(w, "schema") + 3 <= To(w, "fragment")
<1> DEFINE a == To(w, "schema")
           b == From(w, "userinfo")
           b1 == To(w, "userinfo")
           u == From(w, "host")
           t == To(w, "host")
           k == From(w, "port")
           c == From(w, "path")
           d == To(w, "path")
           d1 == From(w, "query")
           e == To(w, "query")
           e1 == From(w, "fragment")
           z == To(w, "fragment")
           at == w["userinfo"] # <<>>
           colon == w["port"] # <<>>
           path == w["path"] # <<>>
           ask == w["query"] # <<>>
           hash == w["fragment"] # <<>>
           v == V6(w)
<1>1. /\ a \in Nat /\ b \in Nat /\ b1 \in Nat /\ u \in Nat /\ t \in Nat /\ k \in Nat /\ c \in Nat /\ d \in Nat
      /\ d1 \in Nat /\ e \in Nat /\ e1 \in Nat /\ z \in Nat
      /\ a > 0 /\ b = a + 3 /\ u < t /\ To(w, "port") = c /\ From(w, "schema") = 0
  BY Chain
<1>2. /\ ~at => b1 = b /\ u = b1 + v
      /\ at => b1 > b /\ u = b1 + 1 + v
      /\ ~colon => k = t + v /\ c = k
      /\ colon => k = t + v + 1 /\ c > k
      /\ ~path => d = c
      /\ path => d > c
      /\ ~ask => d1 = d /\ e = d1
      /\ ask => d1 = d + 1 /\ e > d1
      /\ ~hash => e1 = e /\ z = e1
      /\ hash => e1 = e + 1 /\ z > e1
      /\ v \in 0 .. 1
  BY Chain
<1> HIDE DEF a, b, b1, u, t, k, c, d, d1, e, e1, z, at, colon, path, ask, hash, v
<1>3. b <= b1 /\ b1 <= u - v
  BY <1>1, <1>2
<1>4. t + v <= k /\ k <= c
  BY <1>1, <1>2
<1>5. c <= d /\ d <= d1
  BY <1>1, <1>2
<1>6. d1 <= e /\ e <= e1
  BY <1>1, <1>2
<1>7. e1 <= z
  BY <1>1, <1>2
<1>8. a + 3 < c
  <2>1. v \in 0 .. 1
    BY <1>2
  <2> QED BY <1>1, <1>3, <1>4, <2>1
<1>9. c <= z /\ a + 3 <= z
  BY <1>1, <1>5, <1>6, <1>7, <1>8
<1> QED BY <1>1, <1>3, <1>4, <1>5, <1>6, <1>7, <1>8, <1>9 DEF a, b, b1, u, t, k, c, d, d1, e, e1, z, v

LEMMA SchemeFound ==
  ASSUME NEW w \in Parts, NEW r \in Seq(Char), r = Whole(w), w["schema"] # <<>>
  PROVE  Layout(w, r) /\ HasScheme(r)
<1> DEFINE a == To(w, "schema")
           z == To(w, "fragment")
<1>1. Has(r, 0, Whole(w)) /\ Len(r) = 0 + Len(Whole(w)) /\ 0 \in Nat /\ Len(r) \in Nat
  <2>1. Len(r) \in Nat /\ \A i \in 1 .. Len(r) : 0 + i = i
    OBVIOUS
  <2> QED BY <2>1 DEF Has
<1>2. Layout(w, r)
  BY <1>1, WholeLayout
<1>3. r[a + 1] = ":" /\ r[a + 2] = "/" /\ r[a + 3] = "/" /\ Len(r) = z
  BY <1>2 DEF Layout
<1>4. a \in Nat /\ a > 0 /\ z \in Nat /\ a + 3 <= z
  BY Ascending
<1>5. \A i \in 1 .. a : r[i] \in Letter
  <2> SUFFICES ASSUME NEW i \in 1 .. a PROVE r[i] \in Letter
    OBVIOUS
  <2>1. PICK n \in Nat : n + 1 = i /\ n \in 0 .. a - 1
    <3>1. i - 1 \in Nat /\ i - 1 + 1 = i /\ i - 1 \in 0 .. a - 1
      BY <1>4
    <3> QED BY <3>1
  <2>2. From(w, "schema") = 0
    BY Order
  <2>3. r[n + 1] \in Letter
    BY <1>2, <2>1, <2>2, PartLetters
  <2> QED BY <2>1, <2>3
<1>6. SubSeq(r, a + 1, a + 1 + 2) = <<":", "/", "/">>
  <2> DEFINE y == <<":", "/", "/">>
  <2>1. y \in Seq(Char) /\ Len(y) = 3 /\ y[1] = ":" /\ y[2] = "/" /\ y[3] = "/"
    BY MarksAreChars
  <2> HIDE DEF y, a, z
  <2>2. Has(r, a, y)
    <3>1. a + Len(y) <= Len(r)
      BY <1>3, <1>4, <2>1
    <3>2. \A i \in 1 .. Len(y) : r[a + i] = y[i]
      BY <1>3, <2>1
    <3> QED BY <3>1, <3>2 DEF Has
  <2>3. SubSeq(r, a + 1, a + Len(y)) = y
    BY <1>4, <2>1, <2>2, PartIs
  <2>4. a + Len(y) = a + 1 + 2
    BY <1>4, <2>1
  <2> QED BY <2>3, <2>4 DEF y
<1>7. HasScheme(r)
  <2> HIDE DEF a, z
  <2>1. a + 1 \in 2 .. Len(r) - 2
    BY <1>3, <1>4
  <2>2. r[1] \in Letter
    BY <1>4, <1>5
  <2>3. \A i \in 1 .. a : r[i] \in HostChar
    BY <1>5, CharsApart
  <2>4. PICK k \in 2 .. Len(r) - 2 : k = a + 1
    BY <2>1
  <2>5. SubSeq(r, k, k + 2) = <<":", "/", "/">>
    BY <1>6, <2>4
  <2>6. ASSUME NEW i \in 2 .. k - 1 PROVE r[i] \in HostChar
    <3>1. i \in 1 .. a
      BY <1>4, <2>4
    <3> QED BY <2>3, <3>1
  <2> QED BY <2>2, <2>5, <2>6 DEF HasScheme
<1> QED BY <1>2, <1>7

LEMMA SchemeAdded ==
  ASSUME NEW w \in Parts, NEW x \in Seq(Char), x = Whole(w), w["schema"] = <<>>,
         NEW r, r = <<"http", ":", "/", "/">> \o x
  PROVE  r \in Seq(Char) /\ Layout(w, r) /\ ~HasScheme(x)
<1> DEFINE a == To(w, "schema")
           b == From(w, "userinfo")
           b1 == To(w, "userinfo")
           u == From(w, "host")
           t == To(w, "host")
           k == From(w, "port")
           c == From(w, "path")
           d == To(w, "path")
           d1 == From(w, "query")
           e == To(w, "query")
           e1 == From(w, "fragment")
           z == To(w, "fragment")
           at == w["userinfo"] # <<>>
           colon == w["port"] # <<>>
           path == w["path"] # <<>>
           ask == w["query"] # <<>>
           hash == w["fragment"] # <<>>
           v == V6(w)
<1>1. /\ r \in Seq(Char) /\ Len(r) = 4 + Len(x) /\ Has(r, 4, x)
      /\ r[1] = "http" /\ r[2] = ":" /\ r[3] = "/" /\ r[4] = "/"
  BY SchemeBefore
<1>2. Layout(w, r)
  BY <1>1, WholeLayout
<1>3. /\ a \in Nat /\ b \in Nat /\ b1 \in Nat /\ u \in Nat /\ t \in Nat /\ k \in Nat /\ c \in Nat /\ d \in Nat
      /\ d1 \in Nat /\ e \in Nat /\ e1 \in Nat /\ z \in Nat
      /\ a > 0 /\ b = a + 3 /\ u < t /\ To(w, "port") = c /\ From(w, "schema") = 0
  BY Chain
<1>4. /\ ~at => b1 = b /\ u = b1 + v
      /\ at => b1 > b /\ u = b1 + 1 + v
      /\ ~colon => k = t + v /\ c = k
      /\ colon => k = t + v + 1 /\ c > k
      /\ ~path => d = c
      /\ path => d > c
      /\ ~ask => d1 = d /\ e = d1
      /\ ask => d1 = d + 1 /\ e > d1
      /\ ~hash => e1 = e /\ z = e1
      /\ hash => e1 = e + 1 /\ z > e1
      /\ v \in 0 .. 1
  BY Chain
<1>5. /\ at => r[b1 + 1] = "@"
      /\ v = 1 => r[u] = "[" /\ r[t + 1] = "]"
      /\ colon => r[k] = ":"
      /\ ask => r[d1] = "?"
      /\ hash => r[e1] = "#"
      /\ z = Len(r)
  BY <1>2 DEF Layout
<1>6. b = 4
  <2>1. Len(<<"http">>) = 1
    OBVIOUS
  <2>2. Len(Part(w, "schema")) = 1
    BY <2>1 DEF Part
  <2>3. a = From(w, "schema") + 1
    BY <2>2 DEF To
  <2> HIDE DEF a, b
  <2> QED BY <1>3, <2>3
<1>7. ASSUME NEW n \in Nat
      PROVE  /\ n \in b .. b1 - 1 => r[n + 1] \in UserinfoChar
             /\ n \in u .. t - 1 =>
                  r[n + 1] = w["host"][n + 1 - u] /\ n + 1 - u \in 1 .. Len(w["host"]) /\ r[n + 1] \in UserinfoChar
             /\ n \in k .. c - 1 => r[n + 1] \in Digit
             /\ n = c /\ n < d => r[n + 1] = "/"
  <2>1. n \in u .. t - 1 => r[n + 1] = w["host"][n + 1 - u] /\ n + 1 - u \in 1 .. Len(w["host"])
    BY <1>1, <1>2, PartLetters
  <2>2. n \in u .. t - 1 => r[n + 1] \in UserinfoChar
    BY <2>1, HostLetters
  <2>3. /\ n \in b .. b1 - 1 => r[n + 1] \in UserinfoChar
        /\ n \in k .. To(w, "port") - 1 => r[n + 1] \in Digit
        /\ n = c /\ n < d => r[n + 1] = "/"
    BY <1>1, <1>2, PartLetters
  <2> QED BY <1>3, <2>1, <2>2, <2>3
<1> SUFFICES ASSUME HasScheme(x) PROVE FALSE
  BY <1>1, <1>2
<1>8. PICK j \in 2 .. Len(x) - 2 :
        (\A i \in 2 .. j - 1 : x[i] \in HostChar) /\ SubSeq(x, j, j + 2) = <<":", "/", "/">>
  BY DEF HasScheme
<1>9. x[j] = ":" /\ x[j + 1] = "/"
  <2>1. SubSeq(x, j, j + 2)[1] = x[j] /\ SubSeq(x, j, j + 2)[2] = x[j + 1]
    OBVIOUS
  <2>2. <<":", "/", "/">>[1] = ":" /\ <<":", "/", "/">>[2] = "/"
    OBVIOUS
  <2>3. \A y : SubSeq(x, j, j + 2) = y => x[j] = y[1] /\ x[j + 1] = y[2]
    BY <2>1
  <2> HIDE DEF a, b, b1, u, t, k, c, d, d1, e, e1, z
  <2> QED BY <1>8, <2>2, <2>3
<1>10. PICK n \in Nat : n = j + 3 /\ n >= 5 /\ n + 3 <= z
  <2> HIDE DEF z
  <2> QED BY <1>1, <1>5
<1>11. \A i \in 1 .. Len(x) : r[4 + i] = x[i]
  BY <1>1 DEF Has
<1>12. r[n + 1] = ":" /\ r[n + 2] = "/"
  <2>1. j \in 1 .. Len(x) /\ j + 1 \in 1 .. Len(x) /\ 4 + j = n + 1 /\ 4 + (j + 1) = n + 2
    BY <1>10
  <2> QED BY <1>9, <1>11, <2>1
<1> HIDE DEF a, b, b1, u, t, k, c, d, d1, e, e1, z, at, colon, path, ask, hash, v
\* No "/" in the host part.
<1>13. ASSUME NEW m \in Nat, b <= m, m < c PROVE r[m + 1] # "/"
  <2>1. \/ m \in b .. b1 - 1
        \/ at /\ m = b1
        \/ v = 1 /\ m = u - 1
        \/ m \in u .. t - 1
        \/ v = 1 /\ m = t
        \/ colon /\ m = k - 1
        \/ m \in k .. c - 1
    BY <1>3, <1>4, <1>13
  <2>2. v = 1 => u - 1 + 1 = u
    BY <1>3
  <2>3. colon => k - 1 + 1 = k
    BY <1>3
  <2>4. r[m + 1] \in UserinfoChar \/ r[m + 1] \in Digit \/ r[m + 1] \in {"@", "[", "]", ":"}
    BY <1>5, <1>7, <2>1, <2>2, <2>3
  <2>5. "/" \notin UserinfoChar /\ Digit \subseteq UserinfoChar
    BY CharsApart
  <2> QED BY <2>4, <2>5
<1>14. n + 1 >= c
  <2> SUFFICES ASSUME n + 1 < c PROVE FALSE
    BY <1>3
  <2>1. r[n + 1 + 1] # "/"
    BY <1>6, <1>10, <1>13
  <2>2. n + 1 + 1 = n + 2
    OBVIOUS
  <2> QED BY <1>12, <2>1, <2>2
<1>15. n + 1 # c
  <2> SUFFICES ASSUME n + 1 = c PROVE FALSE
    OBVIOUS
  <2>1. CASE colon
    <3>1. n \in k .. c - 1
      BY <1>3, <1>4, <2>1
    <3>2. r[n + 1] \in Digit /\ ":" \notin Digit
      BY <1>7, <3>1, CharsApart
    <3> QED BY <1>12, <3>2
  <2>2. CASE ~colon /\ v = 1
    <3>1. n = t
      BY <1>3, <1>4, <2>2
    <3> QED BY <1>5, <1>12, <2>2, <3>1
  <2>3. CASE ~colon /\ v = 0
    <3>1. n \in u .. t - 1
      BY <1>3, <1>4, <2>3
    <3>2. w["host"] \in Seq(HostChar)
      BY <2>3, V6Is DEF IsName, v
    <3>3. \A y \in Seq(HostChar) : \A i \in 1 .. Len(y) : y[i] \in HostChar
      OBVIOUS
    <3>4. r[n + 1] \in HostChar /\ ":" \notin HostChar
      BY <1>7, <3>1, <3>2, <3>3, CharsApart
    <3> QED BY <1>12, <3>4
  <2> QED BY <1>4, <2>1, <2>2, <2>3
<1>16. n >= c /\ c < z /\ c >= 5
  <2>1. b <= b1 /\ b1 <= u - v /\ u < t /\ t + v <= k /\ k <= c
    BY Ascending DEF b, b1, u, v, t, k, c
  <2>2. v \in 0 .. 1
    BY <1>4
  <2> QED BY <1>3, <1>6, <1>10, <1>14, <1>15, <2>1, <2>2
<1>17. r[c + 1] \in {"/", "?", "#"}
  <2>1. CASE path
    BY <1>3, <1>4, <1>7, <2>1
  <2>2. CASE ~path /\ ask
    <3>1. d1 = c + 1
      BY <1>3, <1>4, <2>2
    <3> QED BY <1>5, <2>2, <3>1
  <2>3. CASE ~path /\ ~ask
    <3>1. hash /\ e1 = c + 1
      BY <1>3, <1>4, <1>16, <2>3
    <3> QED BY <1>5, <3>1
  <2> QED BY <2>1, <2>2, <2>3
<1>18. r[c + 1] \in HostChar \cup {":"}
  <2>1. CASE n = c
    BY <1>12, <2>1
  <2>2. CASE n # c
    <3>1. PICK i \in 2 .. j - 1 : 4 + i = c + 1
      <4>1. c - 3 \in 2 .. j - 1 /\ 4 + (c - 3) = c + 1
        BY <1>3, <1>10, <1>16, <2>2
      <4> QED BY <4>1
    <3>2. i \in 1 .. Len(x)
      OBVIOUS
    <3>3. r[4 + i] = x[i] /\ x[i] \in HostChar
      BY <1>8, <1>11, <3>2
    <3> QED BY <3>1, <3>3
  <2> QED BY <2>1, <2>2
<1>19. {"/", "?", "#"} \cap (HostChar \cup {":"}) = {}
  BY CharsApart
<1> QED BY <1>17, <1>18, <1>19

-----------------------------------------------------------------------------
(* Reading it.                                                             *)

LEMMA GivenLayout ==
  ASSUME NEW w \in Parts, NEW x \in Seq(Char), x = Whole(w), Len(WithScheme(x)) < UrlSize
  PROVE  Layout(w, Cut(WithScheme(x), UrlSize))
<1> DEFINE r == WithScheme(x)
<1>1. r \in Seq(Char) /\ Layout(w, r)
  <2>1. CASE w["schema"] = <<>>
    <3> DEFINE y == <<"http", ":", "/", "/">> \o x
    <3>1. y \in Seq(Char) /\ Layout(w, y) /\ ~HasScheme(x)
      BY <2>1, SchemeAdded
    <3>2. r = y
      BY <3>1 DEF WithScheme
    <3> QED BY <3>1, <3>2
  <2>2. CASE w["schema"] # <<>>
    <3>1. Layout(w, x) /\ HasScheme(x)
      BY <2>2, SchemeFound
    <3> QED BY <3>1 DEF WithScheme
  <2> QED BY <2>1, <2>2
<1> HIDE DEF r
<1>2. Cut(r, UrlSize) = SubSeq(r, 1, Len(r))
  BY DEF Cut, r
<1>3. SubSeq(r, 1, Len(r)) = r
  BY <1>1
<1> QED BY <1>1, <1>2, <1>3 DEF r

\* One character more is in the part, or it is not.
LEMMA WithinStep ==
  ASSUME NEW n \in Nat, NEW from \in Nat, NEW to \in Nat, from <= to
  PROVE  /\ from <= n /\ n < to => /\ Within(n, from, to) = n - from
                                   /\ Within(n + 1, from, to) = Within(n, from, to) + 1
         /\ ~(from <= n /\ n < to) => Within(n + 1, from, to) = Within(n, from, to)
         /\ n <= from => Within(n, from, to) = 0
         /\ to <= n => Within(n, from, to) = to - from
         /\ Within(n, from, to) \in Nat
BY DEF Within

\* The field of the character that led to a place.
LEMMA ScanTakes ==
  ASSUME NEW w \in Parts, NEW n \in Nat, n < To(w, "fragment")
  PROVE  /\ \A f \in Field :
              ScanField(ScanAt(w, n + 1)) = f <=> f \in InScan /\ ScanFrom(w, f) <= n /\ n < ScanTo(w, f)
         /\ ScanField(ScanAt(w, n + 1)) \in Field \cup {NoField}
         /\ ScanAt(w, n + 1) # "s_dead"
         /\ ScanAt(w, n + 1) = "s_req_server_with_at" <=> w["userinfo"] # <<>> /\ n = To(w, "userinfo")
<1> DEFINE a == To(w, "schema")
           b == From(w, "userinfo")
           b1 == To(w, "userinfo")
           u == From(w, "host")
           t == To(w, "host")
           k == From(w, "port")
           c == From(w, "path")
           d == To(w, "path")
           d1 == From(w, "query")
           e == To(w, "query")
           e1 == From(w, "fragment")
           z == To(w, "fragment")
           at == w["userinfo"] # <<>>
           colon == w["port"] # <<>>
           path == w["path"] # <<>>
           ask == w["query"] # <<>>
           hash == w["fragment"] # <<>>
           v == V6(w)
           m == n + 1
           S == ScanAt(w, n + 1)
           uf == ScanField(S)
<1>1. /\ a \in Nat /\ b \in Nat /\ b1 \in Nat /\ u \in Nat /\ t \in Nat /\ k \in Nat /\ c \in Nat /\ d \in Nat
      /\ d1 \in Nat /\ e \in Nat /\ e1 \in Nat /\ z \in Nat
      /\ a > 0 /\ b = a + 3 /\ u < t /\ To(w, "port") = c /\ From(w, "schema") = 0
  BY Chain
<1>2. /\ ~at => b1 = b /\ u = b1 + v
      /\ at => b1 > b /\ u = b1 + 1 + v
      /\ ~colon => k = t + v /\ c = k
      /\ colon => k = t + v + 1 /\ c > k
      /\ ~path => d = c
      /\ path => d > c
      /\ ~ask => d1 = d /\ e = d1
      /\ ask => d1 = d + 1 /\ e > d1
      /\ ~hash => e1 = e /\ z = e1
      /\ hash => e1 = e + 1 /\ z > e1
      /\ v \in 0 .. 1
  BY Chain
<1>3. b <= b1 /\ b1 <= u - v /\ t + v <= k /\ k <= c /\ c <= d /\ d <= d1 /\ d1 <= e /\ e <= e1 /\ e1 <= z
  BY Ascending
<1>4. \A i \in 0 .. z :
        /\ i \in 1 .. a => ScanAt(w, i) = "s_req_schema"
        /\ i = a + 1 => ScanAt(w, i) = "s_req_schema_slash"
        /\ i = a + 2 => ScanAt(w, i) = "s_req_schema_slash_slash"
        /\ i = b => ScanAt(w, i) = "s_req_server_start"
        /\ i \in b + 1 .. c => ScanAt(w, i) = IF i = b1 + 1 /\ at THEN "s_req_server_with_at" ELSE "s_req_server"
        /\ i \in c + 1 .. d => ScanAt(w, i) = "s_req_path"
        /\ i = d1 /\ ask => ScanAt(w, i) = "s_req_query_string_start"
        /\ i \in d1 + 1 .. e => ScanAt(w, i) = "s_req_query_string"
        /\ i = e1 /\ hash => ScanAt(w, i) = "s_req_fragment_start"
        /\ i \in e1 + 1 .. z => ScanAt(w, i) = "s_req_fragment"
  BY ScanPlaces
<1>5. \A f \in Field : f \in InScan /\ ScanFrom(w, f) <= n /\ n < ScanTo(w, f) <=>
        \/ f = "schema" /\ 0 <= n /\ n < a
        \/ f = "host" /\ b <= n /\ n < c
        \/ f = "path" /\ c <= n /\ n < d
        \/ f = "query" /\ d1 <= n /\ n < e
        \/ f = "fragment" /\ e1 <= n /\ n < z
  BY <1>1 DEF InScan, ScanFrom, ScanTo
<1>6. n < z
  OBVIOUS
<1> HIDE DEF a, b, b1, u, t, k, c, d, d1, e, e1, z, at, colon, path, ask, hash, v
<1>7. m \in Nat /\ m \in 0 .. z /\ n = m - 1
  BY <1>1, <1>6
<1>8. /\ n < a => m \in 1 .. a
      /\ n >= a /\ n < b => m = a + 1 \/ m = a + 2 \/ m = b
      /\ n >= b /\ n < c => m \in b + 1 .. c
      /\ n >= c /\ n < d => m \in c + 1 .. d
      /\ n >= d /\ n < d1 => m = d1 /\ ask
      /\ n >= d1 /\ n < e => m \in d1 + 1 .. e
      /\ n >= e /\ n < e1 => m = e1 /\ hash
      /\ n >= e1 => m \in e1 + 1 .. z
  <2>1. n < a => m \in 1 .. a
    BY <1>1
  <2>2. n >= a /\ n < b => m = a + 1 \/ m = a + 2 \/ m = b
    BY <1>1
  <2>3. n >= b /\ n < c => m \in b + 1 .. c
    BY <1>1
  <2>4. n >= c /\ n < d => m \in c + 1 .. d
    BY <1>1
  <2>5. n >= d /\ n < d1 => m = d1 /\ ask
    BY <1>1, <1>2
  <2>6. n >= d1 /\ n < e => m \in d1 + 1 .. e
    BY <1>1
  <2>7. n >= e /\ n < e1 => m = e1 /\ hash
    BY <1>1, <1>2
  <2>8. n >= e1 => m \in e1 + 1 .. z
    BY <1>1, <1>6
  <2> QED BY <2>1, <2>2, <2>3, <2>4, <2>5, <2>6, <2>7, <2>8
<1>9. a < b /\ b < c
  <2>1. v \in 0 .. 1
    BY <1>2
  <2> QED BY <1>1, <1>3, <2>1
<1>10. b1 < c
  <2>1. v \in 0 .. 1
    BY <1>2
  <2> QED BY <1>1, <1>3, <2>1
<1> HIDE DEF m
<1>11. /\ \A f \in Field : uf = f <=> \/ f = "schema" /\ 0 <= n /\ n < a
                                      \/ f = "host" /\ b <= n /\ n < c
                                      \/ f = "path" /\ c <= n /\ n < d
                                      \/ f = "query" /\ d1 <= n /\ n < e
                                      \/ f = "fragment" /\ e1 <= n /\ n < z
       /\ uf \in Field \cup {NoField}
       /\ S # "s_dead"
       /\ S = "s_req_server_with_at" <=> at /\ n = b1
  <2> DEFINE Q(name) == /\ \A f \in Field : f = name <=>
                             \/ f = "schema" /\ 0 <= n /\ n < a
                             \/ f = "host" /\ b <= n /\ n < c
                             \/ f = "path" /\ c <= n /\ n < d
                             \/ f = "query" /\ d1 <= n /\ n < e
                             \/ f = "fragment" /\ e1 <= n /\ n < z
                        /\ name \in Field \cup {NoField}
  <2>0. S = ScanAt(w, m)
    BY DEF m
  <2>1. CASE n < a
    <3>1. S = "s_req_schema"
      BY <1>4, <1>7, <1>8, <2>0, <2>1
    <3>2. Q("schema")
      BY <1>1, <1>3, <1>9, <2>1 DEF Field
    <3>3. n # b1
      BY <1>1, <1>3, <1>9, <2>1
    <3> QED BY <3>1, <3>2, <3>3 DEF ScanField
  <2>2. CASE n >= a /\ n < b
    <3>1. S \in {"s_req_schema_slash", "s_req_schema_slash_slash", "s_req_server_start"}
      BY <1>4, <1>7, <1>8, <2>0, <2>2
    <3>2. Q(NoField)
      BY <1>1, <1>3, <1>9, <2>2 DEF Field, NoField
    <3>3. n # b1 /\ uf = NoField
      BY <1>1, <1>3, <2>2, <3>1 DEF ScanField
    <3> QED BY <3>1, <3>2, <3>3
  <2>3. CASE n >= b /\ n < c
    <3>1. S = IF m = b1 + 1 /\ at THEN "s_req_server_with_at" ELSE "s_req_server"
      BY <1>4, <1>7, <1>8, <2>0, <2>3
    <3>2. Q("host")
      BY <1>1, <1>3, <1>9, <2>3 DEF Field
    <3>3. m = b1 + 1 <=> n = b1
      BY <1>1, <1>7
    <3>4. uf = "host"
      BY <3>1 DEF ScanField
    <3> QED BY <3>1, <3>2, <3>3, <3>4
  <2>4. CASE n >= c /\ n < d
    <3>1. S = "s_req_path"
      BY <1>4, <1>7, <1>8, <2>0, <2>4
    <3>2. Q("path")
      BY <1>1, <1>3, <1>9, <2>4 DEF Field
    <3>3. n # b1 /\ uf = "path"
      BY <1>1, <1>3, <2>4, <3>1, <1>10 DEF ScanField
    <3> QED BY <3>1, <3>2, <3>3
  <2>5. CASE n >= d /\ n < d1
    <3>1. S = "s_req_query_string_start"
      BY <1>4, <1>7, <1>8, <2>0, <2>5
    <3>2. Q(NoField)
      BY <1>1, <1>3, <1>9, <2>5 DEF Field, NoField
    <3>3. n # b1 /\ uf = NoField
      BY <1>1, <1>3, <2>5, <3>1, <1>10 DEF ScanField
    <3> QED BY <3>1, <3>2, <3>3
  <2>6. CASE n >= d1 /\ n < e
    <3>1. S = "s_req_query_string"
      BY <1>4, <1>7, <1>8, <2>0, <2>6
    <3>2. Q("query")
      BY <1>1, <1>3, <1>9, <2>6 DEF Field
    <3>3. n # b1 /\ uf = "query"
      BY <1>1, <1>3, <2>6, <3>1, <1>10 DEF ScanField
    <3> QED BY <3>1, <3>2, <3>3
  <2>7. CASE n >= e /\ n < e1
    <3>1. S = "s_req_fragment_start"
      BY <1>4, <1>7, <1>8, <2>0, <2>7
    <3>2. Q(NoField)
      BY <1>1, <1>3, <1>9, <2>7 DEF Field, NoField
    <3>3. n # b1 /\ uf = NoField
      BY <1>1, <1>3, <2>7, <3>1, <1>10 DEF ScanField
    <3> QED BY <3>1, <3>2, <3>3
  <2>8. CASE n >= e1
    <3>1. S = "s_req_fragment"
      BY <1>4, <1>7, <1>8, <2>0, <2>8
    <3>2. Q("fragment")
      BY <1>1, <1>3, <1>6, <1>9, <2>8 DEF Field
    <3>3. n # b1 /\ uf = "fragment"
      BY <1>1, <1>3, <2>8, <3>1, <1>10 DEF ScanField
    <3> QED BY <3>1, <3>2, <3>3
  <2> QED BY <1>1, <2>1, <2>2, <2>3, <2>4, <2>5, <2>6, <2>7, <2>8
<1> QED BY <1>5, <1>11 DEF S, at, b1

LEMMA HostTakes ==
  ASSUME NEW w \in Parts, NEW n \in Nat, n >= From(w, "userinfo"), n < To(w, "port")
  PROVE  /\ \A f \in Field :
              HostField(HostAt(w, n + 1)) = f <=> f \in InHost /\ From(w, f) <= n /\ n < To(w, f)
         /\ HostField(HostAt(w, n + 1)) \in InHost \cup {NoField}
         /\ HostAt(w, n + 1) # "s_http_host_dead"
         /\ \A f \in InHost : HostField(HostAt(w, n + 1)) = f =>
              (HostAt(w, n + 1) # HostAt(w, n) /\ HostAt(w, n + 1) \notin InBrackets \ {"s_http_host_v6"}
                 <=> n = From(w, f))
<1> DEFINE b == From(w, "userinfo")
           b1 == To(w, "userinfo")
           u == From(w, "host")
           t == To(w, "host")
           k == From(w, "port")
           c == To(w, "port")
           at == w["userinfo"] # <<>>
           colon == w["port"] # <<>>
           v == V6(w)
           z == Zone(w)
           m == n + 1
           R == HostAt(w, n)
           S == HostAt(w, n + 1)
           starts == S # R /\ S \notin InBrackets \ {"s_http_host_v6"}
           uf == HostField(S)
           At(f) == IF f = "userinfo" THEN b <= n /\ n < b1 ELSE IF f = "host" THEN u <= n /\ n < t
                    ELSE k <= n /\ n < c
           Begin(f) == IF f = "userinfo" THEN n = b ELSE IF f = "host" THEN n = u ELSE n = k
<1>1. /\ b \in Nat /\ b1 \in Nat /\ u \in Nat /\ t \in Nat /\ k \in Nat /\ c \in Nat /\ u < t
      /\ ~at => b1 = b /\ u = b1 + v
      /\ at => b1 > b /\ u = b1 + 1 + v
      /\ ~colon => k = t + v /\ c = k
      /\ colon => k = t + v + 1 /\ c > k
      /\ v \in 0 .. 1
  BY Chain
<1>2. v = 1 => z \in Nat /\ z > 0 /\ u + z <= t
  <2>1. v = 1 => z \in 1 .. Len(w["host"])
    BY V6Is
  <2>2. t = u + Len(w["host"]) /\ Len(w["host"]) \in Nat
    <3>1. "host" \in Field \ {"schema"}
      BY DEF Field
    <3> QED BY <3>1, Order, PartIsSeq
  <2> HIDE DEF z, v, u, t
  <2> QED BY <1>1, <2>1, <2>2
<1>3. b <= b1 /\ b1 <= u - v /\ t + v <= k /\ k <= c
  BY Ascending
<1>4. \A i \in b .. c :
        /\ i = b /\ at => HostAt(w, i) = "s_http_userinfo_start"
        /\ i \in b + 1 .. b1 => HostAt(w, i) = "s_http_userinfo"
        /\ i = u - v => HostAt(w, i) = "s_http_host_start"
        /\ v = 0 /\ i \in u + 1 .. t => HostAt(w, i) = "s_http_host"
        /\ v = 1 /\ i = u => HostAt(w, i) = "s_http_host_v6_start"
        /\ v = 1 /\ i \in u + 1 .. u + z => HostAt(w, i) = "s_http_host_v6"
        /\ v = 1 /\ i = u + z + 1 /\ i <= t => HostAt(w, i) = "s_http_host_v6_zone_start"
        /\ v = 1 /\ i \in u + z + 2 .. t => HostAt(w, i) = "s_http_host_v6_zone"
        /\ v = 1 /\ i = t + 1 => HostAt(w, i) = "s_http_host_v6_end"
        /\ i = k /\ colon => HostAt(w, i) = "s_http_host_port_start"
        /\ i \in k + 1 .. c => HostAt(w, i) = "s_http_host_port"
  BY HostPlaces
<1>5. b <= n /\ n < c
  OBVIOUS
<1>6. InHost = {"userinfo", "host", "port"} /\ InHost \subseteq Field
  BY DEF InHost, Field
<1>7. \A f \in InHost : (At(f) <=> From(w, f) <= n /\ n < To(w, f)) /\ (Begin(f) <=> n = From(w, f))
  BY <1>6
<1> HIDE DEF b, b1, u, t, k, c, at, colon, v, z, m
<1>8. n \in b .. c /\ m \in b .. c /\ m \in Nat /\ n = m - 1 /\ m = n + 1
  BY <1>1, <1>5 DEF m
<1>9. S = HostAt(w, m)
  BY DEF m
<1>10. /\ \A f \in Field : uf = f <=> f \in InHost /\ At(f)
       /\ uf \in InHost \cup {NoField} /\ S # "s_http_host_dead"
       /\ \A f \in InHost : uf = f => (starts <=> Begin(f))
  <2> USE DEF HostField, HostStates, InBrackets, NoField, Field
  <2> HIDE DEF S, R
  <2>1. CASE n < b1
    <3>1. m \in b + 1 .. b1 /\ (n = b \/ n \in b + 1 .. b1) /\ at
      BY <1>1, <1>5, <1>8, <2>1
    <3>2. S = "s_http_userinfo" /\ (n = b => R = "s_http_userinfo_start") /\ (n # b => R = "s_http_userinfo")
      BY <1>4, <1>8, <1>9, <3>1 DEF R
    <3>3. At("userinfo") /\ ~At("host") /\ ~At("port")
      <4>1. ~(u <= n) /\ ~(k <= n)
        BY <1>1, <1>3, <2>1
      <4> QED BY <1>5, <2>1, <4>1
    <3> QED BY <1>6, <3>2, <3>3
  <2>2. CASE n >= b1 /\ n < u
    <3>1. m = u - v \/ (v = 1 /\ m = u)
      BY <1>1, <1>8, <2>2
    <3>2. S \in {"s_http_host_start", "s_http_host_v6_start"}
      BY <1>4, <1>8, <1>9, <3>1
    <3>3. ~At("userinfo") /\ ~At("host") /\ ~At("port")
      <4>1. ~(n < b1) /\ ~(u <= n) /\ ~(k <= n)
        BY <1>1, <1>3, <2>2
      <4> QED BY <4>1
    <3> QED BY <1>6, <3>2, <3>3
  <2>3. CASE n >= u /\ n < t
    <3>1. ~At("userinfo") /\ At("host") /\ ~At("port")
      <4>1. ~(n < b1) /\ ~(k <= n)
        BY <1>1, <1>3, <2>3
      <4> QED BY <2>3, <4>1
    <3>2. CASE v = 0
      <4>1. m \in u + 1 .. t /\ (n = u \/ n \in u + 1 .. t)
        BY <1>1, <1>8, <2>3
      <4>2. n = u => n = u - v
        BY <1>1, <3>2
      <4>3. S = "s_http_host" /\ (n = u => R = "s_http_host_start") /\ (n # u => R = "s_http_host")
        BY <1>4, <1>8, <1>9, <3>2, <4>1, <4>2 DEF R
      <4> QED BY <1>6, <3>1, <4>3
    <3>3. CASE v = 1 /\ n < u + z
      <4>1. m \in u + 1 .. u + z /\ (n = u \/ n \in u + 1 .. u + z)
        BY <1>1, <1>2, <1>8, <2>3, <3>3
      <4>2. S = "s_http_host_v6" /\ (n = u => R = "s_http_host_v6_start") /\ (n # u => R = "s_http_host_v6")
        BY <1>4, <1>8, <1>9, <3>3, <4>1 DEF R
      <4> QED BY <1>6, <3>1, <4>2
    <3>4. CASE v = 1 /\ n >= u + z
      <4>1. m <= t /\ (m = u + z + 1 \/ m \in u + z + 2 .. t) /\ n # u
        BY <1>1, <1>2, <1>8, <2>3, <3>4
      <4>2. S \in {"s_http_host_v6_zone_start", "s_http_host_v6_zone"}
        BY <1>4, <1>8, <1>9, <3>4, <4>1
      <4> QED BY <1>6, <3>1, <4>1, <4>2
    <3> QED BY <1>1, <1>2, <3>2, <3>3, <3>4
  <2>4. CASE n >= t /\ n < k
    <3>1. (v = 1 /\ m = t + 1) \/ (colon /\ m = k)
      BY <1>1, <1>8, <2>4
    <3>2. S \in {"s_http_host_v6_end", "s_http_host_port_start"}
      BY <1>4, <1>8, <1>9, <3>1
    <3>3. ~At("userinfo") /\ ~At("host") /\ ~At("port")
      <4>1. ~(n < b1) /\ ~(n < t) /\ ~(k <= n)
        BY <1>1, <1>3, <2>4
      <4> QED BY <4>1
    <3> QED BY <1>6, <3>2, <3>3
  <2>5. CASE n >= k
    <3>1. m \in k + 1 .. c /\ (n = k \/ n \in k + 1 .. c) /\ colon
      BY <1>1, <1>5, <1>8, <2>5
    <3>2. S = "s_http_host_port" /\ (n = k => R = "s_http_host_port_start") /\ (n # k => R = "s_http_host_port")
      BY <1>4, <1>8, <1>9, <3>1 DEF R
    <3>3. ~At("userinfo") /\ ~At("host") /\ At("port")
      <4>1. ~(n < b1) /\ ~(n < t)
        BY <1>1, <1>3, <2>5
      <4> QED BY <1>5, <2>5, <4>1
    <3> QED BY <1>6, <3>2, <3>3
  <2>6. n < b1 \/ (n >= b1 /\ n < u) \/ (n >= u /\ n < t) \/ (n >= t /\ n < k) \/ n >= k
    BY <1>1
  <2> QED BY <2>1, <2>2, <2>3, <2>4, <2>5, <2>6
<1> HIDE DEF At, Begin
<1> QED BY <1>6, <1>7, <1>10 DEF S, R

\* Where the fields of the two scans are.
LEMMA ScanSpots ==
  ASSUME NEW w \in Parts, NEW f \in InScan
  PROVE  /\ ScanFrom(w, f) \in Nat /\ ScanTo(w, f) \in Nat /\ ScanFrom(w, f) <= ScanTo(w, f)
         /\ ScanTo(w, f) <= To(w, "fragment")
<1>1. \A g \in Field : From(w, g) \in Nat /\ To(w, g) \in Nat /\ From(w, g) <= To(w, g)
  BY Order
<1>2. InScan \subseteq Field /\ {"userinfo", "port"} \subseteq Field
  BY DEF InScan, Field
<1>3. From(w, "userinfo") <= To(w, "port")
  BY <1>1, <1>2, Ascending
<1>4. f \in {"schema", "host", "path", "query", "fragment"}
  BY DEF InScan
<1> DEFINE a == To(w, "schema")
           c == From(w, "path")
           b == From(w, "userinfo")
           t == To(w, "port")
           d == To(w, "path")
           k == From(w, "query")
           e == To(w, "query")
           h == From(w, "fragment")
           z == To(w, "fragment")
<1>5. a \in Nat /\ b \in Nat /\ t \in Nat /\ c \in Nat /\ d \in Nat /\ k \in Nat /\ e \in Nat /\ h \in Nat /\ z \in Nat
  BY <1>1, <1>2 DEF InScan
<1>6. a < b /\ b <= t /\ t = c /\ c <= d /\ d <= k /\ k <= e /\ e <= h /\ h <= z
  <2>1. b = a + 3 /\ t = c /\ c <= d /\ d <= k /\ k <= e /\ e <= h /\ h <= z
    BY Ascending
  <2> HIDE DEF a, b, t, c, d, k, e, h, z
  <2> QED BY <1>3, <1>5, <2>1 DEF b, t
<1>7. a <= z /\ t <= z /\ d <= z /\ e <= z
  <2> HIDE DEF a, b, t, c, d, k, e, h, z
  <2> QED BY <1>5, <1>6
<1>8. CASE f = "host"
  BY <1>3, <1>5, <1>7, <1>8 DEF ScanFrom, ScanTo
<1>9. CASE f # "host"
  <2>1. ScanFrom(w, f) = From(w, f) /\ ScanTo(w, f) = To(w, f)
    BY <1>9 DEF ScanFrom, ScanTo
  <2>2. To(w, f) <= z
    BY <1>4, <1>5, <1>7, <1>9
  <2> QED BY <1>1, <1>2, <2>1, <2>2
<1> QED BY <1>8, <1>9

LEMMA HostSpots ==
  ASSUME NEW w \in Parts, NEW f \in InHost
  PROVE  /\ From(w, f) \in Nat /\ To(w, f) \in Nat /\ From(w, f) <= To(w, f)
         /\ From(w, "userinfo") <= From(w, f) /\ To(w, f) <= To(w, "port")
<1>1. \A g \in Field : From(w, g) \in Nat /\ To(w, g) \in Nat /\ From(w, g) <= To(w, g)
  BY Order
<1>2. InHost \subseteq Field
  BY DEF InHost, Field
<1> DEFINE b == From(w, "userinfo")
           b1 == To(w, "userinfo")
           u == From(w, "host")
           t == To(w, "host")
           k == From(w, "port")
           z == To(w, "port")
           v == V6(w)
<1>3. b \in Nat /\ b1 \in Nat /\ u \in Nat /\ t \in Nat /\ k \in Nat /\ z \in Nat
  BY <1>1, <1>2 DEF InHost
<1>4. v \in 0 .. 1 /\ b <= b1 /\ b1 <= u - v /\ u < t /\ t + v <= k /\ k <= z
  <2>1. b <= b1 /\ b1 <= u - v /\ u < t /\ t + v <= k /\ k <= From(w, "path") /\ z = From(w, "path")
    BY Ascending
  <2> QED BY <2>1, V6Is
<1>5. b <= u /\ b <= k /\ b1 <= z /\ t <= z
  <2> HIDE DEF b, b1, u, t, k, z, v
  <2> QED BY <1>3, <1>4
<1>6. f \in {"userinfo", "host", "port"}
  BY DEF InHost
<1> QED BY <1>1, <1>2, <1>3, <1>5, <1>6

-----------------------------------------------------------------------------
(* The steps of parse_url, when the URL was written from w.                 *)

LEMMA ReadsGiven ==
  ASSUME UrlInv, ~found_at, NEW u, GiveUrl(u), u.url \in Seq(Char), NEW w \in Parts, u.url = Whole(w), Fits(w)
  PROVE  ReadsAs(w)'
<1>1. /\ stage = "none" /\ stage' = "scan" /\ real_url' = Cut(WithScheme(u.url), UrlSize)
      /\ UNCHANGED <<p, s, old_uf, found_at, limit, field_set, off, len>>
  BY DEF GiveUrl, scanner
<1>2. Layout(w, real_url')
  <2>1. Len(WithScheme(u.url)) < UrlSize
    BY DEF Fits
  <2> QED BY <1>1, <2>1, GivenLayout
<1>3. p = 0 /\ s = "s_req_spaces_before_url" /\ len = [f \in Field |-> 0]
  BY <1>1 DEF UrlInv
<1>4. s' = ScanAt(w, p')
  <2>1. To(w, "fragment") \in Nat
    BY Chain
  <2>2. 0 \in 0 .. To(w, "fragment")
    BY <2>1
  <2>3. ScanAt(w, 0) = "s_req_spaces_before_url"
    BY <2>2, ScanPlaces
  <2> QED BY <1>1, <1>3, <2>3
<1>5. found_at' <=> w["userinfo"] # <<>> /\ p' > To(w, "userinfo")
  <2>1. To(w, "userinfo") \in Nat
    BY Chain
  <2>2. ~(0 > To(w, "userinfo"))
    BY <2>1
  <2> QED BY <1>1, <1>3, <2>2
<1>6. ASSUME NEW f \in InScan
      PROVE  len'[f] = Within(p', ScanFrom(w, f), ScanTo(w, f)) /\ Placed(f, ScanFrom(w, f))'
  <2>1. f \in Field
    BY DEF InScan, Field
  <2>2. len'[f] = 0 /\ p' = 0
    BY <1>1, <1>3, <2>1
  <2>3. Within(0, ScanFrom(w, f), ScanTo(w, f)) = 0
    BY ScanSpots DEF Within
  <2> QED BY <2>2, <2>3 DEF Placed
<1>7. ScanReads(w)'
  BY <1>4, <1>5, <1>6 DEF ScanReads
<1> QED BY <1>1, <1>2, <1>7 DEF ReadsAs

\* The scanner goes on, and the field of the character is one longer.
LEMMA ReadsScanned ==
  ASSUME UrlInv, UrlInv', Spans, ScanChar, NEW w \in Parts, Fits(w), ReadsAs(w)
  PROVE  ReadsAs(w)'
<1> DEFINE next == parse_url_char(s, real_url[p + 1])
           uf == ScanField(next)
<1>1. /\ stage = "scan" /\ p \in Nat /\ p < Len(real_url) /\ real_url \in Seq(Char)
      /\ Layout(w, real_url) /\ ScanReads(w) /\ ScanSpans
      /\ off \in [Field -> Nat] /\ len \in [Field -> Nat]
  BY DEF ScanChar, UrlInv, Spans, ReadsAs
<1>2. Len(real_url) = To(w, "fragment") /\ To(w, "fragment") \in Nat /\ p \in 0 .. Len(real_url) - 1
      /\ p < To(w, "fragment")
  BY <1>1, Chain DEF Layout
<1>3. next = ScanAt(w, p + 1)
  BY <1>1, <1>2, ScanGoes DEF ScanReads, Fits
<1>4. next # "s_dead"
  BY <1>1, <1>2, <1>3, ScanTakes
<1>5. ScanMoves(next)
  BY <1>1, <1>4, ScanCharMoves
<1>6. \A f \in Field : uf = f <=> f \in InScan /\ ScanFrom(w, f) <= p /\ p < ScanTo(w, f)
  BY <1>1, <1>2, <1>3, ScanTakes
<1>7. next = "s_req_server_with_at" <=> w["userinfo"] # <<>> /\ p = To(w, "userinfo")
  BY <1>1, <1>2, <1>3, ScanTakes
<1>8. found_at' <=> w["userinfo"] # <<>> /\ p' > To(w, "userinfo")
  <2>1. found_at' <=> found_at \/ next = "s_req_server_with_at"
    <3>1. next = "s_req_server_with_at" => uf # NoField
      BY DEF ScanField, NoField
    <3> HIDE DEF next
    <3>2. \/ uf = NoField /\ found_at' = found_at
          \/ uf # NoField /\ found_at' = (found_at \/ next = "s_req_server_with_at")
      BY <1>4 DEF ScanChar, Reject, next
    <3>3. CASE uf = NoField
      <4>1. found_at' = found_at /\ next # "s_req_server_with_at"
        BY <3>1, <3>2, <3>3
      <4> QED BY <4>1
    <3>4. CASE uf # NoField
      <4>1. found_at' = (found_at \/ next = "s_req_server_with_at")
        BY <3>2, <3>4
      <4> QED BY <4>1, Zenon
    <3> QED BY <3>3, <3>4
  <2>2. To(w, "userinfo") \in Nat
    BY Chain
  <2>3. p' = p + 1 /\ (found_at <=> w["userinfo"] # <<>> /\ p > To(w, "userinfo"))
    BY <1>1, <1>5 DEF ScanMoves, ScanReads
  <2> DEFINE m == To(w, "userinfo")
             at == w["userinfo"] # <<>>
             found == next = "s_req_server_with_at"
  <2>4. (found <=> at /\ p = m) /\ (found_at <=> at /\ p > m) /\ m \in Nat /\ (found_at' <=> found_at \/ found)
    BY <1>7, <2>1, <2>2, <2>3
  <2> HIDE DEF m, at, found, next
  <2>5. found_at' <=> at /\ p + 1 > m
    BY <1>1, <2>4
  <2> QED BY <2>3, <2>5 DEF at, m
<1> HIDE DEF next
<1>9. ASSUME NEW f \in InScan
      PROVE  len'[f] = Within(p', ScanFrom(w, f), ScanTo(w, f)) /\ Placed(f, ScanFrom(w, f))'
  <2> DEFINE from == ScanFrom(w, f)
             to == ScanTo(w, f)
  <2>1. from \in Nat /\ to \in Nat /\ from <= to
    BY ScanSpots
  <2>2. f \in Field /\ f # NoField
    BY DEF InScan, Field, NoField
  <2>3. len[f] = Within(p, from, to) /\ Placed(f, from) /\ p' = p + 1
    BY <1>1, <1>5 DEF ScanReads, ScanMoves
  <2>4. uf = f <=> from <= p /\ p < to
    BY <1>6, <2>2
  <2> HIDE DEF from, to
  <2>5. CASE from <= p /\ p < to
    <3>1. Grows(f)
      BY <1>5, <2>2, <2>4, <2>5 DEF ScanMoves
    <3>2. len'[f] = len[f] + 1 /\ off'[f] = IF len[f] = 0 THEN p ELSE off[f]
      BY <3>1 DEF Grows
    <3>3. len[f] = p - from /\ len'[f] = Within(p + 1, from, to)
      <4>1. Within(p, from, to) = p - from /\ Within(p + 1, from, to) = Within(p, from, to) + 1
        BY <1>1, <2>1, <2>5, WithinStep
      <4> QED BY <2>3, <3>2, <4>1
    <3>4. off'[f] = from
      <4>1. CASE len[f] = 0
        BY <1>1, <2>1, <3>2, <3>3, <4>1
      <4>2. CASE len[f] # 0
        <5>1. len[f] > 0
          BY <1>1, <2>2, <4>2
        <5> QED BY <2>3, <3>2, <4>2, <5>1 DEF Placed
      <4> QED BY <4>1, <4>2
    <3> QED BY <2>3, <3>3, <3>4 DEF Placed, from, to
  <2>6. CASE ~(from <= p /\ p < to)
    <3>1. uf # f
      BY <2>4, <2>6
    <3>2. len'[f] = len[f] /\ off'[f] = off[f]
      BY <1>5, <2>2, <3>1 DEF ScanMoves, Grows
    <3>3. Within(p + 1, from, to) = Within(p, from, to)
      BY <1>1, <2>1, <2>6, WithinStep
    <3> QED BY <2>3, <3>2, <3>3 DEF Placed, from, to
  <2> QED BY <2>5, <2>6
<1>10. s' = ScanAt(w, p') /\ stage' = "scan" /\ real_url' = real_url
  BY <1>1, <1>3, <1>5 DEF ScanMoves, next
<1>11. ScanReads(w)'
  BY <1>8, <1>9, <1>10 DEF ScanReads
<1> QED BY <1>1, <1>10, <1>11 DEF ReadsAs

\* The host part is found, and is read again.
LEMMA ReadsEnded ==
  ASSUME UrlInv, Spans, ScanEnd, NEW w \in Parts, Fits(w), ReadsAs(w)
  PROVE  ReadsAs(w)'
<1> DEFINE b == From(w, "userinfo")
           b1 == To(w, "userinfo")
           u == From(w, "host")
           c == To(w, "port")
           z == To(w, "fragment")
<1>1. /\ stage = "scan" /\ p = Len(real_url) /\ Layout(w, real_url) /\ ScanReads(w) /\ ScanInv
      /\ off \in [Field -> Nat] /\ len \in [Field -> Nat]
  BY DEF ScanEnd, UrlInv, ReadsAs
<1>2. p = z
  BY <1>1 DEF Layout
<1>3. b \in Nat /\ b1 \in Nat /\ u \in Nat /\ c \in Nat /\ z \in Nat /\ b < c /\ c <= z /\ b1 < z /\ b <= u
  <2>1. /\ b \in Nat /\ b1 \in Nat /\ u \in Nat /\ z \in Nat /\ To(w, "host") \in Nat /\ c = From(w, "path")
        /\ From(w, "path") \in Nat /\ From(w, "port") \in Nat
    BY Chain
  <2>2. /\ V6(w) \in 0 .. 1 /\ b <= b1 /\ b1 <= u - V6(w) /\ u < To(w, "host") /\ To(w, "host") + V6(w) <= From(w, "port")
        /\ From(w, "port") <= From(w, "path") /\ c = From(w, "path") /\ c <= z
    BY Ascending, V6Is
  <2> DEFINE t == To(w, "host")
             k == From(w, "port")
             v == V6(w)
             d == From(w, "path")
  <2> HIDE DEF b, b1, u, c, z, t, k, v, d
  <2>3. c \in Nat /\ b < c /\ c <= z /\ b1 < z /\ b <= u
    BY <2>1, <2>2 DEF t, k, v, d
  <2> QED BY <2>1, <2>3
<1>4. ASSUME NEW f \in InScan
      PROVE  f \in Field /\ len[f] = ScanTo(w, f) - ScanFrom(w, f) /\ Placed(f, ScanFrom(w, f))
  <2> DEFINE from == ScanFrom(w, f)
             to == ScanTo(w, f)
  <2>1. from \in Nat /\ to \in Nat /\ from <= to /\ to <= z
    BY ScanSpots
  <2>2. len[f] = Within(p, from, to) /\ Placed(f, from)
    BY <1>1 DEF ScanReads
  <2> HIDE DEF from, to, z
  <2>3. Within(z, from, to) = to - from
    BY <1>3, <2>1, WithinStep
  <2> QED BY <1>2, <2>2, <2>3 DEF from, to, InScan, Field
<1>5. len["host"] = c - b /\ Placed("host", b)
  <2>1. "host" \in InScan /\ ScanFrom(w, "host") = b /\ ScanTo(w, "host") = c
    BY DEF InScan, ScanFrom, ScanTo
  <2> QED BY <1>4, <2>1
<1> HIDE DEF b, b1, u, c, z
<1>6. len["host"] > 0 /\ off["host"] = b /\ off["host"] + len["host"] = c
  BY <1>3, <1>5 DEF Placed
<1>7. /\ stage' = "host" /\ p' = b /\ limit' = c /\ len' = [len EXCEPT !["host"] = 0]
      /\ s' = IF found_at THEN "s_http_userinfo_start" ELSE "s_http_host_start"
      /\ UNCHANGED <<real_url, off>>
  <2>1. "host" \in field_set
    BY <1>1, <1>6 DEF ScanInv, Field
  <2> QED BY <1>6, <2>1 DEF ScanEnd
<1>8. s' = HostAt(w, b)
  <2>1. found_at <=> w["userinfo"] # <<>>
    <3>1. found_at <=> w["userinfo"] # <<>> /\ p > b1
      BY <1>1 DEF ScanReads, b1
    <3> QED BY <1>2, <1>3, <3>1
  <2>2. b \in b .. c
    BY <1>3
  <2>3. CASE w["userinfo"] # <<>>
    <3>1. HostAt(w, b) = "s_http_userinfo_start"
      BY <2>2, <2>3, HostPlaces DEF b, c
    <3> QED BY <1>7, <2>1, <2>3, <3>1
  <2>4. CASE w["userinfo"] = <<>>
    <3>1. b1 = b /\ u = b1 + V6(w)
      BY <2>4, Chain DEF b, b1, u
    <3>2. b = u - V6(w)
      BY <1>3, <3>1, V6Is
    <3>3. HostAt(w, b) = "s_http_host_start"
      BY <2>2, <3>2, HostPlaces DEF b, c, u
    <3> QED BY <1>7, <2>1, <2>4, <3>3
  <2> QED BY <2>3, <2>4
<1>9. ASSUME NEW f \in InHost
      PROVE  len'[f] = Within(p', From(w, f), To(w, f)) /\ Placed(f, From(w, f))'
  <2>1. f \in Field /\ (f = "host" \/ f \notin Seen(s))
    BY DEF InHost, Field, Seen
  <2>2. f \notin Seen(s) => len[f] = 0
    BY <1>1, <2>1 DEF ScanInv
  <2>3. len'[f] = 0
    BY <1>1, <1>7, <2>1, <2>2
  <2>4. b <= From(w, f) /\ Within(b, From(w, f), To(w, f)) = 0
    BY HostSpots DEF Within, b
  <2> QED BY <1>7, <2>3, <2>4 DEF Placed
<1>10. ASSUME NEW f \in Field \ InHost
       PROVE  len'[f] = Len(Part(w, f)) /\ Placed(f, From(w, f))'
  <2>1. f \in InScan /\ f # "host"
    BY DEF InHost, InScan, Field
  <2>2. len'[f] = len[f] /\ off'[f] = off[f]
    BY <1>1, <1>7, <2>1
  <2>3. len[f] = To(w, f) - From(w, f) /\ Placed(f, From(w, f))
    BY <1>4, <2>1 DEF ScanFrom, ScanTo
  <2>4. To(w, f) - From(w, f) = Len(Part(w, f))
    <3>1. From(w, f) \in Nat /\ Len(Part(w, f)) \in Nat
      BY Order, PartIsSeq
    <3> QED BY <3>1 DEF To
  <2> QED BY <2>2, <2>3, <2>4 DEF Placed
<1>11. HostReads(w)'
  <2>1. limit' = To(w, "port") /\ p' = From(w, "userinfo") /\ p' \in From(w, "userinfo") .. limit'
    BY <1>3, <1>7 DEF b, c
  <2>2. s' = HostAt(w, p')
    BY <1>7, <1>8
  <2> QED BY <1>9, <1>10, <2>1, <2>2 DEF HostReads
<1> QED BY <1>1, <1>7, <1>11 DEF ReadsAs

\* The scanner of the host part goes on.
LEMMA ReadsHost ==
  ASSUME UrlInv, UrlInv', Spans, HostScan, NEW w \in Parts, ReadsAs(w)
  PROVE  ReadsAs(w)'
<1> DEFINE next == http_parse_host_char(s, real_url[p + 1])
           uf == HostField(next)
           starts == next # s /\ next \notin InBrackets \ {"s_http_host_v6"}
<1>1. /\ stage = "host" /\ p \in Nat /\ p < limit /\ real_url \in Seq(Char)
      /\ Layout(w, real_url) /\ HostReads(w)
      /\ off \in [Field -> Nat] /\ len \in [Field -> Nat]
  BY DEF HostScan, UrlInv, Spans, ReadsAs
<1>2. From(w, "userinfo") \in Nat /\ To(w, "port") \in Nat /\ p >= From(w, "userinfo") /\ p < To(w, "port")
      /\ s = HostAt(w, p) /\ limit = To(w, "port")
  <2>1. From(w, "userinfo") \in Nat /\ To(w, "port") \in Nat
    BY Chain
  <2>2. limit = To(w, "port") /\ p \in From(w, "userinfo") .. limit /\ s = HostAt(w, p)
    BY <1>1 DEF HostReads
  <2> QED BY <1>1, <2>1, <2>2
<1>3. next = HostAt(w, p + 1)
  BY <1>1, <1>2, HostGoes
<1>4. HostMoves(next)
  <2>1. next # "s_http_host_dead"
    BY <1>1, <1>2, <1>3, HostTakes
  <2> QED BY <2>1, HostScanMoves
<1>5. \A f \in Field : uf = f <=> f \in InHost /\ From(w, f) <= p /\ p < To(w, f)
  BY <1>1, <1>2, <1>3, HostTakes
<1>6. \A f \in InHost : uf = f => (starts <=> p = From(w, f))
  <2>1. \A f \in InHost : HostField(HostAt(w, p + 1)) = f =>
              (HostAt(w, p + 1) # HostAt(w, p) /\ HostAt(w, p + 1) \notin InBrackets \ {"s_http_host_v6"}
                 <=> p = From(w, f))
    BY <1>1, <1>2, HostTakes
  <2> QED BY <1>2, <1>3, <2>1
<1> HIDE DEF next
<1>7. ASSUME NEW f \in InHost, uf = f
      PROVE  /\ len'[f] = Within(p', From(w, f), To(w, f)) /\ Placed(f, From(w, f))'
             /\ \A g \in Field \ {f} : len'[g] = len[g] /\ off'[g] = off[g]
  <2> DEFINE from == From(w, f)
             to == To(w, f)
  <2>1. from \in Nat /\ to \in Nat /\ from <= to
    BY HostSpots
  <2>2. f \in Field /\ from <= p /\ p < to
    BY <1>5, <1>7 DEF InHost, Field
  <2>3. len[f] = Within(p, from, to) /\ Placed(f, from) /\ p' = p + 1
    BY <1>1, <1>4 DEF HostReads, HostMoves
  <2>4. starts <=> p = from
    BY <1>6, <1>7
  <2> HIDE DEF from, to
  <2>5. Within(p, from, to) = p - from /\ Within(p + 1, from, to) = Within(p, from, to) + 1
    BY <1>1, <2>1, <2>2, WithinStep
  <2>6. len[f] = p - from /\ from + len[f] = p /\ (starts <=> len[f] = 0)
    BY <1>1, <2>1, <2>3, <2>4, <2>5
  <2>7. /\ len'[f] = len[f] + 1 /\ off'[f] = from
        /\ \A g \in Field \ {f} : len'[g] = len[g] /\ off'[g] = off[g]
    <3>1. from \in Int /\ f \in {"userinfo", "host", "port"} /\ HostField(next) = f
      BY <1>7, <2>1 DEF InHost
    <3> QED BY <1>4, <2>3, <2>6, <3>1, HostGrows
  <2> QED BY <2>3, <2>5, <2>7 DEF Placed, from, to
<1>8. ASSUME NEW f \in InHost, uf # f
      PROVE  len'[f] = Within(p', From(w, f), To(w, f)) /\ Placed(f, From(w, f))'
  <2> DEFINE from == From(w, f)
             to == To(w, f)
  <2>1. from \in Nat /\ to \in Nat /\ from <= to
    BY HostSpots
  <2>2. f \in Field /\ ~(from <= p /\ p < to)
    BY <1>5, <1>8 DEF InHost, Field
  <2>3. len[f] = Within(p, from, to) /\ Placed(f, from) /\ p' = p + 1
    BY <1>1, <1>4 DEF HostReads, HostMoves
  <2> HIDE DEF from, to
  <2>4. Within(p + 1, from, to) = Within(p, from, to)
    BY <1>1, <2>1, <2>2, WithinStep
  <2>5. len'[f] = len[f] /\ off'[f] = off[f]
    <3>1. CASE uf = NoField
      BY <1>4, <3>1 DEF HostMoves
    <3>2. CASE uf # NoField
      <4>1. uf \in Field /\ Extend(uf, starts)
        BY <1>4, <3>2 DEF HostMoves
      <4> HIDE DEF uf, starts
      <4> QED BY <1>1, <1>8, <2>2, <4>1 DEF Extend
    <3> QED BY <3>1, <3>2
  <2> QED BY <2>3, <2>4, <2>5 DEF Placed, from, to
<1>9. ASSUME NEW f \in Field \ InHost
      PROVE  len'[f] = len[f] /\ off'[f] = off[f]
  <2>1. uf # f
    BY <1>5, <1>9
  <2>2. CASE uf = NoField
    BY <1>4, <2>2 DEF HostMoves
  <2>3. CASE uf # NoField
    <3>1. uf \in Field
      BY <1>4, <2>3 DEF HostMoves
    <3>2. uf \in InHost
      BY <1>5, <3>1
    <3> QED BY <1>7, <2>1, <3>2
  <2> QED BY <2>2, <2>3
<1>10. /\ stage' = "host" /\ real_url' = real_url /\ limit' = limit /\ p' = p + 1 /\ s' = HostAt(w, p')
  BY <1>1, <1>3, <1>4 DEF HostMoves
<1>11. \A f \in Field \ InHost : len[f] = Len(Part(w, f)) /\ Placed(f, From(w, f))
  BY <1>1 DEF HostReads
<1>12. HostReads(w)'
  <2>1. limit' = To(w, "port") /\ p' \in From(w, "userinfo") .. limit'
    BY <1>1, <1>2, <1>10
  <2>2. \A f \in Field \ InHost : len'[f] = Len(Part(w, f)) /\ Placed(f, From(w, f))'
    BY <1>9, <1>11 DEF Placed
  <2> QED BY <1>7, <1>8, <1>10, <2>1, <2>2 DEF HostReads
<1> QED BY <1>1, <1>10, <1>12 DEF ReadsAs

\* The characters of a field that is where its part is.
LEMMA TextOf ==
  ASSUME UrlInv, Spans, stage \in {"host", "parsed", "copied"}, NEW w \in Parts, Layout(w, real_url),
         NEW f \in Field, len[f] = Len(Part(w, f)), Placed(f, From(w, f))
  PROVE  Text(f) = Part(w, f)
<1> DEFINE x == Part(w, f)
           c == From(w, f)
<1>1. x \in Seq(Char) /\ c \in Nat /\ Len(x) \in Nat /\ real_url \in Seq(Char) /\ Has(real_url, c, x)
  BY PartIsSeq, Order DEF Spans, Layout
<1> HIDE DEF x, c
<1>2. CASE len[f] > 0
  <2>1. f \in field_set /\ off[f] = c
    BY <1>2 DEF Spans, Placed, c
  <2>2. Text(f) = SubSeq(real_url, c + 1, c + Len(x))
    BY <2>1 DEF Text, x
  <2> QED BY <1>1, <2>2, PartIs DEF x
<1>3. CASE ~(len[f] > 0)
  <2>1. Len(x) = 0
    BY <1>1, <1>3 DEF x
  <2>2. x = <<>>
    BY <1>1, <2>1
  <2>3. f \in field_set => SubSeq(real_url, off[f] + 1, off[f] + len[f]) = <<>>
    <3>1. off[f] \in Nat /\ len[f] = 0
      BY <2>1 DEF UrlInv, x
    <3> QED BY <1>1, <3>1
  <2> QED BY <2>2, <2>3 DEF Text, x
<1> QED BY <1>2, <1>3

LEMMA PortPart ==
  ASSUME NEW w
  PROVE  Part(w, "port") = w["port"]
BY DEF Part

\* The host part ends where it may, with a port that is one.
LEMMA ReadsHostEnd ==
  ASSUME UrlInv, Spans, HostEnd, NEW w \in Parts, Fits(w), ReadsAs(w)
  PROVE  ReadsAs(w)'
<1>1. stage = "host" /\ p = limit /\ Layout(w, real_url) /\ HostReads(w)
  BY DEF HostEnd, ReadsAs
<1>2. \A f \in Field : len[f] = Len(Part(w, f)) /\ Placed(f, From(w, f))
  <2> SUFFICES ASSUME NEW f \in InHost PROVE len[f] = Len(Part(w, f)) /\ Placed(f, From(w, f))
    BY <1>1 DEF HostReads
  <2> DEFINE from == From(w, f)
             to == To(w, f)
             c == To(w, "port")
  <2>1. from \in Nat /\ to \in Nat /\ from <= to /\ to <= c /\ c \in Nat
    BY HostSpots, Chain
  <2>2. len[f] = Within(c, from, to) /\ Placed(f, from)
    BY <1>1 DEF HostReads
  <2>3. to = from + Len(Part(w, f)) /\ Len(Part(w, f)) \in Nat
    BY PartIsSeq DEF To, InHost, Field
  <2> HIDE DEF from, to, c
  <2>4. Within(c, from, to) = to - from
    BY <2>1, WithinStep
  <2> QED BY <2>1, <2>2, <2>3, <2>4 DEF from
<1>3. s \in HostEnds
  <2> DEFINE c == To(w, "port")
             t == To(w, "host")
             u == From(w, "host")
             k == From(w, "port")
  <2>1. s = HostAt(w, c) /\ c \in From(w, "userinfo") .. c
    BY <1>1 DEF HostReads
  <2>2. /\ t \in Nat /\ u \in Nat /\ k \in Nat /\ c \in Nat /\ u < t
        /\ w["port"] = <<>> => k = t + V6(w) /\ c = k
        /\ w["port"] # <<>> => k = t + V6(w) + 1 /\ c > k
        /\ V6(w) \in 0 .. 1
    BY Chain
  <2>3. CASE w["port"] # <<>>
    <3>1. c \in k + 1 .. c
      BY <2>2, <2>3
    <3>2. HostAt(w, c) = "s_http_host_port"
      BY <2>1, <3>1, HostPlaces
    <3> QED BY <2>1, <3>2 DEF HostEnds
  <2>4. CASE w["port"] = <<>> /\ V6(w) = 1
    <3>1. c = t + 1
      BY <2>2, <2>4
    <3>2. HostAt(w, c) = "s_http_host_v6_end"
      BY <2>1, <2>4, <3>1, HostPlaces
    <3> QED BY <2>1, <3>2 DEF HostEnds
  <2>5. CASE w["port"] = <<>> /\ V6(w) = 0
    <3>1. c = t /\ c \in u + 1 .. t
      BY <2>2, <2>5
    <3>2. HostAt(w, c) = "s_http_host"
      BY <2>1, <2>5, <3>1, HostPlaces
    <3> QED BY <2>1, <3>2 DEF HostEnds
  <2> QED BY <2>2, <2>3, <2>4, <2>5
<1>4. Number(Text("port")) <= MaxPort
  <2>1. Text("port") = w["port"]
    BY <1>1, <1>2, TextOf, PortPart DEF Field
  <2> QED BY <2>1 DEF Fits
<1>5. stage' = "parsed" /\ UNCHANGED <<real_url, p, s, limit, off, len>>
  BY <1>3, <1>4 DEF HostEnd, HostEnds, scanner
<1> QED BY <1>1, <1>2, <1>5 DEF ReadsAs, Placed

\* A part that fits is copied whole.
LEMMA CutFits ==
  ASSUME NEW x \in Seq(Char), NEW size \in Nat, Len(x) < size
  PROVE  Cut(x, size) = x
<1>1. Cut(x, size) = SubSeq(x, 1, Len(x))
  BY DEF Cut
<1> QED BY <1>1

LEMMA ReadsCopied ==
  ASSUME UrlInv, Spans, CopyFields, text = [f \in Field |-> <<>>], NEW w \in Parts, Fits(w), ReadsAs(w)
  PROVE  ReadsAs(w)'
<1>1. /\ stage = "parsed" /\ stage' = "copied" /\ Layout(w, real_url)
      /\ \A f \in Field : len[f] = Len(Part(w, f)) /\ Placed(f, From(w, f))
      /\ UNCHANGED <<real_url, off, len>>
  BY DEF CopyFields, ReadsAs, scanner
<1>2. ASSUME NEW f \in Field
      PROVE  Text(f) = Part(w, f) /\ Cut(Text(f), FieldSize[f]) = Part(w, f)
             /\ (f \notin field_set => Part(w, f) = <<>>)
  <2>1. Text(f) = Part(w, f)
    BY <1>1, TextOf
  <2>2. Part(w, f) \in Seq(Char) /\ FieldSize[f] \in Nat \ {0, 1}
    BY PartIsSeq, UrlSizesAssumption
  <2>3. Len(Part(w, f)) < FieldSize[f]
    <3>1. CASE f = "schema" /\ w["schema"] = <<>>
      <4>1. Len(Part(w, f)) = 1
        BY <3>1 DEF Part
      <4> QED BY <2>2, <4>1
    <3>2. CASE ~(f = "schema" /\ w["schema"] = <<>>)
      BY <3>2 DEF Part, Fits
    <3> QED BY <3>1, <3>2
  <2>4. f \notin field_set => Text(f) = <<>>
    BY DEF Text
  <2>5. Cut(Part(w, f), FieldSize[f]) = Part(w, f)
    BY <2>2, <2>3, CutFits
  <2> QED BY <2>1, <2>4, <2>5
<1>3. \A f \in Field : text'[f] = Part(w, f)
  <2> SUFFICES ASSUME NEW f \in Field PROVE text'[f] = Part(w, f)
    OBVIOUS
  <2>1. text'[f] = IF f \in field_set THEN Cut(Text(f), FieldSize[f]) ELSE <<>>
    BY DEF CopyFields
  <2> QED BY <1>2, <2>1
<1>4. w["port"] # <<>> => port' = Number(w["port"])
  <2>1. "port" \in Field /\ Part(w, "port") = w["port"]
    BY PortPart DEF Field
  <2>2. Cut(Text("port"), FieldSize["port"]) = w["port"] /\ ("port" \notin field_set => w["port"] = <<>>)
    BY <1>2, <2>1
  <2> QED BY <2>2 DEF CopyFields
<1> QED BY <1>1, <1>3, <1>4 DEF ReadsAs, Placed

-----------------------------------------------------------------------------
LEMMA InitReads == UrlInit => ReadInv
BY DEF UrlInit, ReadInv

LEMMA GiveUrlReads ==
  ASSUME UrlInv, ReadInv, NEW u, IsUrl(u), GiveUrl(u)
  PROVE  ReadInv'
<1>1. stage = "none" /\ stage' = "scan" /\ given' = u /\ text' = text
  BY DEF GiveUrl
<1>2. ~found_at /\ text = [f \in Field |-> <<>>]
  BY <1>1 DEF ReadInv
<1>3. u.written \subseteq Parts /\ u.url \in Seq(Char) /\ \A w \in u.written : u.url = Whole(w)
  BY DEF IsUrl
<1>4. ASSUME NEW w \in u.written, Fits(w) PROVE ReadsAs(w)'
  BY <1>2, <1>3, <1>4, ReadsGiven
<1> QED BY <1>1, <1>2, <1>3, <1>4 DEF ReadInv

LEMMA UrlStepReads ==
  ASSUME UrlInv, UrlInv', Spans, ReadInv, UrlNext
  PROVE  ReadInv'
<1>1. stage # "none" /\ stage' # "none" /\ given' = given
  BY DEF UrlNext, ScanChar, ScanEnd, HostScan, HostEnd, CopyFields, Reject
<1>2. stage' # "copied" => text' = [f \in Field |-> <<>>]
  BY DEF UrlNext, ScanChar, ScanEnd, HostScan, HostEnd, CopyFields, Reject, ReadInv
<1>3. ASSUME NEW w \in given.written, Fits(w) PROVE ReadsAs(w)'
  <2>1. w \in Parts /\ ReadsAs(w)
    BY <1>3 DEF ReadInv
  <2>2. CopyFields => text = [f \in Field |-> <<>>]
    BY DEF CopyFields, ReadInv
  <2> QED BY <1>3, <2>1, <2>2, ReadsScanned, ReadsEnded, ReadsHost, ReadsHostEnd, ReadsCopied DEF UrlNext
<1> QED BY <1>1, <1>2, <1>3 DEF ReadInv

\* What else happens leaves the URL alone, and the port once one is given.
LEMMA UntouchedReads ==
  ASSUME ReadInv, UNCHANGED <<stage, given, real_url, scanner, text>>, stage = "none" \/ port' = port
  PROVE  ReadInv'
<1>1. UNCHANGED <<stage, given, real_url, p, s, old_uf, found_at, limit, field_set, off, len, text>>
  BY DEF scanner
<1>2. ASSUME NEW w, ReadsAs(w) PROVE ReadsAs(w)'
  BY <1>1, <1>2 DEF ReadsAs, ScanReads, HostReads, Placed
<1> QED BY <1>1, <1>2 DEF ReadInv

LEMMA ReadAsWritten == ReadInv => FieldsAsWritten
<1> SUFFICES ASSUME ReadInv, NEW w \in given.written, Fits(w)
             PROVE  /\ stage # "invalid"
                    /\ stage = "copied" =>
                         /\ \A f \in Field \ {"schema"} : text[f] = w[f]
                         /\ text["schema"] = IF w["schema"] = <<>> THEN <<"http">> ELSE w["schema"]
                         /\ w["port"] # <<>> => port = Number(w["port"])
  BY DEF FieldsAsWritten
<1>1. ReadsAs(w)
  BY DEF ReadInv
<1>2. /\ \A f \in Field \ {"schema"} : Part(w, f) = w[f]
      /\ Part(w, "schema") = IF w["schema"] = <<>> THEN <<"http">> ELSE w["schema"]
      /\ "schema" \in Field
  BY DEF Part, Field
<1> QED BY <1>1, <1>2 DEF ReadsAs
=============================================================================
