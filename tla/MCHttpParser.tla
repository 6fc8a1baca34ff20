----------------------------- MODULE MCHttpParser -----------------------------
(* The wires of a set of correct responses, for the runs of HttpParser.     *)
EXTENDS HttpPosition, SequencesExt

HexDigits == <<"0", "1", "2", "3", "4", "5", "a">>
MCHexDigit == {HexDigits[i] : i \in 1 .. 7}
MCDigit == MCHexDigit \ {"a"}
MCValue == [d \in MCHexDigit |-> IF d = "a" THEN 10 ELSE (CHOOSE i \in 1 .. 6 : HexDigits[i] = d) - 1]

MCNoise == {"version", "0", "1", "a", "SP", ":", ",", ";", "CR", "LF", "connection",
            "content-length", "transfer-encoding", "upgrade", "chunked", "close", "word"}

CRLF == <<"CR", "LF">>
LF == <<"LF">>

\* The numbers of the digits behind the first characters.
Numbers(text, first, stop, base) ==
  LET n[j \in 0 .. stop] == IF j <= first THEN 0 ELSE base * n[j - 1] + MCValue[text[j]]
  IN  [j \in 1 .. stop |-> n[j]]

Piece(kind, text, mark) ==
  [kind |-> kind, from |-> 0, text |-> text, mark |-> mark, first |-> 0, stop |-> 0, number |-> <<>>]

Status(eol, code) == Piece("status", <<"version">> \o code \o <<"SP", "word">> \o eol, 0)
Other(text, mark) == Piece("other", text, mark)
Header(name, value) == Other(<<name, ":", "SP">> \o value \o CRLF, 2)
Data(n) == Piece("data", [i \in 1 .. n |-> AnyChar], 0)
End(eol) == Piece("end", eol, 0)

\* A header of spaces, so many characters of a value, and more spaces.
Frame(kind, name, before, value, after, eol) ==
  LET text == <<name, ":">> \o before \o value \o after \o eol
      k == 2 + Len(before)
      e == k + Len(value)
  IN  [Piece(kind, text, 0) EXCEPT !.first = k, !.stop = e,
         !.number = IF kind = "length" THEN Numbers(text, k, e, 10) ELSE <<>>]

Length(eol, digits, after) == Frame("length", "content-length", <<"SP">>, digits, after, eol)
Chunked(eol, after) == Frame("chunked", "transfer-encoding", <<"SP">>, <<"chunked">>, after, eol)

\* A chunk of n bytes.
Chunk(digits, parameters, n) ==
  LET size == digits \o parameters \o CRLF
  IN  [Piece("chunk", size \o [i \in 1 .. n |-> AnyChar] \o CRLF, Len(size)) EXCEPT
         !.stop = Len(digits), !.number = Numbers(digits, 0, Len(digits), 16)]

LastChunk(digits) ==
  [Piece("last", digits \o CRLF, Len(digits) + 2) EXCEPT
     !.stop = Len(digits), !.number = Numbers(digits, 0, Len(digits), 16)]

\* The lines one behind the other, and what they say together.
Response(code, lines, head, last, length, asks) ==
  LET at[i \in 1 .. Len(lines) + 1] == IF i = 1 THEN 0 ELSE at[i - 1] + Len(lines[i - 1].text)
  IN  [code |-> code, upgrade |-> asks, head |-> head, last |-> last, length |-> length,
       lines |-> [i \in 1 .. Len(lines) |-> [lines[i] EXCEPT !.from = at[i]]],
       wire |-> FlattenSeq([i \in 1 .. Len(lines) |-> lines[i].text])]

\* A response whose body, if it has one, is as long as its length says.
Plainly(eol, code, digits, headers, length, body, asks) ==
  LET n == Len(headers) + 2
  IN  Response(code, <<Status(eol, digits)>> \o headers \o <<End(eol)>> \o body,
               n, n + Len(body), length, asks)

OK == <<"2", "0", "0">>

\* A response of chunks.
InChunks(eol, headers, length, chunks, trailers) ==
  LET n == Len(headers) + 2
  IN  Response(200, <<Status(eol, OK)>> \o headers \o <<End(eol)>> \o chunks \o <<LastChunk(<<"0">>)>>
                      \o trailers \o <<End(eol)>>,
               n, n + Len(chunks) + 1, length, FALSE)

\* The ways to frame a body.
Framings(eol) ==
  { Plainly(eol, 200, OK, <<Length(eol, <<"0">>, <<>>)>>, 0, <<>>, FALSE),
    Plainly(eol, 200, OK, <<Length(eol, <<"2">>, <<>>)>>, 2, <<Data(2)>>, FALSE),
    Plainly(eol, 200, OK, <<Length(eol, <<"1", "0">>, <<"SP">>)>>, 10, <<Data(10)>>, FALSE),
    InChunks(eol, <<Chunked(eol, <<>>)>>, NoLength,
             <<Chunk(<<"1">>, <<>>, 1), Chunk(<<"1", "0">>, <<";", "word">>, 16)>>, <<>>),
    InChunks(eol, <<Chunked(eol, <<"SP">>), Length(eol, <<"3">>, <<>>)>>, 3,
             <<Chunk(<<"0", "2">>, <<>>, 2)>>, <<Length(eol, <<"4">>, <<>>)>>) }

\* Other lines of a head.
Others ==
  { Header("word", <<"word">> \o CRLF \o <<"SP", "chunked">>),
    Other(<<"word", ":">> \o CRLF, 2),
    Other(<<"content-length", "word", ":", "5">> \o CRLF, 3),
    Header("connection", <<"keep-alive", ",", "SP", "word", ",", "close">>) }

Upgrade == <<Header("connection", <<"upgrade">>), Header("upgrade", <<"word">>)>>

TwoBytes(code, digits, headers, asks) ==
  Plainly(CRLF, code, digits, headers \o <<Length(CRLF, <<"2">>, <<>>)>>, 2, <<Data(2)>>, asks)

MCResponses ==
  Framings(LF) \cup Framings(CRLF)
  \cup { TwoBytes(200, OK, <<o>>, FALSE) : o \in Others }
  \cup { TwoBytes(404, <<"4", "0", "4">>, Upgrade, TRUE) }
  \cup { Plainly(CRLF, 101, <<"1", "0", "1">>, Upgrade, NoLength, <<>>, FALSE),
         Plainly(CRLF, 204, <<"2", "0", "4">>, <<>>, NoLength, <<>>, FALSE),
         Plainly(LF, 304, <<"3", "0", "4">>, <<>>, NoLength, <<>>, FALSE) }
=============================================================================
