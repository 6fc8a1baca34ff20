----------------------------- MODULE HttpResponse -----------------------------
(***************************************************************************)
(* The responses of a correct server, line by line, as far as the parser   *)
(* of http_parser.c takes them.  A character stands for a byte, except     *)
(* that a word - a header's name, a keyword of a value, "HTTP/1.1 " - is   *)
(* one character; a word that is none of the keywords is "word", and it    *)
(* does not begin as one of them.                                          *)
(***************************************************************************)
EXTENDS Integers, Sequences

CONSTANTS Digit, HexDigit,  \* the characters that are digits
          Value,            \* and their values
          MaxLength,        \* ULLONG_MAX
          MaxHeader,        \* HTTP_MAX_HEADER_SIZE, in characters
          Responses         \* what a correct server sends

Word == {"connection", "proxy-connection", "content-length", "transfer-encoding",
         "upgrade", "keep-alive", "close", "chunked", "word"}
Mark == {"version", "SP", ":", ",", ";", "CR", "LF"}
Token == Word \cup HexDigit
Char == Token \cup Mark

NoChar == "no char"  \* the last byte is dealt with
AnyChar == "any"     \* in a wire: a byte of a body

ASSUME DigitAssumption ==
  /\ Value \in [HexDigit -> 0 .. 15]
  /\ Digit \subseteq HexDigit
  /\ \A d \in Digit : Value[d] <= 9
  /\ HexDigit \cap (Word \cup Mark \cup {NoChar, AnyChar}) = {}

ASSUME SizeAssumption ==
  /\ MaxLength \in Nat /\ MaxLength >= 16
  /\ MaxHeader \in Nat \ {0}

NoLength == MaxLength

-----------------------------------------------------------------------------
(* Lines.                                                                  *)

Headers == {"other", "length", "chunked"}
Kinds == Headers \cup {"status", "end", "data", "chunk", "last"}

\* A line begins behind from characters of the wire.  A chunk is one line with
\* its data, a body with a length is one line.
Line == [kind : Kinds, from : Nat, text : Seq(Char \cup {AnyChar}),
         mark : Nat,          \* the ":" of a header, or the end of a chunk's first line
         first : Nat,         \* characters before the value of a framing header
         stop : Nat,          \* and up to the end of its digits
         number : Seq(Nat)]   \* the value of the digits up to each character

\* Behind k characters: characters of C, and CR LF or LF.
Ends(l, k, C) ==
  /\ k < Len(l.text) /\ l.text[Len(l.text)] = "LF"
  /\ \A j \in k + 1 .. Len(l.text) - 1 :
       l.text[j] \in C \/ (j = Len(l.text) - 1 /\ l.text[j] = "CR")

\* The digits are a number the parser takes.
Counts(l, digits, base) ==
  /\ l.first < l.stop /\ l.stop < Len(l.text) /\ l.stop <= Len(l.number)
  /\ \A j \in l.first + 1 .. l.stop : l.text[j] \in digits /\ l.number[j] <= MaxLength - base
  /\ l.number[l.first + 1] = Value[l.text[l.first + 1]]
  /\ \A j \in l.first + 1 .. l.stop - 1 : l.number[j + 1] = base * l.number[j] + Value[l.text[j + 1]]

Size(l) == l.number[l.stop]

\* "HTTP/1.1 ", three digits, and a text or none.
StatusLine(l, code) ==
  /\ Len(l.text) >= 5 /\ l.text[1] = "version" /\ l.text[5] \in {"SP", "CR", "LF"}
  /\ \A j \in 2 .. 4 : l.text[j] \in Digit
  /\ code = 10 * (10 * Value[l.text[2]] + Value[l.text[3]]) + Value[l.text[4]]
  /\ Ends(l, 4, Char \ {"CR", "LF"})

\* A header that says how the body ends: its name, spaces, and its value.
Framing(l, name) ==
  /\ l.first >= 2 /\ l.first < l.stop
  /\ l.text[1] = name /\ l.text[2] = ":"
  /\ \A j \in 3 .. l.first : l.text[j] = "SP"
  /\ Ends(l, l.stop, {"SP"})

LengthLine(l) == Framing(l, "content-length") /\ Counts(l, Digit, 10)

ChunkedLine(l) ==
  /\ Framing(l, "transfer-encoding")
  /\ l.stop = l.first + 1 /\ l.text[l.stop] = "chunked"

\* Any other header.  It goes on behind a line end if a space comes next.
OtherLine(l) ==
  LET x == l.text
  IN  /\ 1 < l.mark /\ l.mark < Len(x) /\ x[l.mark] = ":" /\ x[Len(x)] = "LF"
      /\ \A j \in 1 .. l.mark - 1 : x[j] \in Token
      /\ x[1] \in {"content-length", "transfer-encoding"} => l.mark > 2
      /\ \A j \in l.mark + 1 .. Len(x) :
           /\ x[j] \in Char
           /\ j < Len(x) => (x[j] = "CR" => x[j + 1] = "LF") /\ (x[j] = "LF" => x[j + 1] = "SP")

\* The first line of a chunk: its size, and parameters or none.
SizeLine(l) ==
  LET x == l.text
  IN  /\ l.first = 0 /\ Counts(l, HexDigit, 16)
      /\ l.stop + 2 <= l.mark /\ l.mark <= Len(x) /\ l.mark <= MaxHeader
      /\ x[l.mark - 1] = "CR" /\ x[l.mark] = "LF"
      /\ \A j \in l.stop + 1 .. l.mark - 2 : x[j] \in Char \ {"CR", "LF"}
      /\ l.stop + 2 < l.mark => x[l.stop + 1] \in {";", "SP"}

ChunkLine(l) ==
  /\ SizeLine(l) /\ Size(l) > 0
  /\ Len(l.text) = l.mark + Size(l) + 2
  /\ l.text[Len(l.text) - 1] = "CR" /\ l.text[Len(l.text)] = "LF"

LastLine(l) == SizeLine(l) /\ Size(l) = 0 /\ Len(l.text) = l.mark

WellFormed(l) ==
  CASE l.kind = "length" -> LengthLine(l)
    [] l.kind = "chunked" -> ChunkedLine(l)
    [] l.kind = "other" -> OtherLine(l)
    [] l.kind = "end" -> Ends(l, 0, {})
    [] l.kind = "chunk" -> ChunkLine(l)
    [] l.kind = "last" -> LastLine(l)
    [] OTHER -> Len(l.text) > 0

-----------------------------------------------------------------------------
(* Responses.                                                              *)

Kind(r, i) == r.lines[i].kind

\* The wire is the lines one behind the other.
InOrder(r) ==
  /\ r.lines \in Seq(Line) /\ r.wire \in Seq(Char \cup {AnyChar})
  /\ r.lines[1].from = 0
  /\ \A i \in 1 .. Len(r.lines) :
       LET l == r.lines[i]
       IN  /\ WellFormed(l)
           /\ l.from + Len(l.text) = IF i = Len(r.lines) THEN Len(r.wire) ELSE r.lines[i + 1].from
           /\ l.from + Len(l.text) <= Len(r.wire)
           /\ \A j \in 1 .. Len(l.text) : r.wire[l.from + j] = l.text[j]

\* The head: a status line, headers, and an empty line.
HeadIsRight(r) ==
  /\ r.head \in 2 .. Len(r.lines)
  /\ Kind(r, 1) = "status" /\ StatusLine(r.lines[1], r.code)
  /\ \A i \in 2 .. r.head - 1 : Kind(r, i) \in Headers
  /\ Kind(r, r.head) = "end"
  /\ \A i \in 1 .. r.head : r.lines[i].from + Len(r.lines[i].text) <= MaxHeader

IsChunked(r) == \E i \in 2 .. r.head - 1 : Kind(r, i) = "chunked"
HasLength(r) == \E i \in 2 .. r.head - 1 : Kind(r, i) = "length"

LengthIsRight(r) ==
  /\ r.length \in Nat
  /\ \A i \in 2 .. r.head - 1 : Kind(r, i) = "length" => Size(r.lines[i]) = r.length
  /\ ~HasLength(r) => r.length = NoLength

\* The body: chunks and trailers, or as many bytes as the length says, or none.
\* A response that ends with its connection is not among them, nor one that has a
\* length and no body.
BodyIsRight(r) ==
  LET n == Len(r.lines)
  IN  /\ r.last \in r.head .. n
      /\ \/ /\ IsChunked(r) /\ r.head < r.last /\ r.last < n
            /\ \A i \in r.head + 1 .. r.last - 1 : Kind(r, i) = "chunk"
            /\ Kind(r, r.last) = "last"
            /\ \A i \in r.last + 1 .. n - 1 : Kind(r, i) \in Headers
            /\ Kind(r, n) = "end"
            /\ Len(r.wire) - r.lines[r.last + 1].from <= MaxHeader
         \/ /\ ~IsChunked(r) /\ r.length \notin {0, NoLength}
            /\ n = r.head + 1 /\ r.last = n
            /\ Kind(r, n) = "data" /\ Len(r.lines[n].text) = r.length
         \/ /\ ~IsChunked(r) /\ n = r.head
            /\ \/ r.length = 0
               \/ r.length = NoLength /\ (r.code \div 100 = 1 \/ r.code \in {204, 304})

\* No header of the head is named upgrade.
Plain(r) == \A i \in 2 .. r.head - 1 : r.lines[i].text[1] # "upgrade"

\* upgrade: the response may ask for an upgrade and have a body.
IsResponse(r) ==
  /\ r.upgrade \in BOOLEAN
  /\ InOrder(r) /\ HeadIsRight(r) /\ LengthIsRight(r) /\ BodyIsRight(r)
  /\ r.upgrade \/ Len(r.lines) = r.head \/ Plain(r)

ASSUME ResponsesAssumption == \A r \in Responses : IsResponse(r)
=============================================================================
