------------------------------ MODULE MCRequest ------------------------------
(* URLs written from parts, URLs with a character put in or replaced, and    *)
(* the arguments of options.                                                *)
EXTENDS Request, FiniteSets

MCHexLetter == {"a"}
MCLetter == {"a", "x", "http", "localhost"}
MCDigit == {"0", "8", "9"}
MCDigitValue == [d \in MCDigit |-> IF d = "0" THEN 0 ELSE IF d = "8" THEN 8 ELSE 9]
MCFieldSize == [f \in {"schema", "host", "port", "path", "query", "fragment", "userinfo"} |->
                  CASE f = "host" -> 8 [] f = "port" -> 4 [] OTHER -> 3]

Address == <<"8", ".", "8", ".", "8", ".", "8">>

\* Every combination of a scheme, user information and so on.
Written ==
  { ("schema" :> a @@ "userinfo" :> b @@ "host" :> c @@ "port" :> d
       @@ "path" :> e @@ "query" :> f @@ "fragment" :> g) :
      a \in {<<>>, <<"http">>}, b \in {<<>>, <<"x", "8">>, <<":">>},
      c \in {<<"localhost">>, <<"x", "-", "8">>, Address, <<"a", ":", ":", "8", "%", "x">>},
      d \in {<<>>, <<"0">>, <<"8", "8">>, <<"9", "9">>, <<"9", "0", "0">>},
      e \in {<<>>, <<"/">>, <<"/", "^">>, <<"/", "x", "/">>},
      f \in {<<>>, <<"?">>, <<"x", "/">>}, g \in {<<>>, <<"?", "x">>} }

Marks == {"http", "x", "8", ".", "-", "+", "%", ":", "/", "@", "[", "]", "^", "?", "#", "bad"}

\* The URLs with one character put in or replaced.
Damages(url) ==
  { SubSeq(url, 1, i) \o <<m>> \o SubSeq(url, i + skip, Len(url)) :
      i \in 0 .. Len(url), skip \in {1, 2}, m \in Marks }
DamagedUrls ==
  UNION { Damages(Whole(w)) : w \in
    { w \in Written : w["path"] = <<"/", "^">> /\ w["query"] = <<"?">> /\ w["fragment"] = <<"?", "x">>
                      /\ w["userinfo"] # <<":">> /\ w["port"] = <<"8", "8">> /\ w["host"] # <<"localhost">> } }

AsWritten(ws) == { [url |-> Whole(w), written |-> {w}] : w \in ws }
AllUrls == AsWritten(Written) \cup { [url |-> url, written |-> {}] : url \in DamagedUrls }

\* With options: localhost, a name, an address; with and without the rest.
Bare == << <<>>, <<>>, <<>> >>
Rest == << <<"8", "8">>, <<"/">>, <<"x">> >>
FewUrls ==
  AsWritten({ [ [f \in Field |-> <<>>] EXCEPT !["host"] = c[1], !["port"] = c[2][1],
                                             !["path"] = c[2][2], !["query"] = c[2][3] ] :
    c \in { << <<"localhost">>, Bare >>, << <<"x">>, Rest >>, <<Address, Bare>>, <<Address, Rest>> } })
MCUrls(options) == IF options = 0 THEN AllUrls ELSE FewUrls

MCHeaders ==
  { [name |-> "Accept", colon |-> TRUE, chars |-> 2, blank |-> FALSE],
    [name |-> "Host", colon |-> TRUE, chars |-> 2, blank |-> TRUE],
    [name |-> "Host", colon |-> TRUE, chars |-> 1, blank |-> FALSE],
    [name |-> "Host", colon |-> TRUE, chars |-> 1, blank |-> TRUE],
    [name |-> "X-Forwarded-Host", colon |-> TRUE, chars |-> 2, blank |-> TRUE],
    [name |-> "Host", colon |-> FALSE, chars |-> 0, blank |-> FALSE] }
MCFileSizes == {Gone, 0, 5, 50, 130}
=============================================================================
