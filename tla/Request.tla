------------------------------- MODULE Request -------------------------------
(***************************************************************************)
(* From the command line to the request that every connection sends:       *)
(* main (main.c) up to the loop, with parse_cli, parse_opt and             *)
(* compose_request_buffer (request.c), parse_url (module Url) and the      *)
(* timer that -t arms (timer.c).                                           *)
(*                                                                         *)
(* getopt(3) moves the URL behind all options, so the options come first,  *)
(* in their order, and the second call of parse_cli finds none.  A string  *)
(* is its length, but for the URL; the only file has a size, which may     *)
(* change between stat(2) and read(2).                                     *)
(***************************************************************************)
EXTENDS Url

CONSTANTS Counts, Ports, DataSizes, FileSizes, Headers,  \* arguments of options
          Urls(_),     \* URLs given after so many options
          MaxOptions,  \* bound: options on a command line
          BODY_SIZE,   \* of request->bodydata
          BufferSize,  \* REQUEST_BUFFER_SIZE less the head of a request
          IntMax       \* the greatest int

Gone == -1  \* the size of a file that is not there

\* A header the user adds: the characters of its value, and whether a blank
\* ends them.
Header == [name : {"Host", "host", "X-Forwarded-Host", "Accept", "none"}, colon : BOOLEAN,
           chars : Nat, blank : BOOLEAN]
NULL == [name |-> "none", colon |-> TRUE, chars |-> 0, blank |-> FALSE]

ASSUME RequestAssumption ==
  /\ MaxPort <= IntMax
  /\ Counts \cup Ports \subseteq -(IntMax + 1) .. IntMax /\ DataSizes \subseteq 0 .. IntMax
  /\ FileSizes \subseteq Nat \cup {Gone}
  /\ Headers \subseteq Header
  /\ MaxOptions \in Nat /\ BODY_SIZE \in Nat /\ BufferSize \in Nat /\ IntMax \in Nat
ASSUME UrlsAssumption == \A n \in 0 .. MaxOptions : \A u \in Urls(n) : IsUrl(u)

VARIABLES pc,       \* "cli", "url", "compose", "loop", "failed", "quit", "crashed"
          args,     \* the options so far
          request,  \* myreq but for the fields of the URL
          timer,    \* what timerfd counts, or NoTimer
          file,     \* the size of the file named by -b now
          message   \* the request composed

cliVars == <<args, request, timer>>
requestVars == <<pc, cliVars, file, message, urlVars>>

NoTimer == 0
Int32(n) == ((n + IntMax + 1) % (2 * (IntMax + 1))) - (IntMax + 1)
EmptyMessage == [line |-> <<>>, hosts |-> <<>>, content_type |-> "", length |-> 0, body |-> <<>>]

\* init_http_request
Init ==
  /\ UrlInit
  /\ pc = "cli" /\ args = <<>> /\ timer = NoTimer /\ file = Gone /\ message = EmptyMessage
  /\ request = [method |-> "GET", connections |-> 1, content_length |-> 0, file_size |-> 0,
                duration |-> 0, file_upload |-> FALSE, additional_header |-> NULL,
                content_type |-> "", bodydata |-> 0]

-----------------------------------------------------------------------------
(* parse_cli, one action per option.                                       *)

Option(opt, arg) ==
  /\ pc = "cli" /\ Len(args) < MaxOptions
  /\ args' = Append(args, [opt |-> opt, arg |-> arg])
  /\ UNCHANGED <<message, stage, given, real_url, scanner, text>>

\* The program ends before the option changes anything; or it goes on.
Stop(how) == pc' = how /\ UNCHANGED <<request, timer, file, port>>
Assign(r) == request' = r /\ UNCHANGED pc

\* Mutant: the file is not counted.
OptionFile_uncounted ==
  \E size \in FileSizes :
    /\ Option("b", size)
    /\ \/ size = Gone /\ Stop("failed")
       \/ /\ size # Gone
          /\ Assign([request EXCEPT !.file_upload = TRUE, !.method = "POST",
                                 !.content_length = Int32(size), !.content_type = "octet-stream"])
          /\ file' = size /\ UNCHANGED <<timer, port>>

OptionFile ==
  \E size \in FileSizes :
    /\ Option("b", size)
    /\ \/ size = Gone /\ Stop("failed")
       \/ /\ size # Gone
          /\ Assign([request EXCEPT !.file_upload = TRUE, !.method = "POST",
                                 !.content_length = Int32(size), !.file_size = Int32(size),
                                 !.content_type = "octet-stream"])
          /\ file' = size /\ UNCHANGED <<timer, port>>

OptionConnections ==
  \E n \in Counts :
    /\ Option("c", n)
    /\ \/ n \notin 1 .. MaxPort /\ Stop("failed")
       \/ /\ n \in 1 .. MaxPort
          /\ Assign([request EXCEPT !.connections = n]) /\ UNCHANGED <<timer, file, port>>

\* memcpy copies BODY_SIZE bytes whatever the length: past a short argument it
\* may meet the end of the stack; a long one is left without its NUL, and the
\* string goes on into the first byte of method, 103 for POST.
OptionData ==
  \E n \in DataSizes :
    /\ Option("d", n)
    /\ \/ n < BODY_SIZE - 1 /\ Stop("crashed")
       \/ /\ Assign([request EXCEPT !.method = "POST", !.content_length = n, !.content_type = "form",
                                 !.bodydata = IF n < BODY_SIZE THEN n ELSE BODY_SIZE + 1])
          /\ UNCHANGED <<timer, file, port>>

\* -f takes no argument: optarg is NULL.
OptionPipelining ==
  /\ Option("f", 0)
  /\ Assign([request EXCEPT !.file_upload = FALSE]) /\ UNCHANGED <<timer, file, port>>

OptionHeader ==
  \E h \in Headers :
    /\ Option("H", h)
    /\ Assign([request EXCEPT !.additional_header = h]) /\ UNCHANGED <<timer, file, port>>

\* help() prints and returns; show_version() and an option getopt(3) does not
\* know end the program.
OptionHelp == Option("h", 0) /\ UNCHANGED <<pc, request, timer, file, port>>
OptionVersion == Option("v", 0) /\ Stop("quit")
OptionUnknown == Option("?", 0) /\ Stop("failed")

OptionMinutes ==
  \E n \in Counts :
    /\ Option("m", n)
    /\ \/ n < 1 /\ Stop("failed")
       \/ n >= 1 /\ Assign([request EXCEPT !.duration = Int32(60 * n)]) /\ UNCHANGED <<timer, file, port>>

\* Mutant: any number is a port.
OptionPort_any ==
  \E n \in Ports : Option("p", n) /\ port' = n /\ UNCHANGED <<pc, request, timer, file>>
OptionPort ==
  \E n \in Ports :
    /\ Option("p", n)
    /\ \/ n \notin 1 .. MaxPort /\ Stop("failed")
       \/ n \in 1 .. MaxPort /\ port' = n /\ UNCHANGED <<pc, request, timer, file>>

\* Mutant: the timer that is armed first stays.
OptionSeconds_first ==
  \E n \in Counts :
    /\ Option("t", n)
    /\ \/ Stop("failed")
       \/ /\ n >= 1
          /\ Assign([request EXCEPT !.duration = n])
          /\ timer' = (IF timer = NoTimer THEN n ELSE timer) /\ UNCHANGED <<file, port>>

\* timerfd_create(2) and timerfd_settime(2) may fail.
OptionSeconds ==
  \E n \in Counts :
    /\ Option("t", n)
    /\ \/ Stop("failed")
       \/ /\ n >= 1
          /\ Assign([request EXCEPT !.duration = n]) /\ timer' = n /\ UNCHANGED <<file, port>>

parse_cli ==
  \/ OptionFile \/ OptionConnections \/ OptionData \/ OptionPipelining \/ OptionHeader \/ OptionHelp
  \/ OptionVersion \/ OptionUnknown \/ OptionMinutes \/ OptionPort \/ OptionSeconds

-----------------------------------------------------------------------------
(* parse_opt: the URL, its fields, its address.                            *)

NoArgument ==
  /\ pc = "cli"
  /\ pc' = IF args = <<>> THEN "quit" ELSE "failed"
  /\ UNCHANGED <<cliVars, file, message, urlVars>>

UrlArgument ==
  /\ pc = "cli"
  /\ \E u \in Urls(Len(args)) : GiveUrl(u)
  /\ pc' = "url"
  /\ UNCHANGED <<cliVars, file, message>>

ParseUrl == pc = "url" /\ UrlNext /\ UNCHANGED <<pc, cliVars, file, message>>

\* sk_get_host_ipv4 finds an address or none.
Resolve ==
  /\ pc = "url" /\ stage \in {"copied", "invalid"}
  /\ pc' \in IF stage = "copied" THEN {"compose", "failed"} ELSE {"failed"}
  /\ UNCHANGED <<cliVars, file, message, urlVars>>

\* Another program writes or removes the file.
FileChanges ==
  /\ pc = "compose" /\ request.file_upload
  /\ file' \in FileSizes \ {file}
  /\ UNCHANGED <<pc, cliVars, message, urlVars>>

-----------------------------------------------------------------------------
(* compose_request_buffer.                                                 *)

\* REGEX_IPV4 has no anchors.
IsIPv4(host) ==
  \E i \in 1 .. Len(host) - 6 :
    \A k \in 0 .. 6 : IF k % 2 = 0 THEN host[i + k] \in Digit ELSE host[i + k] = "."

\* The Host header made from the URL is for a name, or looks for the user's.
NamedHost == ~IsIPv4(text["host"]) /\ text["host"] # <<"localhost">>
Found == ~NamedHost /\ request.additional_header.name \in {"Host", "X-Forwarded-Host"}

\* The characters get_header_value reads of what it finds: one less when a
\* blank follows.
get_header_value ==
  LET h == request.additional_header
  IN  IF ~Found THEN 0 ELSE IF h.blank /\ h.chars > 0 THEN h.chars - 1 ELSE h.chars

\* Mutant: the ? is forgotten.
StartLine_bare ==
  <<request.method, "SP">> \o text["path"] \o text["query"]
    \o (IF text["fragment"] = <<>> THEN <<>> ELSE <<"#">> \o text["fragment"] \o <<"SP">>)
    \o <<"SP", "HTTP/1.1">>
StartLine ==
  <<request.method, "SP">> \o text["path"] \o After(<<"?">>, text["query"])
    \o (IF text["fragment"] = <<>> THEN <<>> ELSE <<"#">> \o text["fragment"] \o <<"SP">>)
    \o <<"SP", "HTTP/1.1">>

NoPort == -1

\* Mutant: the user's header is not looked at.
OwnHost_always ==
  IF NamedHost THEN << [from |-> "url", port |-> NoPort] >>
  ELSE << [from |-> "url", port |-> IF port = 80 THEN NoPort ELSE port] >>
OwnHost ==
  IF NamedHost THEN << [from |-> "url", port |-> NoPort] >>
  ELSE IF get_header_value # 0 THEN <<>>
  ELSE << [from |-> "url", port |-> IF port = 80 THEN NoPort ELSE port] >>

UserHost ==
  IF request.additional_header.name \in {"Host", "host"} THEN << [from |-> "user", port |-> NoPort] >> ELSE <<>>

\* get_header_value looks for a colon, and for a blank, as far as memory goes.
HeaderReads == Found => request.additional_header.colon
HeaderCrashes == Found /\ (~request.additional_header.colon \/ ~request.additional_header.blank)

Multipart == request.bodydata # 0 /\ request.file_upload
ToRead == IF Multipart THEN request.file_size ELSE request.content_length

\* read(2) of so many bytes: an int below 0 is a size too big for it.
BytesRead == IF ToRead < 0 THEN -1 ELSE IF file < ToRead THEN file ELSE ToRead

Piece(what, bytes) == [what |-> what, bytes |-> bytes]
Boundary == Piece("boundary", 1)
Body ==
  IF Multipart THEN <<Boundary, Piece("file", BytesRead), Boundary, Piece("data", request.bodydata), Boundary>>
  ELSE IF request.file_upload THEN <<Piece("file", BytesRead)>>
  ELSE IF request.bodydata # 0 THEN <<Piece("data", request.bodydata)>> ELSE <<>>
Size(body) == FoldLeft(LAMBDA a, b : a + b, 0, [i \in DOMAIN body |-> body[i].bytes])

\* Mutant: the length of a multipart body is not computed again.
ContentLength_once == request.content_length
ContentLength == IF Multipart THEN Size(Body) ELSE request.content_length

Fails == request.file_upload /\ (file = Gone \/ BytesRead # ToRead)
Overflows == Size(Body) > BufferSize

(* A header that is searched in vain ends the program; so do a file that   *)
(* is gone or shorter than it was; one too long for the buffer is read     *)
(* over what follows it, or not wholly.                                    *)
ComposeEnds ==
  /\ pc = "compose"
  /\ \/ HeaderCrashes /\ pc' = "crashed"
     \/ HeaderReads /\ Fails /\ pc' = "failed"
     \/ HeaderReads /\ ~(request.file_upload /\ file = Gone) /\ Overflows
        /\ pc' \in {"failed", "crashed"}
  /\ UNCHANGED <<cliVars, file, message, urlVars>>

compose_request_buffer ==
  /\ pc = "compose" /\ HeaderReads /\ ~Fails /\ ~Overflows
  /\ message' = [line |-> StartLine, hosts |-> OwnHost \o UserHost,
                 content_type |-> IF Multipart THEN "multipart" ELSE request.content_type,
                 length |-> ContentLength, body |-> Body]
  /\ pc' = "loop"
  /\ UNCHANGED <<cliVars, file, urlVars>>

Next ==
  \/ parse_cli \/ NoArgument \/ UrlArgument \/ ParseUrl \/ Resolve
  \/ FileChanges \/ ComposeEnds \/ compose_request_buffer

Spec == Init /\ [][Next]_requestVars

-----------------------------------------------------------------------------
(* Type invariant of the record and of what is composed from it.            *)
TypeOK ==
  /\ pc \in {"cli", "url", "compose", "loop", "failed", "quit", "crashed"}
  /\ Len(args) <= MaxOptions
  /\ request.method \in {"GET", "POST"} /\ request.connections \in 1 .. MaxPort
  /\ {request.content_length, request.file_size, request.duration} \subseteq -(IntMax + 1) .. IntMax
  /\ request.bodydata \in 0 .. BODY_SIZE + 1
  /\ request.additional_header \in Headers \cup {NULL}
  /\ port \in 0 .. MaxPort
  /\ file \in FileSizes \cup {Gone} /\ timer \in Nat

LastOf(opt) == { i \in DOMAIN args : args[i].opt = opt /\ \A j \in i + 1 .. Len(args) : args[j].opt # opt }
Asked(opt) == LastOf(opt) # {}

\* Every option -f comes before any -b, or there is none.
FileStays == \A i \in LastOf("b"), j \in DOMAIN args : args[j].opt = "f" => j < i
FilesSmall == \A i \in DOMAIN args : args[i].opt = "b" => args[i].arg <= IntMax
DataSmall == \A i \in DOMAIN args : args[i].opt = "d" => args[i].arg < BODY_SIZE

(* A server reads as many bytes as Content-Length says: it must be what     *)
(* compose_request_buffer puts behind the head, for every order of -b and   *)
(* -d, also when the file grows, shrinks or goes between stat(2) and        *)
(* read(2).                                                                 *)
BodyIsDeclared ==
  pc = "loop" /\ FileStays /\ FilesSmall /\ DataSmall => message.length = Size(message.body)

(* The body is the file of the last -b, as long as it was then, and the     *)
(* data of the last -d, in whatever order and however often they were       *)
(* given.  (After -b empty data make an empty body.)                        *)
BodyAsAsked ==
  pc = "loop" /\ FileStays /\ FilesSmall /\ DataSmall =>
    \A i \in LastOf("b"), j \in LastOf("d") : args[j].arg > 0 =>
      { piece \in ToSet(message.body) : piece.what # "boundary" } =
        { Piece("file", args[i].arg), Piece("data", args[j].arg) }

(* The start line has the method that goes with the body, and the path and  *)
(* the query that were written, through options, scanner, copies and        *)
(* snprintf, if there is a path and no fragment.                            *)
LineAsAsked ==
  pc = "loop" =>
    \A w \in given.written : Fits(w) /\ w["path"] # <<>> /\ w["fragment"] = <<>> =>
      message.line = <<IF Asked("b") \/ Asked("d") THEN "POST" ELSE "GET", "SP">>
                       \o w["path"] \o After(<<"?">>, w["query"]) \o <<"SP", "HTTP/1.1">>

(* There is exactly one Host header: the URL's, with its port if the URL    *)
(* gives an address or localhost, when -H speaks of no host; the user's,    *)
(* when the URL gives an address and -H a Host of two characters or more.   *)
OneHost ==
  pc = "loop" =>
    LET h == request.additional_header
    IN  /\ h.name \in {"Accept", "none"} =>
             message.hosts = << [from |-> "url", port |-> IF NamedHost \/ port = 80 THEN NoPort ELSE port] >>
        /\ h.name = "Host" /\ ~NamedHost /\ h.chars > 1 =>
             message.hosts = << [from |-> "user", port |-> NoPort] >>

(* The port every connection is made to: the one written in the URL, in     *)
(* whatever order that of the last -p if there is none, or 80.              *)
PortAsAsked ==
  pc = "loop" =>
    \A w \in given.written : Fits(w) =>
      port = IF w["port"] # <<>> THEN Number(w["port"])
             ELSE IF Asked("p") THEN args[CHOOSE i \in LastOf("p") : TRUE].arg ELSE 80

(* What the event loop takes from main besides: the last -c, and the timer  *)
(* and duration of the last -t, unless a -m came after it.                  *)
LoopGetsWhatWasAsked ==
  pc = "loop" =>
    /\ \A i \in LastOf("c") : request.connections = args[i].arg
    /\ \A i \in LastOf("t") :
         /\ timer = args[i].arg
         /\ (\A j \in LastOf("m") : j < i) => request.duration = timer

-----------------------------------------------------------------------------
(* What does not hold.                                                      *)

(* request.c:200 gives "./webpress google.com -c 100" as a command line.    *)
(* The request it makes must have a target between its method and version.  *)
TargetGiven == pc = "loop" => message.line[3] # "SP"

(* BodyIsDeclared whatever the options: -f, which by help.c:13 is about     *)
(* pipelining, and data that do not fit into bodydata.                      *)
ContentLengthIsBody == pc = "loop" => message.length = Size(message.body)

(* One Host header whatever -H, which by help.c:15 adds a header.           *)
OneHostAlways == pc = "loop" => Len(message.hosts) = 1
=============================================================================
