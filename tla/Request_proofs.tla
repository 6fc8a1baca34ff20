---------------------------- MODULE Request_proofs ----------------------------
(***************************************************************************)
(* What holds of Request for every alphabet, every URL, every size of the  *)
(* arrays and every number and order of options.  What the steps of        *)
(* parse_url preserve is in Url_proofs; here it is carried through the     *)
(* whole of main, and the options and the message composed are added.      *)
(***************************************************************************)
EXTENDS Request, Url_proofs, TLAPS

-----------------------------------------------------------------------------
(* The URL is read while the request is made.                              *)

\* A step gives the URL, reads it, or leaves what is read alone.
LEMMA UrlSteps ==
  ASSUME Len(args) \in 0 .. MaxOptions, [Next]_requestVars
  PROVE  \/ \E u : IsUrl(u) /\ GiveUrl(u) /\ pc' = "url" /\ pc = "cli"
         \/ UrlNext /\ UNCHANGED <<pc, cliVars, file, message>>
         \/ UNCHANGED <<stage, given, real_url, scanner, text>> /\ (pc = "cli" \/ port' = port)
  <1>1. CASE parse_cli
    BY <1>1 DEF parse_cli, OptionFile, OptionConnections, OptionData, OptionPipelining, OptionHeader,
                OptionHelp, OptionVersion, OptionUnknown, OptionMinutes, OptionPort, OptionSeconds, Option
  <1>2. CASE NoArgument \/ Resolve \/ FileChanges \/ ComposeEnds \/ compose_request_buffer
    BY <1>2 DEF NoArgument, Resolve, FileChanges, ComposeEnds, compose_request_buffer, urlVars
  <1>3. CASE UrlArgument
    BY <1>3, UrlsAssumption DEF UrlArgument
  <1>4. CASE ParseUrl
    BY <1>4 DEF ParseUrl
  <1>5. CASE UNCHANGED requestVars
    BY <1>5 DEF requestVars, urlVars
  <1> QED BY <1>1, <1>2, <1>3, <1>4, <1>5 DEF Next

-----------------------------------------------------------------------------
(* The options.  What the request has of them is what the last one of its  *)
(* kind said; a kind is a set of options that set the same.                *)

Letters == {"b", "c", "d", "f", "H", "h", "v", "?", "m", "p", "t"}
Args == [opt : Letters, arg : Int \cup Header]
LatestIn(a, kind) ==
  { i \in 1 .. Len(a) : a[i].opt \in kind /\ \A j \in i + 1 .. Len(a) : a[j].opt \notin kind }

\* One option more.
IsAfter(b, a, x) ==
  /\ b \in Seq(Args) /\ Len(b) = Len(a) + 1 /\ b[Len(a) + 1] = x
  /\ \A i \in 1 .. Len(a) : b[i] = a[i]
  /\ \A kind : x.opt \in kind => LatestIn(b, kind) = {Len(a) + 1}
  /\ \A kind : x.opt \notin kind => LatestIn(b, kind) = LatestIn(a, kind)
LEMMA OneOption ==
  ASSUME NEW a \in Seq(Args), NEW x \in Args, NEW b, b = Append(a, x)
  PROVE  IsAfter(b, a, x)
<1> DEFINE n == Len(a)
<1>1. n \in Nat /\ b \in Seq(Args) /\ Len(b) = n + 1 /\ b[n + 1] = x /\ \A i \in 1 .. n : b[i] = a[i]
  OBVIOUS
<1> HIDE DEF n
<1>2. ASSUME NEW kind, x.opt \in kind PROVE LatestIn(b, kind) = {n + 1}
  <2>1. \A i \in 1 .. n : n + 1 \in i + 1 .. n + 1
    BY <1>1
  <2>2. n + 1 \in LatestIn(b, kind)
    BY <1>1, <1>2 DEF LatestIn
  <2>3. \A i \in LatestIn(b, kind) : i = n + 1
    BY <1>1, <1>2, <2>1 DEF LatestIn
  <2> QED BY <2>2, <2>3
<1>3. ASSUME NEW kind, x.opt \notin kind PROVE LatestIn(b, kind) = LatestIn(a, kind)
  <2>1. ASSUME NEW i \in LatestIn(a, kind) PROVE i \in LatestIn(b, kind)
    <3>1. i \in 1 .. n /\ a[i].opt \in kind /\ \A j \in i + 1 .. n : a[j].opt \notin kind
      BY <2>1 DEF LatestIn, n
    <3>2. \A j \in i + 1 .. n + 1 : b[j].opt \notin kind
      BY <1>1, <1>3, <3>1
    <3> QED BY <1>1, <3>1, <3>2 DEF LatestIn
  <2>2. ASSUME NEW i \in LatestIn(b, kind) PROVE i \in LatestIn(a, kind)
    <3>1. i \in 1 .. n + 1 /\ b[i].opt \in kind /\ \A j \in i + 1 .. n + 1 : b[j].opt \notin kind
      BY <1>1, <2>2 DEF LatestIn
    <3>2. i \in 1 .. n
      BY <1>1, <1>3, <3>1
    <3>3. \A j \in i + 1 .. n : a[j].opt \notin kind
      BY <1>1, <3>1, <3>2
    <3>4. a[i].opt \in kind
      BY <1>1, <3>1, <3>2
    <3> QED BY <3>2, <3>3, <3>4 DEF LatestIn, n
  <2> QED BY <2>1, <2>2
<1> QED BY <1>1, <1>2, <1>3 DEF n, IsAfter

\* One of a kind that was given was given last.
LEMMA SomeLatest ==
  ASSUME NEW a \in Seq(Args), NEW kind, NEW i \in 1 .. Len(a), a[i].opt \in kind
  PROVE  LatestIn(a, kind) # {}
<1> DEFINE r == {k \in 1 .. Len(a) : a[k].opt \in kind}
<1>1. Len(a) \in Nat /\ r \in SUBSET (1 .. Len(a)) /\ r # {}
  OBVIOUS
<1>2. Max(r) \in r /\ \A y \in r : y <= Max(r)
  BY <1>1, MaxIs
<1> DEFINE m == Max(r)
<1>3. m \in 1 .. Len(a) /\ a[m].opt \in kind
  BY <1>2
<1>4. \A j \in m + 1 .. Len(a) : j \in 1 .. Len(a) /\ ~(j <= m)
  BY <1>1, <1>3
<1>5. \A j \in m + 1 .. Len(a) : a[j].opt \notin kind
  BY <1>2, <1>4
<1> HIDE DEF m
<1> QED BY <1>3, <1>5 DEF LatestIn

\* What the options make of the request.
FileOf(a, r) ==
  /\ r.file_upload = \E i \in LatestIn(a, {"b", "f"}) : a[i].opt = "b"
  /\ \A i \in LatestIn(a, {"b"}) : a[i].arg \in Nat /\ r.file_size = Int32(a[i].arg)
DataOf(a, r) ==
  /\ LatestIn(a, {"d"}) = {} => r.bodydata = 0
  /\ \A i \in LatestIn(a, {"d"}) :
       /\ a[i].arg \in 0 .. IntMax
       /\ r.bodydata = IF a[i].arg < BODY_SIZE THEN a[i].arg ELSE BODY_SIZE + 1
LengthOf(a, r) ==
  /\ LatestIn(a, {"b", "d"}) = {} => r.content_length = 0
  /\ \A i \in LatestIn(a, {"b", "d"}) :
       r.content_length = IF a[i].opt = "b" THEN Int32(a[i].arg) ELSE a[i].arg
  /\ r.method = IF LatestIn(a, {"b", "d"}) = {} THEN "GET" ELSE "POST"
ConnectionsOf(a, r) == \A i \in LatestIn(a, {"c"}) : r.connections = a[i].arg
ClockOf(a, r, t) ==
  /\ \A i \in LatestIn(a, {"t"}) : t = a[i].arg
  /\ \A i \in LatestIn(a, {"t", "m"}) : a[i].opt = "t" => r.duration = a[i].arg
PortOf(a, q) ==
  /\ LatestIn(a, {"p"}) = {} => q = 80
  /\ \A i \in LatestIn(a, {"p"}) : q = a[i].arg

\* The program has not been ended by an option.
Running == {"cli", "url", "compose", "loop"}
OptionsInv ==
  /\ args \in Seq(Args) /\ Len(args) <= MaxOptions
  /\ pc \in Running => /\ FileOf(args, request) /\ DataOf(args, request) /\ LengthOf(args, request)
                       /\ ConnectionsOf(args, request) /\ ClockOf(args, request, timer)
  /\ pc = "cli" => stage = "none" /\ PortOf(args, port)

LEMMA InitialOptions == Init => OptionsInv
<1> SUFFICES ASSUME Init PROVE OptionsInv
  OBVIOUS
<1>1. args = <<>> /\ stage = "none" /\ port = 80
      /\ request = [method |-> "GET", connections |-> 1, content_length |-> 0, file_size |-> 0,
                duration |-> 0, file_upload |-> FALSE, additional_header |-> NULL,
                content_type |-> "", bodydata |-> 0]
  BY DEF Init, UrlInit
<1>2. args \in Seq(Args) /\ Len(args) = 0
  <2>1. args = <<>>
    BY <1>1
  <2> QED BY <2>1
<1>3. \A kind : LatestIn(args, kind) = {}
  BY <1>2 DEF LatestIn
<1>4. FileOf(args, request)
  <2>1. request.file_upload = FALSE
    BY <1>1
  <2> QED BY <1>3, <2>1 DEF FileOf
<1>5. DataOf(args, request) /\ LengthOf(args, request)
  BY <1>1, <1>3 DEF DataOf, LengthOf
<1>6. ConnectionsOf(args, request) /\ ClockOf(args, request, timer) /\ PortOf(args, port)
  BY <1>1, <1>3 DEF ConnectionsOf, ClockOf, PortOf
<1>7. stage = "none" /\ Len(args) <= MaxOptions
  <2>1. MaxOptions \in Nat
    BY RequestAssumption
  <2>2. stage = "none"
    BY <1>1
  <2>3. 0 <= MaxOptions
    BY <2>1
  <2> QED BY <1>2, <2>2, <2>3
<1> QED BY <1>2, <1>4, <1>5, <1>6, <1>7 DEF OptionsInv

\* What an option adds to the command line.
LEMMA OptionGiven ==
  ASSUME OptionsInv, NEW opt \in Letters, NEW arg \in Int \cup Header, Option(opt, arg)
  PROVE  /\ args' \in Seq(Args) /\ Len(args') <= MaxOptions /\ Len(args) \in Nat
         /\ args'[Len(args) + 1] = [opt |-> opt, arg |-> arg]
         /\ \A i \in 1 .. Len(args) : args'[i] = args[i]
         /\ \A kind : opt \in kind => LatestIn(args', kind) = {Len(args) + 1}
         /\ \A kind : opt \notin kind => LatestIn(args', kind) = LatestIn(args, kind)
         /\ \A kind : LatestIn(args, kind) \subseteq 1 .. Len(args)
         /\ pc = "cli" /\ stage' = "none"
<1> DEFINE x == [opt |-> opt, arg |-> arg]
<1>1. args \in Seq(Args) /\ Len(args) < MaxOptions /\ args' = Append(args, x) /\ pc = "cli"
      /\ Len(args) \in Nat /\ stage' = "none"
  BY DEF OptionsInv, Option
<1>2. x \in Args /\ x.opt = opt
  BY DEF Args
<1> HIDE DEF x
<1>3. /\ args' \in Seq(Args) /\ Len(args') = Len(args) + 1 /\ args'[Len(args) + 1] = x
      /\ \A i \in 1 .. Len(args) : args'[i] = args[i]
      /\ \A kind : opt \in kind => LatestIn(args', kind) = {Len(args) + 1}
      /\ \A kind : opt \notin kind => LatestIn(args', kind) = LatestIn(args, kind)
  <2> DEFINE b == args'
  <2>1. b = Append(args, x) /\ args \in Seq(Args) /\ x \in Args
    BY <1>1, <1>2
  <2> HIDE DEF b
  <2>2. IsAfter(b, args, x)
    BY <2>1, OneOption
  <2> QED BY <1>2, <2>2 DEF b, IsAfter
<1>4. \A kind : LatestIn(args, kind) \subseteq 1 .. Len(args)
  BY DEF LatestIn
<1>5. Len(args') <= MaxOptions
  BY <1>1, <1>3, RequestAssumption
<1> QED BY <1>1, <1>3, <1>4, <1>5 DEF x

\* An option leaves what is not of its kind.
LEMMA Unaffected ==
  ASSUME OptionsInv, NEW opt \in Letters, NEW arg \in Int \cup Header, Option(opt, arg), NEW r, NEW t, NEW q
  PROVE  /\ opt \notin {"b", "f"} /\ r.file_upload = request.file_upload
              /\ r.file_size = request.file_size => FileOf(args', r)
         /\ opt # "d" /\ r.bodydata = request.bodydata => DataOf(args', r)
         /\ opt \notin {"b", "d"} /\ r.content_length = request.content_length
              /\ r.method = request.method => LengthOf(args', r)
         /\ opt # "c" /\ r.connections = request.connections => ConnectionsOf(args', r)
         /\ opt \notin {"t", "m"} /\ r.duration = request.duration /\ t = timer => ClockOf(args', r, t)
         /\ opt # "p" /\ q = port => PortOf(args', q)
<1>1. /\ \A i \in 1 .. Len(args) : args'[i] = args[i]
      /\ \A kind : opt \notin kind => LatestIn(args', kind) = LatestIn(args, kind)
      /\ \A kind : LatestIn(args, kind) \subseteq 1 .. Len(args)
      /\ pc = "cli"
  BY OptionGiven
<1>2. \A kind : opt \notin kind => /\ LatestIn(args', kind) = LatestIn(args, kind)
                                   /\ \A i \in LatestIn(args, kind) : args'[i] = args[i]
  BY <1>1
<1>3. /\ FileOf(args, request) /\ DataOf(args, request) /\ LengthOf(args, request)
      /\ ConnectionsOf(args, request) /\ ClockOf(args, request, timer) /\ PortOf(args, port)
  BY <1>1 DEF OptionsInv, Running
<1>4. opt \notin {"b", "f"} /\ r.file_upload = request.file_upload
        /\ r.file_size = request.file_size => FileOf(args', r)
  <2> SUFFICES ASSUME opt \notin {"b", "f"}, r.file_upload = request.file_upload,
                      r.file_size = request.file_size
               PROVE  FileOf(args', r)
    OBVIOUS
  <2>1. /\ LatestIn(args', {"b", "f"}) = LatestIn(args, {"b", "f"})
        /\ \A i \in LatestIn(args, {"b", "f"}) : args'[i] = args[i]
        /\ LatestIn(args', {"b"}) = LatestIn(args, {"b"})
        /\ \A i \in LatestIn(args, {"b"}) : args'[i] = args[i]
    BY <1>2
  <2>2. (\E i \in LatestIn(args', {"b", "f"}) : args'[i].opt = "b")
          <=> (\E i \in LatestIn(args, {"b", "f"}) : args[i].opt = "b")
    BY <2>1
  <2> QED BY <1>3, <2>1, <2>2 DEF FileOf
<1>5. opt # "d" /\ r.bodydata = request.bodydata => DataOf(args', r)
  <2>1. opt # "d" => /\ LatestIn(args', {"d"}) = LatestIn(args, {"d"})
                     /\ \A i \in LatestIn(args, {"d"}) : args'[i] = args[i]
    BY <1>2
  <2> QED BY <1>3, <2>1 DEF DataOf
<1>6. opt \notin {"b", "d"} /\ r.content_length = request.content_length
        /\ r.method = request.method => LengthOf(args', r)
  <2>1. opt \notin {"b", "d"} => /\ LatestIn(args', {"b", "d"}) = LatestIn(args, {"b", "d"})
                                 /\ \A i \in LatestIn(args, {"b", "d"}) : args'[i] = args[i]
    BY <1>2
  <2> QED BY <1>3, <2>1 DEF LengthOf
<1>7. opt # "c" /\ r.connections = request.connections => ConnectionsOf(args', r)
  <2>1. opt # "c" => /\ LatestIn(args', {"c"}) = LatestIn(args, {"c"})
                     /\ \A i \in LatestIn(args, {"c"}) : args'[i] = args[i]
    BY <1>2
  <2> QED BY <1>3, <2>1 DEF ConnectionsOf
<1>8. opt \notin {"t", "m"} /\ r.duration = request.duration /\ t = timer => ClockOf(args', r, t)
  <2>1. opt \notin {"t", "m"} => /\ LatestIn(args', {"t", "m"}) = LatestIn(args, {"t", "m"})
                                 /\ \A i \in LatestIn(args, {"t", "m"}) : args'[i] = args[i]
                                 /\ LatestIn(args', {"t"}) = LatestIn(args, {"t"})
                                 /\ \A i \in LatestIn(args, {"t"}) : args'[i] = args[i]
    BY <1>2
  <2> QED BY <1>3, <2>1 DEF ClockOf
<1>9. opt # "p" /\ q = port => PortOf(args', q)
  <2>1. opt # "p" => /\ LatestIn(args', {"p"}) = LatestIn(args, {"p"})
                     /\ \A i \in LatestIn(args, {"p"}) : args'[i] = args[i]
    BY <1>2
  <2> QED BY <1>3, <2>1 DEF PortOf
<1> QED BY <1>4, <1>5, <1>6, <1>7, <1>8, <1>9

\* What an option sets of its own kind.
LEMMA Affected ==
  ASSUME OptionsInv, NEW opt \in Letters, NEW arg \in Int \cup Header, Option(opt, arg), NEW r, NEW t, NEW q
  PROVE  /\ opt = "b" /\ r.file_upload = TRUE /\ arg \in Nat /\ r.file_size = Int32(arg) => FileOf(args', r)
         /\ opt = "f" /\ r.file_upload = FALSE /\ r.file_size = request.file_size => FileOf(args', r)
         /\ opt = "d" /\ arg \in 0 .. IntMax
              /\ r.bodydata = (IF arg < BODY_SIZE THEN arg ELSE BODY_SIZE + 1) => DataOf(args', r)
         /\ opt \in {"b", "d"} /\ r.content_length = (IF opt = "b" THEN Int32(arg) ELSE arg)
              /\ r.method = "POST" => LengthOf(args', r)
         /\ opt = "c" /\ r.connections = arg => ConnectionsOf(args', r)
         /\ opt = "t" /\ r.duration = arg /\ t = arg => ClockOf(args', r, t)
         /\ opt = "m" /\ t = timer => ClockOf(args', r, t)
         /\ opt = "p" /\ q = arg => PortOf(args', q)
<1> DEFINE n == Len(args) + 1
<1>1. /\ args'[n].opt = opt /\ args'[n].arg = arg
      /\ \A i \in 1 .. Len(args) : args'[i] = args[i]
      /\ \A kind : opt \in kind => LatestIn(args', kind) = {n}
      /\ \A kind : opt \notin kind => LatestIn(args', kind) = LatestIn(args, kind)
      /\ \A kind : LatestIn(args, kind) \subseteq 1 .. Len(args)
      /\ pc = "cli"
  <2>1. /\ args'[n] = [opt |-> opt, arg |-> arg]
        /\ \A i \in 1 .. Len(args) : args'[i] = args[i]
        /\ \A kind : opt \in kind => LatestIn(args', kind) = {n}
        /\ \A kind : opt \notin kind => LatestIn(args', kind) = LatestIn(args, kind)
        /\ \A kind : LatestIn(args, kind) \subseteq 1 .. Len(args)
        /\ pc = "cli"
    BY OptionGiven
  <2> HIDE DEF n
  <2> QED BY <2>1
<1>2. FileOf(args, request) /\ ClockOf(args, request, timer)
  BY <1>1 DEF OptionsInv, Running
<1> HIDE DEF n
<1>3. opt = "b" /\ r.file_upload = TRUE /\ arg \in Nat /\ r.file_size = Int32(arg) => FileOf(args', r)
  <2>1. opt = "b" => LatestIn(args', {"b", "f"}) = {n} /\ LatestIn(args', {"b"}) = {n}
    BY <1>1
  <2> QED BY <1>1, <2>1 DEF FileOf
<1>4. opt = "f" /\ r.file_upload = FALSE /\ r.file_size = request.file_size => FileOf(args', r)
  <2>1. opt = "f" => /\ LatestIn(args', {"b", "f"}) = {n}
                     /\ LatestIn(args', {"b"}) = LatestIn(args, {"b"})
                     /\ \A i \in LatestIn(args, {"b"}) : args'[i] = args[i]
    BY <1>1
  <2> QED BY <1>1, <1>2, <2>1 DEF FileOf
<1>5. opt = "d" /\ arg \in 0 .. IntMax
        /\ r.bodydata = (IF arg < BODY_SIZE THEN arg ELSE BODY_SIZE + 1) => DataOf(args', r)
  <2>1. opt = "d" => LatestIn(args', {"d"}) = {n}
    BY <1>1
  <2> QED BY <1>1, <2>1 DEF DataOf
<1>6. opt \in {"b", "d"} /\ r.content_length = (IF opt = "b" THEN Int32(arg) ELSE arg)
        /\ r.method = "POST" => LengthOf(args', r)
  <2>1. opt \in {"b", "d"} => LatestIn(args', {"b", "d"}) = {n}
    BY <1>1
  <2> QED BY <1>1, <2>1 DEF LengthOf
<1>7. opt = "c" /\ r.connections = arg => ConnectionsOf(args', r)
  <2>1. opt = "c" => LatestIn(args', {"c"}) = {n}
    BY <1>1
  <2> QED BY <1>1, <2>1 DEF ConnectionsOf
<1>8. opt = "t" /\ r.duration = arg /\ t = arg => ClockOf(args', r, t)
  <2>1. opt = "t" => LatestIn(args', {"t", "m"}) = {n} /\ LatestIn(args', {"t"}) = {n}
    BY <1>1
  <2> QED BY <1>1, <2>1 DEF ClockOf
<1>9. opt = "m" /\ t = timer => ClockOf(args', r, t)
  <2>1. opt = "m" => /\ LatestIn(args', {"t", "m"}) = {n}
                     /\ LatestIn(args', {"t"}) = LatestIn(args, {"t"})
                     /\ \A i \in LatestIn(args, {"t"}) : args'[i] = args[i]
    BY <1>1
  <2> QED BY <1>1, <1>2, <2>1 DEF ClockOf
<1>10. opt = "p" /\ q = arg => PortOf(args', q)
  <2>1. opt = "p" => LatestIn(args', {"p"}) = {n}
    BY <1>1
  <2> QED BY <1>1, <2>1 DEF PortOf
<1> QED BY <1>3, <1>4, <1>5, <1>6, <1>7, <1>8, <1>9, <1>10

\* The arguments of options.
LEMMA Arguments ==
  /\ \A n \in FileSizes : n # Gone => n \in Nat
  /\ FileSizes \subseteq Int /\ Counts \subseteq Int /\ Ports \subseteq Int
  /\ DataSizes \subseteq 0 .. IntMax /\ DataSizes \subseteq Int /\ Headers \subseteq Header
  /\ IntMax \in Nat /\ MaxPort \in Nat /\ MaxPort <= IntMax /\ BODY_SIZE \in Nat /\ MaxOptions \in Nat
  /\ Counts \subseteq -(IntMax + 1) .. IntMax
BY RequestAssumption, UrlSizesAssumption DEF Gone

\* An option that ends the program leaves the command line only.
LEMMA Stopped ==
  ASSUME OptionsInv, NEW opt \in Letters, NEW arg \in Int \cup Header, Option(opt, arg),
         pc' \in {"failed", "crashed", "quit"}
  PROVE  OptionsInv'
BY OptionGiven DEF OptionsInv, Running

\* One that goes on.
LEMMA WentOn ==
  ASSUME OptionsInv, NEW opt \in Letters, NEW arg \in Int \cup Header, Option(opt, arg), pc' = pc,
         FileOf(args', request'), DataOf(args', request'), LengthOf(args', request'),
         ConnectionsOf(args', request'), ClockOf(args', request', timer'), PortOf(args', port')
  PROVE  OptionsInv'
BY OptionGiven DEF OptionsInv, Running

LEMMA FileOptionKeeps == ASSUME OptionsInv, OptionFile PROVE OptionsInv'
<1>1. PICK size \in FileSizes :
        /\ Option("b", size)
        /\ \/ size = Gone /\ Stop("failed")
           \/ /\ size # Gone
              /\ Assign([request EXCEPT !.file_upload = TRUE, !.method = "POST",
                                     !.content_length = Int32(size), !.file_size = Int32(size),
                                     !.content_type = "octet-stream"])
              /\ file' = size /\ UNCHANGED <<timer, port>>
  BY DEF OptionFile
<1>2. size \in Int \cup Header /\ "b" \in Letters
  BY Arguments DEF Letters
<1>3. CASE size = Gone /\ Stop("failed")
  BY <1>1, <1>2, <1>3, Stopped DEF Stop
<1>4. CASE /\ size # Gone
           /\ Assign([request EXCEPT !.file_upload = TRUE, !.method = "POST",
                                     !.content_length = Int32(size), !.file_size = Int32(size),
                                     !.content_type = "octet-stream"])
           /\ UNCHANGED <<timer, port>>
  <2>1. /\ request'.file_upload = TRUE /\ request'.method = "POST"
        /\ request'.content_length = Int32(size) /\ request'.file_size = Int32(size)
        /\ request'.bodydata = request.bodydata /\ request'.connections = request.connections
        /\ request'.duration = request.duration /\ pc' = pc /\ size \in Nat
    BY <1>4, Arguments DEF Assign
  <2>2. FileOf(args', request') /\ LengthOf(args', request')
    BY <1>1, <1>2, <2>1, Affected
  <2>3. /\ DataOf(args', request') /\ ConnectionsOf(args', request')
        /\ ClockOf(args', request', timer') /\ PortOf(args', port')
    BY <1>1, <1>2, <1>4, <2>1, Unaffected
  <2> QED BY <1>1, <1>2, <2>1, <2>2, <2>3, WentOn
<1> QED BY <1>1, <1>3, <1>4

LEMMA DataOptionKeeps == ASSUME OptionsInv, OptionData PROVE OptionsInv'
<1>1. PICK n \in DataSizes :
        /\ Option("d", n)
        /\ \/ n < BODY_SIZE - 1 /\ Stop("crashed")
           \/ /\ Assign([request EXCEPT !.method = "POST", !.content_length = n, !.content_type = "form",
                                     !.bodydata = IF n < BODY_SIZE THEN n ELSE BODY_SIZE + 1])
              /\ UNCHANGED <<timer, file, port>>
  BY DEF OptionData
<1>2. n \in Int \cup Header /\ "d" \in Letters /\ n \in 0 .. IntMax
  BY Arguments DEF Letters
<1>3. CASE Stop("crashed")
  BY <1>1, <1>2, <1>3, Stopped DEF Stop
<1>4. CASE /\ Assign([request EXCEPT !.method = "POST", !.content_length = n, !.content_type = "form",
                                     !.bodydata = IF n < BODY_SIZE THEN n ELSE BODY_SIZE + 1])
           /\ UNCHANGED <<timer, port>>
  <2>1. /\ request'.method = "POST" /\ request'.content_length = n
        /\ request'.bodydata = (IF n < BODY_SIZE THEN n ELSE BODY_SIZE + 1)
        /\ request'.file_upload = request.file_upload /\ request'.file_size = request.file_size
        /\ request'.connections = request.connections
        /\ request'.duration = request.duration /\ pc' = pc
    BY <1>4 DEF Assign
  <2>2. DataOf(args', request') /\ LengthOf(args', request')
    BY <1>1, <1>2, <2>1, Affected
  <2>3. /\ FileOf(args', request') /\ ConnectionsOf(args', request')
        /\ ClockOf(args', request', timer') /\ PortOf(args', port')
    BY <1>1, <1>2, <1>4, <2>1, Unaffected
  <2> QED BY <1>1, <1>2, <2>1, <2>2, <2>3, WentOn
<1> QED BY <1>1, <1>3, <1>4

LEMMA ConnectionsOptionKeeps == ASSUME OptionsInv, OptionConnections PROVE OptionsInv'
<1>1. PICK n \in Counts :
        /\ Option("c", n)
        /\ \/ n \notin 1 .. MaxPort /\ Stop("failed")
           \/ Assign([request EXCEPT !.connections = n]) /\ UNCHANGED <<timer, port>>
  BY DEF OptionConnections
<1>2. n \in Int \cup Header /\ "c" \in Letters
  BY Arguments DEF Letters
<1>3. CASE Stop("failed")
  BY <1>1, <1>2, <1>3, Stopped DEF Stop
<1>4. CASE Assign([request EXCEPT !.connections = n]) /\ UNCHANGED <<timer, port>>
  <2>1. /\ request'.connections = n
        /\ request'.method = request.method /\ request'.content_length = request.content_length
        /\ request'.bodydata = request.bodydata /\ request'.file_upload = request.file_upload
        /\ request'.file_size = request.file_size /\ request'.duration = request.duration /\ pc' = pc
    BY <1>4 DEF Assign
  <2>2. ConnectionsOf(args', request')
    BY <1>1, <1>2, <2>1, Affected
  <2>3. /\ FileOf(args', request') /\ DataOf(args', request') /\ LengthOf(args', request')
        /\ ClockOf(args', request', timer') /\ PortOf(args', port')
    BY <1>1, <1>2, <1>4, <2>1, Unaffected
  <2> QED BY <1>1, <1>2, <2>1, <2>2, <2>3, WentOn
<1> QED BY <1>1, <1>3, <1>4

LEMMA PipeliningOptionKeeps == ASSUME OptionsInv, OptionPipelining PROVE OptionsInv'
<1>1. /\ Option("f", 0) /\ Assign([request EXCEPT !.file_upload = FALSE])
      /\ UNCHANGED <<timer, file, port>>
  BY DEF OptionPipelining
<1>2. 0 \in Int \cup Header /\ "f" \in Letters
  BY DEF Letters
<1>3. /\ request'.file_upload = FALSE /\ request'.connections = request.connections
      /\ request'.method = request.method /\ request'.content_length = request.content_length
      /\ request'.bodydata = request.bodydata
      /\ request'.file_size = request.file_size /\ request'.duration = request.duration /\ pc' = pc
  BY <1>1 DEF Assign
<1>4. FileOf(args', request')
  BY <1>1, <1>2, <1>3, Affected
<1>5. /\ ConnectionsOf(args', request') /\ DataOf(args', request') /\ LengthOf(args', request')
      /\ ClockOf(args', request', timer') /\ PortOf(args', port')
  BY <1>1, <1>2, <1>3, Unaffected
<1> QED BY <1>1, <1>2, <1>3, <1>4, <1>5, WentOn

\* Options that set nothing the invariant speaks of.
LEMMA OtherOptionsKeep ==
  ASSUME OptionsInv, OptionHeader \/ OptionHelp \/ OptionVersion \/ OptionUnknown PROVE OptionsInv'
<1>1. ASSUME NEW opt \in {"H", "h"}, NEW arg \in Int \cup Header, Option(opt, arg),
             request'.file_upload = request.file_upload, request'.connections = request.connections,
             request'.method = request.method, request'.content_length = request.content_length,
             request'.bodydata = request.bodydata, request'.file_size = request.file_size,
             request'.duration = request.duration, UNCHANGED <<pc, timer, port>>
      PROVE  OptionsInv'
  <2>1. opt \in Letters /\ opt \notin {"b", "c", "d", "f", "m", "p", "t"}
    BY DEF Letters
  <2>2. /\ FileOf(args', request') /\ DataOf(args', request') /\ LengthOf(args', request')
        /\ ConnectionsOf(args', request') /\ ClockOf(args', request', timer') /\ PortOf(args', port')
    BY <1>1, <2>1, Unaffected
  <2> QED BY <1>1, <2>1, <2>2, WentOn
<1>2. CASE OptionHeader
  <2>1. PICK h \in Headers :
          /\ Option("H", h)
          /\ Assign([request EXCEPT !.additional_header = h]) /\ UNCHANGED <<timer, file, port>>
    BY <1>2 DEF OptionHeader
  <2>2. h \in Int \cup Header
    BY Arguments
  <2>3. /\ request'.file_upload = request.file_upload /\ request'.connections = request.connections
        /\ request'.method = request.method /\ request'.content_length = request.content_length
        /\ request'.bodydata = request.bodydata /\ request'.file_size = request.file_size
        /\ request'.duration = request.duration /\ pc' = pc
    BY <2>1 DEF Assign
  <2> QED BY <1>1, <2>1, <2>2, <2>3
<1>3. CASE OptionHelp
  <2>1. Option("h", 0) /\ UNCHANGED <<pc, request, timer, port>> /\ 0 \in Int \cup Header
    BY <1>3 DEF OptionHelp
  <2> QED BY <1>1, <2>1
<1>4. CASE OptionVersion \/ OptionUnknown
  <2>1. 0 \in Int \cup Header /\ "v" \in Letters /\ "?" \in Letters
    BY DEF Letters
  <2> QED BY <1>4, <2>1, Stopped DEF OptionVersion, OptionUnknown, Stop
<1> QED BY <1>2, <1>3, <1>4

LEMMA MinutesOptionKeeps == ASSUME OptionsInv, OptionMinutes PROVE OptionsInv'
<1>1. PICK n \in Counts :
        /\ Option("m", n)
        /\ \/ n < 1 /\ Stop("failed")
           \/ Assign([request EXCEPT !.duration = Int32(60 * n)]) /\ UNCHANGED <<timer, port>>
  BY DEF OptionMinutes
<1>2. n \in Int \cup Header /\ "m" \in Letters
  BY Arguments DEF Letters
<1>3. CASE Stop("failed")
  BY <1>1, <1>2, <1>3, Stopped DEF Stop
<1>4. CASE Assign([request EXCEPT !.duration = Int32(60 * n)]) /\ UNCHANGED <<timer, port>>
  <2>1. /\ request'.connections = request.connections
        /\ request'.method = request.method /\ request'.content_length = request.content_length
        /\ request'.bodydata = request.bodydata /\ request'.file_upload = request.file_upload
        /\ request'.file_size = request.file_size /\ pc' = pc
    BY <1>4 DEF Assign
  <2>2. ClockOf(args', request', timer')
    BY <1>1, <1>2, <1>4, Affected
  <2>3. /\ FileOf(args', request') /\ DataOf(args', request') /\ LengthOf(args', request')
        /\ ConnectionsOf(args', request') /\ PortOf(args', port')
    BY <1>1, <1>2, <1>4, <2>1, Unaffected
  <2> QED BY <1>1, <1>2, <2>1, <2>2, <2>3, WentOn
<1> QED BY <1>1, <1>3, <1>4

LEMMA SecondsOptionKeeps == ASSUME OptionsInv, OptionSeconds PROVE OptionsInv'
<1>1. PICK n \in Counts :
        /\ Option("t", n)
        /\ \/ Stop("failed")
           \/ Assign([request EXCEPT !.duration = n]) /\ timer' = n /\ UNCHANGED port
  BY DEF OptionSeconds
<1>2. n \in Int \cup Header /\ "t" \in Letters
  BY Arguments DEF Letters
<1>3. CASE Stop("failed")
  BY <1>1, <1>2, <1>3, Stopped DEF Stop
<1>4. CASE Assign([request EXCEPT !.duration = n]) /\ timer' = n /\ UNCHANGED port
  <2>1. /\ request'.connections = request.connections
        /\ request'.method = request.method /\ request'.content_length = request.content_length
        /\ request'.bodydata = request.bodydata /\ request'.file_upload = request.file_upload
        /\ request'.file_size = request.file_size /\ request'.duration = n /\ pc' = pc
    BY <1>4 DEF Assign
  <2>2. ClockOf(args', request', timer')
    BY <1>1, <1>2, <1>4, <2>1, Affected
  <2>3. /\ FileOf(args', request') /\ DataOf(args', request') /\ LengthOf(args', request')
        /\ ConnectionsOf(args', request') /\ PortOf(args', port')
    BY <1>1, <1>2, <1>4, <2>1, Unaffected
  <2> QED BY <1>1, <1>2, <2>1, <2>2, <2>3, WentOn
<1> QED BY <1>1, <1>3, <1>4

LEMMA PortOptionKeeps == ASSUME OptionsInv, OptionPort PROVE OptionsInv'
<1>1. PICK n \in Ports :
        /\ Option("p", n)
        /\ \/ n \notin 1 .. MaxPort /\ Stop("failed")
           \/ port' = n /\ UNCHANGED <<pc, request, timer>>
  BY DEF OptionPort
<1>2. n \in Int \cup Header /\ "p" \in Letters
  BY Arguments DEF Letters
<1>3. CASE Stop("failed")
  BY <1>1, <1>2, <1>3, Stopped DEF Stop
<1>4. CASE port' = n /\ UNCHANGED <<pc, request, timer>>
  <2>1. PortOf(args', port')
    BY <1>1, <1>2, <1>4, Affected
  <2>2. /\ FileOf(args', request') /\ DataOf(args', request') /\ LengthOf(args', request')
        /\ ConnectionsOf(args', request') /\ ClockOf(args', request', timer')
    BY <1>1, <1>2, <1>4, Unaffected
  <2> QED BY <1>1, <1>2, <1>4, <2>1, <2>2, WentOn
<1> QED BY <1>1, <1>3, <1>4

LEMMA OptionsKeep == ASSUME OptionsInv, [Next]_requestVars PROVE OptionsInv'
<1>1. CASE parse_cli
  BY <1>1, FileOptionKeeps, DataOptionKeeps, ConnectionsOptionKeeps, PipeliningOptionKeeps,
     OtherOptionsKeep, MinutesOptionKeeps, SecondsOptionKeeps, PortOptionKeeps DEF parse_cli
<1>2. CASE NoArgument \/ UrlArgument \/ ParseUrl \/ Resolve \/ FileChanges \/ ComposeEnds \/ compose_request_buffer
  <2>1. UNCHANGED <<args, request, timer>> /\ pc' # "cli"
    BY <1>2 DEF NoArgument, UrlArgument, ParseUrl, Resolve, FileChanges, ComposeEnds,
                compose_request_buffer, cliVars
  <2>2. pc' \in Running => pc \in Running
    BY <1>2 DEF NoArgument, UrlArgument, ParseUrl, Resolve, FileChanges, ComposeEnds,
                compose_request_buffer, Running
  <2> QED BY <2>1, <2>2 DEF OptionsInv
<1>3. CASE UNCHANGED requestVars
  BY <1>3 DEF requestVars, cliVars, urlVars, OptionsInv
<1> QED BY <1>1, <1>2, <1>3 DEF Next

-----------------------------------------------------------------------------
(* The URL is inside, whatever is asked besides.                           *)

LEMMA UrlKeeps == ASSUME UrlInv, OptionsInv, [Next]_requestVars PROVE UrlInv'
<1>1. Len(args) \in 0 .. MaxOptions
  BY Arguments DEF OptionsInv
<1>2. CASE \E u : IsUrl(u) /\ GiveUrl(u)
  BY <1>2, GiveUrlKeeps DEF IsUrl
<1>3. CASE UrlNext
  BY <1>3, ScanCharKeeps, ScanEndKeeps, HostScanKeeps, HostEndKeeps, CopyFieldsKeeps DEF UrlNext
<1>4. CASE UNCHANGED <<stage, real_url, scanner>>
  BY <1>4, UntouchedUrl
<1> QED BY <1>1, <1>2, <1>3, <1>4, UrlSteps

(* Whatever the URL, the fields that http_parser_parse_url reports lie      *)
(* inside the URL, so parse_url copies no byte from behind it.              *)
THEOREM Inside == Spec => []FieldsInside
<1>1. Init => UrlInv /\ OptionsInv
  BY InitHolds, InitialOptions DEF Init
<1>2. UrlInv /\ OptionsInv /\ [Next]_requestVars => (UrlInv /\ OptionsInv)'
  BY UrlKeeps, OptionsKeep
<1> QED BY <1>1, <1>2, InsideFollows, PTL DEF Spec

LEMMA SpansKeep == ASSUME UrlInv, UrlInv', Spans, OptionsInv, [Next]_requestVars PROVE Spans'
<1>1. Len(args) \in 0 .. MaxOptions
  BY DEF OptionsInv
<1>2. CASE \E u : IsUrl(u) /\ GiveUrl(u)
  BY <1>2, GiveUrlSpans DEF IsUrl
<1>3. CASE UrlNext
  BY <1>3, ScanCharSpans, ScanEndKeepsSpans, HostScanSpans, HostEndSpans, CopyFieldsSpans DEF UrlNext
<1>4. CASE UNCHANGED <<stage, given, real_url, scanner, text>>
  BY <1>4, UntouchedSpans
<1> QED BY <1>1, <1>2, <1>3, <1>4, UrlSteps

(* Whatever the URL, the fields http_parser_parse_url and http_parse_host   *)
(* report of an accepted one spell it, with the marks between them.         *)
THEOREM SpelledOut == Spec => []SpelledAsRead
<1>1. Init => UrlInv /\ OptionsInv /\ Spans
  BY InitHolds, InitialOptions, InitSpans DEF Init
<1>2. UrlInv /\ OptionsInv /\ Spans /\ [Next]_requestVars => (UrlInv /\ OptionsInv /\ Spans)'
  BY UrlKeeps, OptionsKeep, SpansKeep
<1>3. UrlInv /\ Spans => SpelledAsRead
  BY Spelled
<1> QED BY <1>1, <1>2, <1>3, PTL DEF Spec

LEMMA ReadsKeep ==
  ASSUME UrlInv, UrlInv', Spans, ReadInv, OptionsInv, [Next]_requestVars
  PROVE  ReadInv'
<1>1. Len(args) \in 0 .. MaxOptions /\ (pc = "cli" => stage = "none")
  BY Arguments DEF OptionsInv
<1>2. CASE \E u : IsUrl(u) /\ GiveUrl(u)
  BY <1>2, GiveUrlReads
<1>3. CASE UrlNext
  BY <1>3, UrlStepReads
<1>4. CASE UNCHANGED <<stage, given, real_url, scanner, text>> /\ (pc = "cli" \/ port' = port)
  BY <1>1, <1>4, UntouchedReads
<1> QED BY <1>1, <1>2, <1>3, <1>4, UrlSteps

ReadUrl == UrlInv /\ OptionsInv /\ Spans /\ ReadInv

LEMMA InitialRead == Init => ReadUrl
BY InitHolds, InitialOptions, InitSpans, InitReads DEF Init, ReadUrl

LEMMA ReadUrlKeeps == ReadUrl /\ [Next]_requestVars => ReadUrl'
BY UrlKeeps, OptionsKeep, SpansKeep, ReadsKeep DEF ReadUrl

(* A URL written from parts that fit the arrays of parse_url is accepted,   *)
(* and the request gets exactly the parts.                                  *)
THEOREM WrittenIsRead == Spec => []FieldsAsWritten
<1>1. ReadUrl => FieldsAsWritten
  BY ReadAsWritten DEF ReadUrl
<1> QED BY <1>1, InitialRead, ReadUrlKeeps, PTL DEF Spec

-----------------------------------------------------------------------------
(* The port.  That of the URL is made of digits, and replaces that of the  *)
(* options when the fields are copied.                                     *)

PortInv ==
  /\ DigitsInv
  /\ port \in 0 .. MaxPort
  /\ stage \in {"parsed", "copied"} => Number(Text("port")) <= MaxPort
  /\ stage = "copied" /\ "port" \in field_set => text["port"] # <<>>
  /\ pc \in Running /\ (stage = "copied" => "port" \notin field_set) => PortOf(args, port)

LEMMA InitialPort == Init => PortInv
<1> SUFFICES ASSUME Init PROVE PortInv
  OBVIOUS
<1>1. /\ stage = "none" /\ real_url = <<>> /\ field_set = {} /\ port = 80
      /\ off["port"] = 0 /\ len["port"] = 0
  BY DEF Init, UrlInit, Field
<1>2. OptionsInv /\ pc = "cli"
  BY InitialOptions DEF Init
<1>3. PortOf(args, port)
  BY <1>2 DEF OptionsInv
<1>4. real_url \in Seq(Char)
  BY <1>1
<1>5. port \in 0 .. MaxPort
  BY <1>1, UrlSizesAssumption
<1> QED BY <1>1, <1>3, <1>4, <1>5 DEF PortInv, DigitsInv, End

LEMMA PortWithOptions == ASSUME OptionsInv, PortInv, parse_cli PROVE PortInv'
<1>1. /\ stage = "none" /\ UNCHANGED <<stage, real_url, scanner, text>>
      /\ port' \in {port} \cup 1 .. MaxPort
      /\ pc' \in {"cli", "failed", "quit", "crashed"}
  <2>1. pc = "cli"
    BY DEF parse_cli, OptionFile, OptionConnections, OptionData, OptionPipelining, OptionHeader,
           OptionHelp, OptionVersion, OptionUnknown, OptionMinutes, OptionPort, OptionSeconds, Option
  <2>2. stage = "none"
    BY <2>1 DEF OptionsInv
  <2>3. UNCHANGED <<stage, real_url, scanner, text>>
    BY DEF parse_cli, OptionFile, OptionConnections, OptionData, OptionPipelining, OptionHeader,
           OptionHelp, OptionVersion, OptionUnknown, OptionMinutes, OptionPort, OptionSeconds, Option
  <2>4. port' \in {port} \cup 1 .. MaxPort
    BY DEF parse_cli, OptionFile, OptionConnections, OptionData, OptionPipelining, OptionHeader,
           OptionHelp, OptionVersion, OptionUnknown, OptionMinutes, OptionPort, OptionSeconds, Stop
  <2>5. pc' \in {pc, "failed", "quit", "crashed"}
    BY DEF parse_cli, OptionFile, OptionConnections, OptionData, OptionPipelining, OptionHeader,
           OptionHelp, OptionVersion, OptionUnknown, OptionMinutes, OptionPort, OptionSeconds, Stop, Assign
  <2> QED BY <2>1, <2>2, <2>3, <2>4, <2>5
<1>2. DigitsInv'
  BY <1>1, DigitsStay DEF PortInv, scanner
<1>3. port' \in 0 .. MaxPort
  BY <1>1 DEF PortInv
<1>4. OptionsInv'
  <2>1. [Next]_requestVars
    BY DEF Next
  <2> QED BY <2>1, OptionsKeep
<1>5. pc' \in Running => PortOf(args', port')
  BY <1>1, <1>4 DEF Running, OptionsInv
<1> QED BY <1>1, <1>2, <1>3, <1>5 DEF PortInv

LEMMA PortOfUrl == ASSUME UrlInv, PortInv, ParseUrl PROVE PortInv'
<1>1. /\ UrlNext /\ pc = "url" /\ UNCHANGED <<pc, args>> /\ DigitsInv /\ port \in 0 .. MaxPort
  BY DEF ParseUrl, PortInv, cliVars
<1>2. DigitsInv'
  BY <1>1, DigitsKeep
<1>3. CASE ScanChar \/ ScanEnd \/ HostScan
  <2>1. stage \in {"scan", "host"} /\ stage' \in {"scan", "host", "invalid"} /\ UNCHANGED port
    BY <1>3 DEF ScanChar, ScanEnd, HostScan, Reject
  <2> QED BY <1>1, <1>2, <2>1 DEF PortInv
<1>4. CASE HostEnd
  <2>1. /\ stage = "host" /\ UNCHANGED <<real_url, scanner, port>>
        /\ stage' = "invalid" \/ (stage' = "parsed" /\ Number(Text("port")) <= MaxPort)
    BY <1>4 DEF HostEnd, Reject
  <2>2. Text("port")' = Text("port")
    BY <2>1 DEF Text, scanner
  <2> QED BY <1>1, <1>2, <2>1, <2>2 DEF PortInv
<1>5. CASE CopyFields
  <2> DEFINE digits == Text("port")
             size == FieldSize["port"]
  <2>1. /\ stage = "parsed" /\ stage' = "copied" /\ UNCHANGED <<real_url, scanner>>
        /\ port' = IF "port" \in field_set THEN Number(Cut(digits, size)) ELSE port
    BY <1>5 DEF CopyFields
  <2>2. "port" \in field_set => text'["port"] = Cut(digits, size)
    BY <1>5 DEF CopyFields, Field
  <2>3. Number(digits) <= MaxPort /\ (pc \in Running => PortOf(args, port))
    BY <2>1 DEF PortInv
  <2>4. Text("port")' = digits
    BY <2>1 DEF Text, scanner
  <2>5. digits \in Seq(Digit) /\ ("port" \in field_set => Len(digits) > 0)
    BY <1>1, PortText
  <2>6. size \in Nat /\ size >= 2
    BY UrlSizesAssumption DEF Field
  <2> HIDE DEF digits, size
  <2>7. PICK k \in 0 .. Len(digits) : /\ Cut(digits, size) = SubSeq(digits, 1, k)
                                      /\ Len(digits) > 0 => k > 0
    <3>1. CASE Len(digits) < size
      BY <2>5, <3>1 DEF Cut
    <3>2. CASE ~(Len(digits) < size)
      <4>1. size - 1 \in 0 .. Len(digits) /\ size - 1 > 0
        BY <2>5, <2>6, <3>2
      <4> QED BY <3>2, <4>1 DEF Cut
    <3> QED BY <3>1, <3>2
  <2>8. Number(Cut(digits, size)) \in Nat /\ Number(Cut(digits, size)) <= Number(digits)
    BY <2>5, <2>7, NumberOfPrefix
  <2>9. Number(digits) \in Nat
    <3>1. SubSeq(digits, 1, Len(digits)) = digits /\ Len(digits) \in 0 .. Len(digits)
      BY <2>5
    <3> QED BY <2>5, <3>1, NumberOfPrefix
  <2>10. port' \in 0 .. MaxPort
    BY <1>1, <2>1, <2>3, <2>8, <2>9, UrlSizesAssumption
  <2>11. "port" \in field_set => Cut(digits, size) # <<>>
    <3>1. Len(SubSeq(digits, 1, k)) = k
      BY <2>5, <2>7
    <3> QED BY <2>5, <2>7, <3>1
  <2>12. field_set' = field_set
    BY <2>1 DEF scanner
  <2> QED BY <1>1, <1>2, <2>1, <2>2, <2>3, <2>4, <2>10, <2>11, <2>12 DEF PortInv
<1> QED BY <1>1, <1>3, <1>4, <1>5 DEF UrlNext

LEMMA PortKeeps == ASSUME UrlInv, OptionsInv, PortInv, [Next]_requestVars PROVE PortInv'
<1>1. CASE UrlArgument
  <2>1. PICK u : u.url \in Seq(Char) /\ GiveUrl(u)
    <3>1. Len(args) \in 0 .. MaxOptions
      BY Arguments DEF OptionsInv
    <3> QED BY <1>1, <3>1, UrlsAssumption DEF UrlArgument, IsUrl
  <2>2. DigitsInv'
    BY <2>1, DigitsGiven
  <2>3. UNCHANGED <<args, port>> /\ stage' = "scan" /\ pc = "cli" /\ stage = "none"
    BY <1>1, <2>1 DEF UrlArgument, GiveUrl, cliVars
  <2> QED BY <2>2, <2>3 DEF PortInv, Running
<1>2. CASE NoArgument \/ Resolve \/ FileChanges \/ ComposeEnds \/ compose_request_buffer \/ UNCHANGED requestVars
  <2>1. UNCHANGED <<args, stage, real_url, scanner, text, port>>
    BY <1>2 DEF NoArgument, Resolve, FileChanges, ComposeEnds, compose_request_buffer, cliVars,
                urlVars, requestVars
  <2>2. pc' \in Running => pc \in Running
    BY <1>2 DEF NoArgument, Resolve, FileChanges, ComposeEnds, compose_request_buffer, requestVars, Running
  <2>3. DigitsInv'
    BY <2>1, DigitsStay DEF PortInv, scanner
  <2>4. Text("port")' = Text("port") /\ field_set' = field_set
    BY <2>1 DEF Text, scanner
  <2> QED BY <2>1, <2>2, <2>3, <2>4 DEF PortInv
<1> QED BY <1>1, <1>2, PortWithOptions, PortOfUrl DEF Next

-----------------------------------------------------------------------------
(* The types.                                                              *)

LEMMA Int32Is ==
  ASSUME NEW n \in Int
  PROVE  /\ Int32(n) \in -(IntMax + 1) .. IntMax
         /\ n \in -(IntMax + 1) .. IntMax => Int32(n) = n
<1> DEFINE m == 2 * (IntMax + 1)
           x == n + IntMax + 1
<1>1. IntMax \in Nat /\ m \in Nat /\ m > 0 /\ x \in Int /\ m = IntMax + 1 + IntMax + 1
  BY RequestAssumption
<1>2. Int32(n) = (x % m) - (IntMax + 1)
  BY DEF Int32
<1>3. x % m \in 0 .. m - 1
  <2> HIDE DEF x, m
  <2> QED BY <1>1
<1>4. x \in 0 .. m - 1 => x % m = x
  <2> HIDE DEF x, m
  <2> QED BY <1>1
<1>5. n = x - (IntMax + 1)
  BY <1>1
<1> HIDE DEF x, m
<1>6. Int32(n) \in -(IntMax + 1) .. IntMax
  BY <1>1, <1>2, <1>3
<1>7. n \in -(IntMax + 1) .. IntMax => x \in 0 .. m - 1
  BY <1>1, <1>5
<1>8. n \in -(IntMax + 1) .. IntMax => Int32(n) = n
  BY <1>1, <1>2, <1>4, <1>5, <1>7
<1> QED BY <1>6, <1>8

Int32s == -(IntMax + 1) .. IntMax

\* What the options set, and the file.
RequestOK(r) ==
  /\ r.method \in {"GET", "POST"} /\ r.connections \in 1 .. MaxPort
  /\ r.content_length \in Int32s /\ r.file_size \in Int32s /\ r.duration \in Int32s
  /\ r.bodydata \in 0 .. BODY_SIZE + 1
  /\ r.additional_header \in Headers \cup {NULL}
RecordOK ==
  /\ pc \in {"cli", "url", "compose", "loop", "failed", "quit", "crashed"}
  /\ RequestOK(request)
  /\ file \in FileSizes \cup {Gone} /\ timer \in Nat

LEMMA InitialRecord == Init => RecordOK
<1> SUFFICES ASSUME Init PROVE RecordOK
  OBVIOUS
<1>1. request = [method |-> "GET", connections |-> 1, content_length |-> 0, file_size |-> 0,
                duration |-> 0, file_upload |-> FALSE, additional_header |-> NULL,
                content_type |-> "", bodydata |-> 0]
      /\ pc = "cli" /\ file = Gone /\ timer = 0
  BY DEF Init, NoTimer
<1>2. 1 \in 1 .. MaxPort /\ 0 \in Int32s /\ 0 \in 0 .. BODY_SIZE + 1
  BY UrlSizesAssumption, RequestAssumption DEF Int32s
<1> QED BY <1>1, <1>2 DEF RecordOK, RequestOK

\* A request of which the options set some fields.
LEMMA StaysOK ==
  ASSUME NEW r, RequestOK(r), NEW q,
         q.method = r.method \/ q.method = "POST",
         q.connections = r.connections \/ q.connections \in 1 .. MaxPort,
         q.content_length = r.content_length \/ q.content_length \in Int32s,
         q.file_size = r.file_size \/ q.file_size \in Int32s,
         q.duration = r.duration \/ q.duration \in Int32s,
         q.bodydata = r.bodydata \/ q.bodydata \in 0 .. BODY_SIZE + 1,
         q.additional_header = r.additional_header \/ q.additional_header \in Headers
  PROVE  RequestOK(q)
BY DEF RequestOK

LEMMA RecordWithOptions == ASSUME RecordOK, parse_cli PROVE RecordOK'
<1>1. ASSUME RequestOK(request'), pc' \in {pc, "failed", "quit", "crashed"},
             file' \in FileSizes \cup {file}, timer' \in Nat
      PROVE  RecordOK'
  BY <1>1 DEF RecordOK
<1>2. RequestOK(request) /\ timer \in Nat
  BY DEF RecordOK
<1>3. ASSUME NEW how \in {"failed", "quit", "crashed"}, Stop(how) PROVE RecordOK'
  <2>1. request' = request /\ pc' \in {"failed", "quit", "crashed"} /\ file' = file /\ timer' = timer
    BY <1>3 DEF Stop
  <2> QED BY <1>1, <1>2, <2>1
<1>4. CASE OptionFile
  <2>1. PICK size \in FileSizes :
          \/ Stop("failed")
          \/ /\ Assign([request EXCEPT !.file_upload = TRUE, !.method = "POST",
                                 !.content_length = Int32(size), !.file_size = Int32(size),
                                 !.content_type = "octet-stream"])
             /\ file' = size /\ UNCHANGED <<timer, port>>
    BY <1>4 DEF OptionFile
  <2>2. CASE /\ Assign([request EXCEPT !.file_upload = TRUE, !.method = "POST",
                                 !.content_length = Int32(size), !.file_size = Int32(size),
                                 !.content_type = "octet-stream"])
             /\ file' = size /\ UNCHANGED <<timer, port>>
    <3>1. Int32(size) \in Int32s
      BY Arguments, Int32Is DEF Int32s
    <3>2. /\ request'.method = "POST" /\ request'.connections = request.connections
          /\ request'.content_length = Int32(size) /\ request'.file_size = Int32(size)
          /\ request'.duration = request.duration /\ request'.bodydata = request.bodydata
          /\ request'.additional_header = request.additional_header /\ pc' = pc
      BY <2>2 DEF Assign
    <3>3. RequestOK(request')
      BY <1>2, <3>1, <3>2, StaysOK
    <3> QED BY <1>1, <1>2, <2>2, <3>2, <3>3
  <2> QED BY <1>3, <2>1, <2>2
<1>5. CASE OptionConnections
  <2>1. PICK n \in Counts :
          \/ Stop("failed")
          \/ n \in 1 .. MaxPort /\ Assign([request EXCEPT !.connections = n]) /\ UNCHANGED <<timer, file>>
    BY <1>5 DEF OptionConnections
  <2>2. CASE n \in 1 .. MaxPort /\ Assign([request EXCEPT !.connections = n]) /\ UNCHANGED <<timer, file>>
    <3>1. /\ request'.method = request.method /\ request'.connections = n
          /\ request'.content_length = request.content_length /\ request'.file_size = request.file_size
          /\ request'.duration = request.duration /\ request'.bodydata = request.bodydata
          /\ request'.additional_header = request.additional_header /\ pc' = pc
      BY <2>2 DEF Assign
    <3>2. RequestOK(request')
      BY <1>2, <2>2, <3>1, StaysOK
    <3> QED BY <1>1, <1>2, <2>2, <3>1, <3>2
  <2> QED BY <1>3, <2>1, <2>2
<1>6. CASE OptionData
  <2>1. PICK n \in DataSizes :
          \/ Stop("crashed")
          \/ /\ Assign([request EXCEPT !.method = "POST", !.content_length = n, !.content_type = "form",
                                 !.bodydata = IF n < BODY_SIZE THEN n ELSE BODY_SIZE + 1])
             /\ UNCHANGED <<timer, file>>
    BY <1>6 DEF OptionData
  <2>2. CASE /\ Assign([request EXCEPT !.method = "POST", !.content_length = n, !.content_type = "form",
                                 !.bodydata = IF n < BODY_SIZE THEN n ELSE BODY_SIZE + 1])
             /\ UNCHANGED <<timer, file>>
    <3>1. n \in Int32s /\ (IF n < BODY_SIZE THEN n ELSE BODY_SIZE + 1) \in 0 .. BODY_SIZE + 1
      BY Arguments DEF Int32s
    <3>2. /\ request'.method = "POST" /\ request'.connections = request.connections
          /\ request'.content_length = n /\ request'.file_size = request.file_size
          /\ request'.duration = request.duration
          /\ request'.bodydata = (IF n < BODY_SIZE THEN n ELSE BODY_SIZE + 1)
          /\ request'.additional_header = request.additional_header /\ pc' = pc
      BY <2>2 DEF Assign
    <3>3. RequestOK(request')
      BY <1>2, <3>1, <3>2, StaysOK
    <3> QED BY <1>1, <1>2, <2>2, <3>2, <3>3
  <2> QED BY <1>3, <2>1, <2>2
<1>7. CASE OptionPipelining
  <2>1. Assign([request EXCEPT !.file_upload = FALSE]) /\ UNCHANGED <<timer, file>>
    BY <1>7 DEF OptionPipelining
  <2>2. /\ request'.method = request.method /\ request'.connections = request.connections
        /\ request'.content_length = request.content_length /\ request'.file_size = request.file_size
        /\ request'.duration = request.duration /\ request'.bodydata = request.bodydata
        /\ request'.additional_header = request.additional_header /\ pc' = pc
    BY <2>1 DEF Assign
  <2>3. RequestOK(request')
    BY <1>2, <2>2, StaysOK
  <2> QED BY <1>1, <1>2, <2>1, <2>2, <2>3
<1>8. CASE OptionHelp \/ OptionPort
  <2>1. UNCHANGED <<request, timer, file>> /\ pc' \in {pc, "failed"}
    BY <1>8 DEF OptionHelp, OptionPort, Stop
  <2> QED BY <1>1, <1>2, <2>1
<1>9. CASE OptionVersion \/ OptionUnknown
  BY <1>3, <1>9 DEF OptionVersion, OptionUnknown
<1>10. CASE OptionHeader
  <2>1. PICK h \in Headers : Assign([request EXCEPT !.additional_header = h]) /\ UNCHANGED <<timer, file>>
    BY <1>10 DEF OptionHeader
  <2>2. /\ request'.method = request.method /\ request'.connections = request.connections
        /\ request'.content_length = request.content_length /\ request'.file_size = request.file_size
        /\ request'.duration = request.duration /\ request'.bodydata = request.bodydata
        /\ request'.additional_header = h /\ pc' = pc
    BY <2>1 DEF Assign
  <2>3. RequestOK(request')
    BY <1>2, <2>2, StaysOK
  <2> QED BY <1>1, <1>2, <2>1, <2>2, <2>3
<1>11. ASSUME NEW n \in Int32s, Assign([request EXCEPT !.duration = n]), timer' \in Nat, file' = file
       PROVE  RecordOK'
  <2>1. /\ request'.method = request.method /\ request'.connections = request.connections
        /\ request'.content_length = request.content_length /\ request'.file_size = request.file_size
        /\ request'.duration = n /\ request'.bodydata = request.bodydata
        /\ request'.additional_header = request.additional_header /\ pc' = pc
    BY <1>11 DEF Assign
  <2>2. RequestOK(request')
    BY <1>2, <2>1, StaysOK
  <2> QED BY <1>1, <1>11, <2>1, <2>2
<1>12. CASE OptionMinutes
  <2>1. PICK n \in Counts :
          \/ Stop("failed")
          \/ Assign([request EXCEPT !.duration = Int32(60 * n)]) /\ UNCHANGED <<timer, file>>
    BY <1>12 DEF OptionMinutes
  <2>2. Int32(60 * n) \in Int32s
    BY Arguments, Int32Is DEF Int32s
  <2> QED BY <1>2, <1>3, <1>11, <2>1, <2>2
<1>13. CASE OptionSeconds
  <2>1. PICK n \in Counts :
          \/ Stop("failed")
          \/ n >= 1 /\ Assign([request EXCEPT !.duration = n]) /\ timer' = n /\ UNCHANGED file
    BY <1>13 DEF OptionSeconds
  <2>2. n \in Int32s /\ (n >= 1 => n \in Nat)
    BY Arguments DEF Int32s
  <2> QED BY <1>3, <1>11, <2>1, <2>2
<1> QED BY <1>4, <1>5, <1>6, <1>7, <1>8, <1>9, <1>10, <1>12, <1>13 DEF parse_cli

LEMMA RecordKeeps == ASSUME RecordOK, [Next]_requestVars PROVE RecordOK'
<1>1. CASE NoArgument \/ UrlArgument \/ ParseUrl \/ Resolve \/ FileChanges \/ ComposeEnds
             \/ compose_request_buffer \/ UNCHANGED requestVars
  <2>1. UNCHANGED <<request, timer>> /\ file' \in FileSizes \cup {file}
        /\ pc' \in {pc, "url", "compose", "loop", "failed", "quit", "crashed"}
    BY <1>1 DEF NoArgument, UrlArgument, ParseUrl, Resolve, FileChanges, ComposeEnds,
                compose_request_buffer, requestVars, cliVars
  <2> QED BY <2>1 DEF RecordOK
<1> QED BY <1>1, RecordWithOptions DEF Next

\* The invariant of the whole program.
RequestInv == UrlInv /\ OptionsInv /\ PortInv /\ RecordOK

LEMMA InitialRequest == Init => RequestInv
  BY InitHolds, InitialOptions, InitialPort, InitialRecord DEF Init, RequestInv

LEMMA RequestKeeps == RequestInv /\ [Next]_requestVars => RequestInv'
  BY UrlKeeps, OptionsKeep, PortKeeps, RecordKeeps DEF RequestInv

(* The request and what goes with it keep their ranges: no more than 65535  *)
(* connections, a port of the host's range also when its digits are cut,    *)
(* lengths that fit an int, data no longer than bodydata and its overflow.  *)
THEOREM Types == Spec => []TypeOK
<1>1. RequestInv => TypeOK
  BY DEF RequestInv, OptionsInv, PortInv, RecordOK, RequestOK, Int32s, TypeOK
<1> QED BY <1>1, InitialRequest, RequestKeeps, PTL DEF Spec

-----------------------------------------------------------------------------
(* What the event loop gets: the request composed from the fields.         *)

LoopInv ==
  /\ pc \in {"compose", "loop"} => stage = "copied"
  /\ pc = "loop" => /\ HeaderReads /\ ~Fails
                    /\ message.line = StartLine /\ message.hosts = OwnHost \o UserHost
                    /\ message.length = ContentLength /\ message.body = Body
  /\ given.written \subseteq Parts

LEMMA InitialLoop == Init => LoopInv
<1>1. Init => pc = "cli" /\ given = [url |-> <<>>, written |-> {}]
  BY DEF Init, UrlInit
<1>2. given = [url |-> <<>>, written |-> {}] => given.written = {}
  OBVIOUS
<1> QED BY <1>1, <1>2 DEF LoopInv

\* What is composed is made of the request, the URL's fields and the file only.
LEMMA SameMessage ==
  ASSUME UNCHANGED <<request, text, port, file>>
  PROVE  /\ StartLine' = StartLine /\ OwnHost' = OwnHost /\ UserHost' = UserHost
         /\ Body' = Body /\ ContentLength' = ContentLength /\ Fails' = Fails /\ HeaderReads' = HeaderReads
<1>1. NamedHost' = NamedHost /\ Found' = Found
  BY DEF NamedHost, Found
<1>2. get_header_value' = get_header_value
  BY <1>1 DEF get_header_value
<1>3. StartLine' = StartLine /\ UserHost' = UserHost /\ HeaderReads' = HeaderReads
  BY <1>1 DEF StartLine, UserHost, HeaderReads
<1>4. OwnHost' = OwnHost
  BY <1>1, <1>2 DEF OwnHost
<1>5. Multipart' = Multipart /\ BytesRead' = BytesRead /\ ToRead' = ToRead
  BY DEF Multipart, BytesRead, ToRead
<1>6. Body' = Body /\ Fails' = Fails
  BY <1>5 DEF Body, Fails
<1>7. ContentLength' = ContentLength
  BY <1>5, <1>6 DEF ContentLength
<1> QED BY <1>3, <1>4, <1>6, <1>7

LEMMA LoopKeeps == ASSUME OptionsInv, LoopInv, [Next]_requestVars PROVE LoopInv'
<1>1. CASE parse_cli
  <2>1. UNCHANGED <<given, stage>> /\ pc = "cli" /\ pc' \in {pc, "failed", "quit", "crashed"}
    BY <1>1 DEF parse_cli, OptionFile, OptionConnections, OptionData, OptionPipelining, OptionHeader,
           OptionHelp, OptionVersion, OptionUnknown, OptionMinutes, OptionPort, OptionSeconds, Option,
           Stop, Assign
  <2> QED BY <2>1 DEF LoopInv
<1>2. CASE NoArgument \/ ComposeEnds \/ FileChanges
  <2>1. UNCHANGED <<given, stage>> /\ pc' # "loop" /\ (pc' = "compose" => pc = "compose")
    BY <1>2 DEF NoArgument, ComposeEnds, FileChanges, urlVars
  <2> QED BY <2>1 DEF LoopInv
<1>3. CASE UrlArgument
  <2>1. Len(args) \in 0 .. MaxOptions
    BY Arguments DEF OptionsInv
  <2>2. given'.written \subseteq Parts /\ pc' = "url"
    BY <1>3, <2>1, UrlsAssumption DEF UrlArgument, GiveUrl, IsUrl
  <2> QED BY <2>2 DEF LoopInv
<1>4. CASE ParseUrl
  <2>1. given' = given /\ pc' = "url"
    BY <1>4 DEF ParseUrl, UrlNext, ScanChar, ScanEnd, HostScan, HostEnd, CopyFields, Reject
  <2> QED BY <2>1 DEF LoopInv
<1>5. CASE Resolve
  <2>1. UNCHANGED <<given, stage>> /\ pc' # "loop" /\ (pc' = "compose" => stage = "copied")
    BY <1>5 DEF Resolve, urlVars
  <2> QED BY <2>1 DEF LoopInv
<1>6. CASE compose_request_buffer
  <2>1. /\ pc = "compose" /\ HeaderReads /\ ~Fails /\ pc' = "loop"
        /\ UNCHANGED <<request, text, port, file, given, stage>>
    BY <1>6 DEF compose_request_buffer, cliVars, urlVars
  <2>2. /\ message'.line = StartLine /\ message'.hosts = OwnHost \o UserHost
        /\ message'.length = ContentLength /\ message'.body = Body
    BY <1>6 DEF compose_request_buffer
  <2>3. /\ StartLine' = StartLine /\ OwnHost' = OwnHost /\ UserHost' = UserHost
        /\ Body' = Body /\ ContentLength' = ContentLength /\ Fails' = Fails /\ HeaderReads' = HeaderReads
    BY <2>1, SameMessage
  <2> QED BY <2>1, <2>2, <2>3 DEF LoopInv
<1>7. CASE UNCHANGED requestVars
  <2>1. UNCHANGED <<pc, request, text, port, file, given, stage, message>>
    BY <1>7 DEF requestVars, cliVars, urlVars
  <2>2. /\ StartLine' = StartLine /\ OwnHost' = OwnHost /\ UserHost' = UserHost
        /\ Body' = Body /\ ContentLength' = ContentLength /\ Fails' = Fails /\ HeaderReads' = HeaderReads
    BY <2>1, SameMessage
  <2> QED BY <2>1, <2>2 DEF LoopInv
<1> QED BY <1>1, <1>2, <1>3, <1>4, <1>5, <1>6, <1>7 DEF Next

\* Of a kind, what was given last.
LEMMA LatestAre ==
  ASSUME NEW a \in Seq(Args), NEW kind, NEW i \in LatestIn(a, kind)
  PROVE  /\ i \in 1 .. Len(a) /\ a[i].opt \in kind
         /\ \A k \in 1 .. Len(a) : a[k].opt \in kind => k <= i
         /\ \A few \in SUBSET kind : a[i].opt \in few => i \in LatestIn(a, few)
<1>1. i \in 1 .. Len(a) /\ a[i].opt \in kind /\ \A j \in i + 1 .. Len(a) : a[j].opt \notin kind
  BY DEF LatestIn
<1>2. \A k \in 1 .. Len(a) : k <= i \/ k \in i + 1 .. Len(a)
  BY <1>1
<1> QED BY <1>1, <1>2 DEF LatestIn

LEMMA LastIsLatest == ASSUME OptionsInv, NEW opt PROVE LastOf(opt) = LatestIn(args, {opt})
<1>1. args \in Seq(Args)
  BY DEF OptionsInv
<1> QED BY <1>1 DEF LastOf, LatestIn

\* The file is sent if it was asked for and no -f came after.
LEMMA FileIsSent ==
  ASSUME OptionsInv, pc \in Running, FileStays
  PROVE  /\ request.file_upload \in BOOLEAN
         /\ request.file_upload <=> LatestIn(args, {"b"}) # {}
<1>1. args \in Seq(Args) /\ FileOf(args, request)
  BY DEF OptionsInv
<1>2. request.file_upload = \E i \in LatestIn(args, {"b", "f"}) : args[i].opt = "b"
  BY <1>1 DEF FileOf
<1>3. ASSUME NEW i \in LatestIn(args, {"b"}) PROVE request.file_upload
  <2>1. i \in 1 .. Len(args) /\ args[i].opt = "b" /\ \A k \in 1 .. Len(args) : args[k].opt = "b" => k <= i
    BY <1>1, LatestAre
  <2>2. \A k \in 1 .. Len(args) : args[k].opt = "f" => k < i
    BY <1>1, LastIsLatest DEF FileStays
  <2>3. ASSUME NEW k \in i + 1 .. Len(args) PROVE args[k].opt \notin {"b", "f"}
    <3>1. k \in 1 .. Len(args) /\ ~(k <= i) /\ ~(k < i)
      BY <1>1, <2>1
    <3> QED BY <2>1, <2>2, <3>1
  <2>4. i \in LatestIn(args, {"b", "f"})
    BY <2>1, <2>3 DEF LatestIn
  <2> QED BY <1>2, <2>1, <2>4
<1>4. ASSUME NEW i \in LatestIn(args, {"b", "f"}), args[i].opt = "b" PROVE i \in LatestIn(args, {"b"})
  BY <1>1, <1>4, LatestAre
<1> QED BY <1>2, <1>3, <1>4

\* The sizes of short bodies.
LEMMA Sizes ==
  /\ Size(<<>>) = 0
  /\ \A what : \A n \in Int : Size(<<Piece(what, n)>>) = n
<1>1. Size(<<>>) = 0
  <2>1. [i \in DOMAIN <<>> |-> <<>>[i].bytes] = <<>>
    OBVIOUS
  <2>2. Size(<<>>) = Total(<<>>)
    BY <2>1 DEF Size, Total
  <2> QED BY <2>2, TotalEmpty
<1>2. ASSUME NEW what, NEW n \in Int PROVE Size(<<Piece(what, n)>>) = n
  <2>1. [i \in DOMAIN <<Piece(what, n)>> |-> <<Piece(what, n)>>[i].bytes] = Append(<<>>, n)
    BY DEF Piece
  <2>2. Size(<<Piece(what, n)>>) = Total(Append(<<>>, n))
    BY <2>1 DEF Size, Total
  <2>3. <<>> \in Seq(Int)
    OBVIOUS
  <2>4. Total(Append(<<>>, n)) = Total(<<>>) + n
    BY <2>3, TotalAppend
  <2> QED BY <2>2, <2>4, TotalEmpty
<1> QED BY <1>1, <1>2

\* The invariant of the program and what the event loop gets.
WholeInv == RequestInv /\ LoopInv

LEMMA InitialWhole == Init => WholeInv
  BY InitialRequest, InitialLoop DEF WholeInv

LEMMA WholeKeeps == WholeInv /\ [Next]_requestVars => WholeInv'
  BY RequestKeeps, LoopKeeps DEF WholeInv, RequestInv

LEMMA HostFollows == WholeInv => OneHost
<1> SUFFICES ASSUME WholeInv, pc = "loop" PROVE OneHost
  BY DEF OneHost
<1> DEFINE h == request.additional_header
           user == [from |-> "user", port |-> NoPort]
           url == [from |-> "url", port |-> IF NamedHost \/ port = 80 THEN NoPort ELSE port]
<1>1. message.hosts = OwnHost \o UserHost /\ HeaderReads
  BY DEF WholeInv, LoopInv
<1>2. h \in Header
  <2>1. h \in Headers \cup {NULL}
    BY DEF WholeInv, RequestInv, RecordOK, RequestOK
  <2>2. NULL \in Header
    BY DEF NULL, Header
  <2> QED BY <2>1, <2>2, Arguments
<1>3. ASSUME h.name \in {"Accept", "none"} PROVE message.hosts = <<url>>
  <2>1. ~Found /\ UserHost = <<>>
    BY <1>3 DEF Found, UserHost
  <2>2. get_header_value = 0
    BY <2>1 DEF get_header_value
  <2>3. OwnHost = <<url>>
    BY <2>2 DEF OwnHost
  <2>4. <<url>> \o <<>> = <<url>>
    OBVIOUS
  <2> HIDE DEF url
  <2> QED BY <1>1, <2>1, <2>3, <2>4
<1>4. ASSUME h.name = "Host", ~NamedHost, h.chars > 1 PROVE message.hosts = <<user>>
  <2>1. Found /\ UserHost = <<user>>
    BY <1>4 DEF Found, UserHost
  <2>2. h.chars \in Nat
    BY <1>2 DEF Header
  <2>3. get_header_value # 0
    BY <1>4, <2>1, <2>2 DEF get_header_value
  <2>4. OwnHost = <<>>
    BY <1>4, <2>3 DEF OwnHost
  <2>5. <<>> \o <<user>> = <<user>>
    OBVIOUS
  <2> HIDE DEF user
  <2> QED BY <1>1, <2>1, <2>4, <2>5
<1> QED BY <1>3, <1>4 DEF OneHost

(* The Host header of the URL and that of -H are not both sent, and never   *)
(* is there none, in the cases compose_request_buffer provides for.         *)
THEOREM HostOnce == Spec => []OneHost
  BY InitialWhole, WholeKeeps, HostFollows, PTL DEF Spec

\* What the options said, once the loop runs.
LEMMA AtLoop ==
  ASSUME WholeInv, pc = "loop"
  PROVE  /\ args \in Seq(Args) /\ OptionsInv /\ pc \in Running
         /\ FileOf(args, request) /\ DataOf(args, request) /\ LengthOf(args, request)
         /\ ConnectionsOf(args, request) /\ ClockOf(args, request, timer)
         /\ HeaderReads /\ ~Fails
         /\ message.line = StartLine /\ message.hosts = OwnHost \o UserHost
         /\ message.length = ContentLength /\ message.body = Body
         /\ RequestOK(request) /\ file \in Int
         /\ stage = "copied"
BY Arguments DEF WholeInv, RequestInv, OptionsInv, LoopInv, RecordOK, Running, Gone

LEMMA LengthFollows == WholeInv => BodyIsDeclared
<1> SUFFICES ASSUME WholeInv, pc = "loop", FileStays, FilesSmall, DataSmall
             PROVE  message.length = Size(message.body)
  BY DEF BodyIsDeclared
<1>1. /\ args \in Seq(Args) /\ OptionsInv /\ pc \in Running
      /\ DataOf(args, request) /\ LengthOf(args, request)
      /\ ~Fails /\ message.length = ContentLength /\ message.body = Body
      /\ RequestOK(request) /\ file \in Int
  BY AtLoop
<1>2. request.content_length \in Int /\ request.bodydata \in Int /\ request.file_upload \in BOOLEAN
  BY <1>1, FileIsSent, Arguments DEF RequestOK, Int32s
<1>3. CASE Multipart
  BY <1>1, <1>3 DEF ContentLength
<1>4. CASE ~Multipart /\ request.file_upload
  <2>1. Body = <<Piece("file", BytesRead)>> /\ BytesRead = request.content_length
    BY <1>1, <1>4 DEF Body, Fails, ToRead
  <2> QED BY <1>1, <1>2, <1>4, <2>1, Sizes DEF ContentLength
<1>5. CASE ~request.file_upload
  <2>1. LatestIn(args, {"b"}) = {}
    BY <1>1, <1>5, FileIsSent
  <2>2. \A k \in 1 .. Len(args) : args[k].opt # "b"
    BY <1>1, <2>1, SomeLatest
  <2>3. LatestIn(args, {"b", "d"}) = LatestIn(args, {"d"})
    <3>1. \A k \in 1 .. Len(args) : args[k].opt \in {"b", "d"} <=> args[k].opt \in {"d"}
      BY <2>2
    <3>2. \A i \in 1 .. Len(args) : \A j \in i + 1 .. Len(args) : j \in 1 .. Len(args)
      BY <1>1
    <3> QED BY <3>1, <3>2 DEF LatestIn
  <2>4. request.content_length = request.bodydata
    <3>1. CASE LatestIn(args, {"d"}) = {}
      BY <1>1, <2>3, <3>1 DEF DataOf, LengthOf
    <3>2. ASSUME NEW i \in LatestIn(args, {"d"}) PROVE request.content_length = request.bodydata
      <4>1. i \in 1 .. Len(args) /\ args[i].opt = "d"
        BY <1>1, LatestAre
      <4>2. args[i].arg < BODY_SIZE
        BY <1>1, <4>1 DEF DataSmall
      <4>3. request.bodydata = args[i].arg
        BY <1>1, <4>2 DEF DataOf
      <4>4. request.content_length = args[i].arg
        BY <1>1, <2>3, <4>1 DEF LengthOf
      <4> QED BY <4>3, <4>4
    <3> QED BY <3>1, <3>2
  <2>5. ~Multipart
    BY <1>5 DEF Multipart
  <2>6. CASE request.bodydata # 0
    <3>1. Body = <<Piece("data", request.bodydata)>>
      BY <1>5, <2>5, <2>6 DEF Body
    <3> QED BY <1>1, <1>2, <2>4, <2>5, <3>1, Sizes DEF ContentLength
  <2>7. CASE request.bodydata = 0
    <3>1. Body = <<>>
      BY <1>5, <2>5, <2>7 DEF Body
    <3> QED BY <1>1, <2>4, <2>5, <2>7, <3>1, Sizes DEF ContentLength
  <2> QED BY <2>6, <2>7
<1> QED BY <1>2, <1>3, <1>4, <1>5

(* A request that is sent has a Content-Length that is the size of what     *)
(* compose_request_buffer put behind the head, for every file size and data *)
(* that fit, every order of -b and -d, and whatever happens to the file.    *)
THEOREM LengthIsSize == Spec => []BodyIsDeclared
  BY InitialWhole, WholeKeeps, LengthFollows, PTL DEF Spec

LEMMA BodyFollows == WholeInv => BodyAsAsked
<1> SUFFICES ASSUME WholeInv, pc = "loop", FileStays, FilesSmall, DataSmall,
                    NEW i \in LastOf("b"), NEW j \in LastOf("d"), args[j].arg > 0
             PROVE  { piece \in ToSet(message.body) : piece.what # "boundary" } =
                      { Piece("file", args[i].arg), Piece("data", args[j].arg) }
  BY DEF BodyAsAsked
<1>1. /\ args \in Seq(Args) /\ OptionsInv /\ pc \in Running
      /\ FileOf(args, request) /\ DataOf(args, request) /\ ~Fails /\ message.body = Body
  BY AtLoop
<1>2. i \in LatestIn(args, {"b"}) /\ j \in LatestIn(args, {"d"})
  BY <1>1, LastIsLatest
<1>3. /\ i \in 1 .. Len(args) /\ args[i].opt = "b"
      /\ j \in 1 .. Len(args) /\ args[j].opt = "d"
  BY <1>1, <1>2, LatestAre
<1>4. args[i].arg \in Nat /\ request.file_size = Int32(args[i].arg) /\ args[i].arg <= IntMax
  BY <1>1, <1>2, <1>3 DEF FileOf, FilesSmall
<1>5. request.file_size = args[i].arg
  BY <1>4, Int32Is, Arguments
<1>6. request.bodydata = args[j].arg /\ args[j].arg \in Int
  BY <1>1, <1>2, <1>3 DEF DataOf, DataSmall
<1>7. request.file_upload
  BY <1>1, <1>2, FileIsSent
<1>8. Multipart
  BY <1>6, <1>7 DEF Multipart
<1>9. BytesRead = args[i].arg
  BY <1>1, <1>5, <1>7, <1>8 DEF Fails, ToRead
<1> DEFINE f == Piece("file", args[i].arg)
           d == Piece("data", args[j].arg)
<1>10. message.body = <<Boundary, f, Boundary, d, Boundary>>
  BY <1>1, <1>6, <1>8, <1>9 DEF Body
<1>11. Boundary.what = "boundary" /\ f.what = "file" /\ d.what = "data"
  BY DEF Boundary, Piece
<1> HIDE DEF f, d
<1>12. ToSet(message.body) = {Boundary, f, d}
  BY <1>10 DEF ToSet
<1> QED BY <1>11, <1>12 DEF f, d

(* The body has the bytes of the last file and the last data, whatever else *)
(* the options before and between them say.                                 *)
THEOREM BodyIsLast == Spec => []BodyAsAsked
  BY InitialWhole, WholeKeeps, BodyFollows, PTL DEF Spec

LEMMA LoopFollows == WholeInv => LoopGetsWhatWasAsked
<1> SUFFICES ASSUME WholeInv, pc = "loop" PROVE LoopGetsWhatWasAsked
  BY DEF LoopGetsWhatWasAsked
<1>1. args \in Seq(Args) /\ OptionsInv /\ ConnectionsOf(args, request) /\ ClockOf(args, request, timer)
  BY AtLoop
<1>2. \A opt : LastOf(opt) = LatestIn(args, {opt})
  BY <1>1, LastIsLatest
<1>3. ASSUME NEW i \in LastOf("c") PROVE request.connections = args[i].arg
  BY <1>1, <1>2 DEF ConnectionsOf
<1>4. ASSUME NEW i \in LastOf("t") PROVE timer = args[i].arg
  BY <1>1, <1>2 DEF ClockOf
<1>5. ASSUME NEW i \in LastOf("t"), \A j \in LastOf("m") : j < i PROVE request.duration = timer
  <2>1. i \in 1 .. Len(args) /\ args[i].opt = "t" /\ \A k \in 1 .. Len(args) : args[k].opt = "t" => k <= i
    BY <1>1, <1>2, LatestAre
  <2>2. ASSUME NEW k \in 1 .. Len(args), args[k].opt = "m" PROVE k < i
    <3>1. PICK j : j \in LatestIn(args, {"m"})
      BY <1>1, <2>2, SomeLatest
    <3>2. j \in 1 .. Len(args) /\ k <= j
      BY <1>1, <2>2, <3>1, LatestAre
    <3>3. j < i
      BY <1>2, <1>5, <3>1
    <3> QED BY <1>1, <2>1, <3>2, <3>3
  <2>3. ASSUME NEW k \in i + 1 .. Len(args) PROVE args[k].opt \notin {"t", "m"}
    <3>1. k \in 1 .. Len(args) /\ ~(k <= i) /\ ~(k < i)
      BY <1>1, <2>1
    <3> QED BY <2>1, <2>2, <3>1
  <2>4. i \in LatestIn(args, {"t", "m"})
    BY <2>1, <2>3 DEF LatestIn
  <2>5. request.duration = args[i].arg
    BY <1>1, <2>1, <2>4 DEF ClockOf
  <2> QED BY <1>4, <1>5, <2>5
<1> QED BY <1>3, <1>4, <1>5 DEF LoopGetsWhatWasAsked

(* The event loop gets the connections of the last -c and the timer of the  *)
(* last -t, however many there were and in whatever order.                  *)
THEOREM LoopGetsLast == Spec => []LoopGetsWhatWasAsked
  BY InitialWhole, WholeKeeps, LoopFollows, PTL DEF Spec

\* Of a URL written from parts that fit the request has the parts.
LEMMA FieldsGiven ==
  ASSUME WholeInv, pc = "loop", FieldsAsWritten, NEW w \in given.written, Fits(w)
  PROVE  /\ w \in [Field -> Seq(Char)]
         /\ \A f \in Field \ {"schema"} : text[f] = w[f]
         /\ w["port"] # <<>> => port = Number(w["port"])
<1>1. stage = "copied" /\ given.written \subseteq Parts
  BY DEF WholeInv, LoopInv
<1> QED BY <1>1 DEF FieldsAsWritten, Parts

LEMMA LineFollows == WholeInv /\ FieldsAsWritten => LineAsAsked
<1> SUFFICES ASSUME WholeInv, FieldsAsWritten, pc = "loop",
                    NEW w \in given.written, Fits(w), w["path"] # <<>>, w["fragment"] = <<>>
             PROVE  message.line = <<IF Asked("b") \/ Asked("d") THEN "POST" ELSE "GET", "SP">>
                       \o w["path"] \o After(<<"?">>, w["query"]) \o <<"SP", "HTTP/1.1">>
  BY DEF LineAsAsked
<1>1. args \in Seq(Args) /\ OptionsInv /\ LengthOf(args, request) /\ message.line = StartLine
  BY AtLoop
<1>2. /\ w["path"] \in Seq(Char) /\ w["query"] \in Seq(Char)
      /\ text["path"] = w["path"] /\ text["query"] = w["query"] /\ text["fragment"] = <<>>
  BY FieldsGiven DEF Field
<1> DEFINE method == IF Asked("b") \/ Asked("d") THEN "POST" ELSE "GET"
<1>3. request.method = method
  <2>1. LastOf("b") = LatestIn(args, {"b"}) /\ LastOf("d") = LatestIn(args, {"d"})
    BY <1>1, LastIsLatest
  <2>2. ASSUME NEW i \in LatestIn(args, {"b", "d"})
        PROVE  LatestIn(args, {"b"}) # {} \/ LatestIn(args, {"d"}) # {}
    <3>1. args[i].opt \in {"b", "d"} /\ \A few \in SUBSET {"b", "d"} : args[i].opt \in few => i \in LatestIn(args, few)
      BY <1>1, <2>2, LatestAre
    <3> QED BY <3>1
  <2>3. ASSUME NEW opt \in {"b", "d"}, NEW i \in LatestIn(args, {opt})
        PROVE  LatestIn(args, {"b", "d"}) # {}
    <3>1. i \in 1 .. Len(args) /\ args[i].opt \in {"b", "d"}
      BY <1>1, <2>3, LatestAre
    <3> QED BY <1>1, <3>1, SomeLatest
  <2>4. LatestIn(args, {"b", "d"}) = {} <=> ~(Asked("b") \/ Asked("d"))
    BY <2>1, <2>2, <2>3 DEF Asked
  <2> QED BY <1>1, <2>4 DEF LengthOf
<1> HIDE DEF method
<1> DEFINE C == Char \cup {method, "SP", "?"}
           line == <<method, "SP">> \o w["path"] \o After(<<"?">>, w["query"])
<1>4. line \in Seq(C)
  <2>1. <<method, "SP">> \in Seq(C) /\ <<"?">> \in Seq(C) /\ <<>> \in Seq(C)
    OBVIOUS
  <2>2. w["path"] \in Seq(C) /\ w["query"] \in Seq(C)
    BY <1>2
  <2> HIDE DEF C
  <2>3. After(<<"?">>, w["query"]) \in Seq(C)
    BY <2>1, <2>2 DEF After
  <2> QED BY <2>1, <2>2, <2>3
<1>5. StartLine = line \o <<>> \o <<"SP", "HTTP/1.1">>
  BY <1>2, <1>3 DEF StartLine
<1>6. line \o <<>> = line
  <2> HIDE DEF line, C
  <2> QED BY <1>4
<1> QED BY <1>1, <1>5, <1>6 DEF method

(* The start line is the method that goes with the body and the path and    *)
(* query the user wrote, if they fit: through both scans, the copies of     *)
(* parse_url and compose_request_buffer, whatever the options.              *)
THEOREM LineIsAsked == Spec => []LineAsAsked
<1>1. WholeInv /\ ReadUrl => LineAsAsked
  BY LineFollows, ReadAsWritten DEF ReadUrl
<1> QED BY <1>1, InitialWhole, WholeKeeps, InitialRead, ReadUrlKeeps, PTL DEF Spec

LEMMA PortFollows == WholeInv /\ FieldsAsWritten => PortAsAsked
<1> SUFFICES ASSUME WholeInv, FieldsAsWritten, pc = "loop", NEW w \in given.written, Fits(w)
             PROVE  port = IF w["port"] # <<>> THEN Number(w["port"])
                           ELSE IF Asked("p") THEN args[CHOOSE i \in LastOf("p") : TRUE].arg ELSE 80
  BY DEF PortAsAsked
<1>1. OptionsInv /\ pc \in Running /\ stage = "copied" /\ PortInv
  BY AtLoop DEF WholeInv, RequestInv
<1>2. text["port"] = w["port"] /\ (w["port"] # <<>> => port = Number(w["port"]))
  BY FieldsGiven DEF Field
<1>3. CASE w["port"] = <<>>
  <2>1. PortOf(args, port)
    BY <1>1, <1>2, <1>3 DEF PortInv
  <2>2. LastOf("p") = LatestIn(args, {"p"})
    BY <1>1, LastIsLatest
  <2> QED BY <1>3, <2>1, <2>2 DEF PortOf, Asked
<1> QED BY <1>2, <1>3

(* The port is that of the URL if it gives one, whatever the options say,   *)
(* and otherwise that of the last -p or 80.                                 *)
THEOREM PortIsAsked == Spec => []PortAsAsked
<1>1. WholeInv /\ ReadUrl => PortAsAsked
  BY PortFollows, ReadAsWritten DEF ReadUrl
<1> QED BY <1>1, InitialWhole, WholeKeeps, InitialRead, ReadUrlKeeps, PTL DEF Spec
=============================================================================
