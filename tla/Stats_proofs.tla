----------------------------- MODULE Stats_proofs -----------------------------
(***************************************************************************)
(* The array of intervals is written inside its bounds for every first     *)
(* size, every number of responses and wherever SIGINT strikes.  The       *)
(* bounds hold because stats_add grows an array that is half full: what    *)
(* has to be carried along is that half of it is free (HalfFree).  The     *)
(* counts of requests, responses and codes agree with what was recorded,   *)
(* and in a run that ends by its timer the summary says what the intervals *)
(* are.                                                                    *)
(***************************************************************************)
EXTENDS Stats, SequenceTheorems, FoldTheorems, TLAPS

(* Half a number, rounded down.                                            *)
LEMMA Halving ==
  ASSUME NEW n \in Nat
  PROVE  /\ n \div 2 \in Nat
         /\ 2 * (n \div 2) <= n
         /\ n <= 2 * (n \div 2) + 1
OBVIOUS

LEMMA Initial == Init => ArrayInv
BY SizesAssumption DEF Init, ArrayInv, HalfFree, BlockLive, SpaceBounded, Recording

(* Neither the clock, a request, SIGINT nor the summary touches the array. *)
LEMMA OthersKeep ==
  ASSUME ArrayInv,
         Tick \/ Send \/ TimerExpires \/ Interrupt \/ Summarise
  PROVE  ArrayInv'
<1> USE DEF ArrayInv, HalfFree, BlockLive, SpaceBounded, Recording, Goto, array, memory, time
<1>1. CASE Tick
  BY <1>1 DEF Tick
<1>2. CASE Send
  BY <1>2 DEF Send
<1>3. CASE TimerExpires
  BY <1>3 DEF TimerExpires
<1>4. CASE Interrupt
  BY <1>4 DEF Interrupt
<1>5. CASE Summarise
  <2>1. size' = size /\ capacity' = capacity
    BY <1>5 DEF Summarise, ShowCounts, ShowDeviation, Sort, ShowMedian, ShowPercentage, Free, Exit
  <2>2. pc' \in {"deviation", "sort", "median", "percent", "free", "exit", "exited", "undefined"}
    BY <1>5 DEF Summarise, ShowCounts, ShowDeviation, Sort, ShowMedian, ShowPercentage, Free,
                Exit, Using, AfterLatencies
  <2> QED  BY <2>1, <2>2
<1> QED  BY <1>1, <1>2, <1>3, <1>4, <1>5

(* Recording one interval keeps half of the array free.                    *)
LEMMA RecordKeeps ==
  ASSUME ArrayInv, Record
  PROVE  ArrayInv'
<1> USE DEF ArrayInv, HalfFree, BlockLive, SpaceBounded, Recording, Goto, array, memory, time
<1>1. CASE CountStatus \/ CountResponse \/ Clear \/ Write \/ UpdateMax \/ UpdateMin \/ UpdateAvg
  BY <1>1 DEF CountStatus, CountResponse, Clear, Write, UpdateMax, UpdateMin, UpdateAvg
<1>2. CASE TakeTime
  <2>1. /\ capacity \div 2 \in Nat
        /\ 2 * (capacity \div 2) <= capacity
        /\ capacity <= 2 * (capacity \div 2) + 1
    BY Halving
  <2>2. CASE size >= capacity \div 2
    BY <1>2, <2>1, <2>2 DEF TakeTime
  <2>3. CASE ~(size >= capacity \div 2)
    BY <1>2, <2>1, <2>3 DEF TakeTime
  <2> QED  BY <2>2, <2>3
<1>3. CASE Grow
  BY <1>3 DEF Grow
<1>4. CASE Realloc
  BY <1>4 DEF Realloc
<1>5. CASE Assign
  BY <1>5 DEF Assign
<1>6. CASE Bump
  BY <1>6 DEF Bump
<1> QED  BY <1>1, <1>2, <1>3, <1>4, <1>5, <1>6 DEF Record

(* Every reachable state satisfies the inductive invariant.                *)
THEOREM Invariance == Spec => []ArrayInv
<1>1. ArrayInv /\ UNCHANGED vars => ArrayInv'
  BY DEF ArrayInv, HalfFree, BlockLive, SpaceBounded, vars, array, memory
<1>2. ArrayInv /\ [Next]_vars => ArrayInv'
  BY <1>1, OthersKeep, RecordKeeps DEF Next
<1> QED  BY Initial, <1>2, PTL DEF Spec

(* Intervals and the zeroes of stats_resize are written inside the array   *)
(* (caculate.c:132, 157).                                                  *)
THEOREM InBounds == Spec => []WritesInBounds
<1>1. ArrayInv => WritesInBounds
  BY DEF ArrayInv, WritesInBounds, HalfFree, BlockLive, Recording
<1> QED  BY Invariance, <1>1, PTL

(* The array stays within four times what it holds (caculate.c:128, 152).  *)
THEOREM Bounded == Spec => []SpaceBounded
<1>1. ArrayInv => SpaceBounded
  BY DEF ArrayInv
<1> QED  BY Invariance, <1>1, PTL
(* A value cut to a word lies in it (stats_get_interval, caculate.c:104).   *)
LEMMA IntervalFits == ASSUME NEW m \in Int, NEW n \in Int PROVE Interval(m, n) \in 0 .. Wrap - 1
BY SizesAssumption DEF Interval

(* What the sort leaves is a list of the same intervals (qsort(3)).         *)
LEMMA RearrangedAreLists ==
  ASSUME NEW S, NEW s \in Seq(S), NEW t \in Rearranged(s)
  PROVE  t \in Seq(S) /\ Len(t) = Len(s) /\ ToSet(t) = ToSet(s)
<1> DEFINE D == 1 .. Len(s)
<1>1. PICK from \in Bijection(DOMAIN s, DOMAIN s) : t = [i \in DOMAIN s |-> s[from[i]]]
  BY DEF Rearranged
<1>2. DOMAIN s = D /\ Len(s) \in Nat /\ \A i \in D : s[i] \in S
  OBVIOUS
<1> HIDE DEF D
<1>3. from \in [D -> D] /\ \A i \in D : \E j \in D : from[j] = i
  BY <1>1, <1>2 DEF Bijection, Injection, Surjection
<1>4. t \in [D -> S] /\ \A i \in D : t[i] = s[from[i]]
  BY <1>1, <1>2, <1>3
<1>5. t \in Seq(S) /\ Len(t) = Len(s) /\ DOMAIN t = D
  BY <1>2, <1>4 DEF D
<1>6. ToSet(t) = {t[i] : i \in D} /\ ToSet(s) = {s[i] : i \in D}
  BY <1>2, <1>5 DEF ToSet
<1>7. \A i \in D : t[i] \in ToSet(s)
  BY <1>3, <1>4, <1>6
<1>8. \A i \in D : s[i] \in ToSet(t)
  BY <1>3, <1>4, <1>6
<1> QED BY <1>5, <1>6, <1>7, <1>8

(* The part of the array in use; a cell is written before it is counted.    *)
FilledInv == /\ size <= Len(cells)
             /\ pc = "bump" => size + 1 <= Len(cells)
             /\ pc \in {"max", "min", "avg"} => size > 0

TypesInv == TypeOK /\ FilledInv

LEMMA InitialTypes == Init => TypesInv
<1> SUFFICES ASSUME Init PROVE TypesInv
  OBVIOUS
<1>1. /\ pc = "idle" /\ handler = FALSE
      /\ now = 0 /\ sent = -1 /\ cost = 0
      /\ size = 0 /\ capacity = INIT_SIZE
      /\ data = 1 /\ live = {1} /\ new = 1
      /\ cells = <<>>
  BY DEF Init
<1>2. cells \in Seq(0 .. Wrap - 1) /\ Len(cells) = 0
  BY <1>1
<1>3. /\ 0 \in 0 .. MaxNow /\ -1 \in -1 .. MaxNow /\ 0 \in 0 .. Wrap - 1
      /\ INIT_SIZE \in Nat
  BY SizesAssumption
<1>4. handler \in BOOLEAN
  BY <1>1
<1>5. net_record \in NetRecord
  <2>1. INT_MAX - 1 \in 0 .. Wrap - 1
    BY SizesAssumption DEF INT_MAX
  <2> QED BY <2>1, SizesAssumption DEF Init, NetRecord
<1> QED BY <1>1, <1>2, <1>3, <1>4, <1>5 DEF TypesInv, TypeOK, FilledInv, Block

(* The first n elements of a list.                                          *)
LEMMA PrefixIs ==
  ASSUME NEW S, NEW s \in Seq(S), NEW n \in Nat, n <= Len(s)
  PROVE  SubSeq(s, 1, n) \in Seq(S) /\ Len(SubSeq(s, 1, n)) = n
<1>1. \A i \in 1 .. n : s[i] \in S
  OBVIOUS
<1>2. SubSeq(s, 1, n) \in Seq(S) /\ Len(SubSeq(s, 1, n)) = IF 1 <= n THEN n - 1 + 1 ELSE 0
  BY <1>1, SubSeqProperties
<1> QED BY <1>2

LEMMA RecordedIsList == ASSUME TypesInv PROVE Recorded \in Seq(0 .. Wrap - 1) /\ Len(Recorded) = size
<1>1. cells \in Seq(0 .. Wrap - 1) /\ size \in Nat /\ size <= Len(cells)
  BY DEF TypesInv, TypeOK, FilledInv
<1> DEFINE W == 0 .. Wrap - 1
<1>2. cells \in Seq(W)
  BY <1>1
<1>3. Recorded \in Seq(W) /\ Len(Recorded) = size
  <2> HIDE DEF W
  <2> QED BY <1>1, <1>2, PrefixIs DEF Recorded
<1> QED BY <1>3

(* The counters and the figures; the divisor of the average is not zero.    *)
LEMMA FigureTypes == ASSUME TypesInv, Record PROVE net_record' \in NetRecord
<1>1. net_record \in NetRecord /\ size \in Nat /\ cost \in 0 .. Wrap - 1
  BY DEF TypesInv, TypeOK
<1>2. CASE CountStatus
  <2>1. PICK c \in Code : net_record' = [net_record EXCEPT !.codes[c] = @ + 1]
    BY <1>2 DEF CountStatus
  <2> QED BY <1>1, <2>1 DEF NetRecord
<1>3. CASE CountResponse
  BY <1>1, <1>3 DEF CountResponse, NetRecord
<1>4. CASE UpdateMax \/ UpdateMin
  BY <1>1, <1>4 DEF UpdateMax, UpdateMin, NetRecord
<1>5. CASE UpdateAvg
  <2>1. size \in Nat \ {0}
    BY <1>1, <1>5 DEF UpdateAvg, TypesInv, FilledInv
  <2> DEFINE a == net_record.avg[1]
             b == net_record.avg[2]
             sum == (a * (size - 1)) \div b + cost
  <2>2. a \in Nat /\ b \in Nat \ {0}
    BY <1>1 DEF NetRecord
  <2>3. sum \in Nat
    <3> HIDE DEF a, b
    <3>1. a * (size - 1) \in Nat
      BY <2>1, <2>2
    <3> DEFINE top == a * (size - 1)
    <3> HIDE DEF top
    <3>2. top \in Nat
      BY <3>1 DEF top
    <3>3. top \div b \in Nat
      BY <2>2, <3>2
    <3> QED BY <1>1, <3>3, SizesAssumption DEF top
  <2>4. net_record' = [net_record EXCEPT !.avg = <<sum, size>>]
    BY <1>1, <1>5 DEF UpdateAvg, NetRecord
  <2> HIDE DEF sum
  <2> QED BY <1>1, <2>1, <2>3, <2>4 DEF NetRecord
<1>6. CASE TakeTime \/ Grow \/ Realloc \/ Assign \/ Clear \/ Write \/ Bump
  BY <1>1, <1>6 DEF TakeTime, Grow, Realloc, Assign, Clear, Write, Bump
<1> QED BY <1>2, <1>3, <1>4, <1>5, <1>6 DEF Record

LEMMA RecordTypes == ASSUME TypesInv, Record PROVE TypesInv'
<1>0. net_record' \in NetRecord
  BY FigureTypes
<1> USE <1>0 DEF TypesInv, TypeOK, FilledInv, Goto, array, memory, time
<1>1. CASE CountStatus \/ CountResponse \/ Clear \/ UpdateMax \/ UpdateMin \/ UpdateAvg
  BY <1>1 DEF CountStatus, CountResponse, Clear, UpdateMax, UpdateMin, UpdateAvg
<1>2. CASE TakeTime
  <2>1. cost' \in 0 .. Wrap - 1
    BY <1>2, IntervalFits DEF TakeTime
  <2> QED BY <1>2, <2>1, SizesAssumption DEF TakeTime
<1>3. CASE Grow \/ Realloc \/ Assign
  BY <1>3 DEF Grow, Realloc, Assign
<1>4. CASE Write
  <2>1. Recorded \in Seq(0 .. Wrap - 1) /\ Len(Recorded) = size
    BY RecordedIsList
  <2>2. cells' \in Seq(0 .. Wrap - 1) /\ Len(cells') = size + 1
    BY <1>4, <2>1 DEF Write
  <2> QED BY <1>4, <2>2 DEF Write
<1>5. CASE Bump
  BY <1>5 DEF Bump
<1> QED BY <1>1, <1>2, <1>3, <1>4, <1>5 DEF Record

LEMMA OthersTypes ==
  ASSUME TypesInv, Tick \/ Send \/ TimerExpires \/ Interrupt \/ Summarise PROVE TypesInv'
<1> USE DEF TypesInv, TypeOK, FilledInv, Goto, array, memory, time
<1>1. CASE Tick
  BY <1>1, SizesAssumption DEF Tick
<1>2. CASE Send
  BY <1>2, SizesAssumption DEF Send
<1>3. CASE TimerExpires
  BY <1>3 DEF TimerExpires
<1>4. CASE Interrupt
  BY <1>4 DEF Interrupt
<1>5. CASE ShowCounts \/ ShowDeviation \/ ShowMedian \/ ShowPercentage \/ Free \/ Exit
  BY <1>5 DEF ShowCounts, ShowDeviation, ShowMedian, ShowPercentage, Free, Exit, Using,
              AfterLatencies
<1>6. CASE Sort
  <2>1. Recorded \in Seq(0 .. Wrap - 1) /\ Len(Recorded) = size
    BY RecordedIsList
  <2>2. cells' \in Rearranged(Recorded)
    BY <1>6 DEF Sort
  <2>3. cells' \in Seq(0 .. Wrap - 1) /\ Len(cells') = size
    BY <2>1, <2>2, RearrangedAreLists
  <2> QED BY <1>6, <2>3 DEF Sort, Using
<1> QED BY <1>1, <1>2, <1>3, <1>4, <1>5, <1>6 DEF Summarise

(* Every variable has its type, and the intervals counted have been written *)
(* (caculate.c:124-145).                                                    *)
THEOREM Filled == Spec => []TypesInv
<1>1. TypesInv /\ UNCHANGED vars => TypesInv'
  BY DEF TypesInv, TypeOK, FilledInv, vars, array, memory, time
<1>2. TypesInv /\ [Next]_vars => TypesInv'
  BY <1>1, OthersTypes, RecordTypes DEF Next
<1> QED BY InitialTypes, <1>2, PTL DEF Spec

(* Every variable has its type; an interval fits its word for every clock   *)
(* and every width (caculate.c:102-106)                                     *)
THEOREM Types == Spec => []TypeOK
<1>1. TypesInv => TypeOK
  BY DEF TypesInv
<1> QED BY Filled, <1>1, PTL

-----------------------------------------------------------------------------
(* The record and its summary.                                             *)

(* Where the count of responses and the number of intervals are: one ahead  *)
(* from the count to the write, equal otherwise (networking.c:184-188).     *)
Behind == {"time", "grow", "realloc", "assign", "clear", "write", "bump"}
CountInv == ~Interrupts => ~handler
            /\ net_record.total_responses = IF pc \in Behind THEN size + 1 ELSE size

LEMMA CountKeeps == ASSUME TypesInv, CountInv, [Next]_vars PROVE CountInv'
<1> SUFFICES ASSUME ~Interrupts
             PROVE  ~handler'
                    /\ net_record'.total_responses = IF pc' \in Behind THEN size' + 1 ELSE size'
  BY DEF CountInv
<1> USE DEF Goto, array, memory, time, Behind
<1>1. ~handler /\ size \in Nat
      /\ net_record.total_responses = IF pc \in Behind THEN size + 1 ELSE size
  BY DEF CountInv, TypesInv, TypeOK
<1>2. CASE Tick \/ Send \/ TimerExpires \/ UNCHANGED vars
  BY <1>1, <1>2 DEF Tick, Send, TimerExpires, vars
<1>3. CASE Interrupt
  BY <1>3 DEF Interrupt
<1>4. CASE TakeTime \/ Grow \/ Realloc \/ Assign \/ Clear \/ Write \/ Bump
  BY <1>1, <1>4 DEF TakeTime, Grow, Realloc, Assign, Clear, Write, Bump
<1>5. CASE CountStatus
  BY <1>1, <1>5 DEF CountStatus
<1>6. CASE CountResponse
  BY <1>1, <1>6 DEF CountResponse
<1>7. CASE UpdateMax \/ UpdateMin \/ UpdateAvg
  <2>1. net_record'.total_responses = net_record.total_responses
    <3>1. CASE UpdateMax
      BY <3>1 DEF UpdateMax
    <3>2. CASE UpdateMin
      BY <3>2 DEF UpdateMin
    <3>3. CASE UpdateAvg
      BY <3>3 DEF UpdateAvg
    <3> QED BY <1>7, <3>1, <3>2, <3>3
  <2>2. UNCHANGED <<size, handler>> /\ pc \notin Behind /\ pc' \notin Behind
    BY <1>7 DEF UpdateMax, UpdateMin, UpdateAvg
  <2> QED BY <1>1, <2>1, <2>2
<1>8. CASE Summarise
  BY <1>1, <1>8 DEF Summarise, ShowCounts, ShowDeviation, Sort, ShowMedian, ShowPercentage, Free,
                    Exit, Using, AfterLatencies
<1> QED BY <1>2, <1>3, <1>4, <1>5, <1>6, <1>7, <1>8 DEF Next, Record

LEMMA InitialCount == Init => CountInv
BY DEF Init, CountInv, Behind

(* Without CTRL+C every response counted has its interval in the array when *)
(* the summary is shown: the loop shows it between two responses only       *)
(* (networking.c:184-188, caculate.c:342).                                  *)
THEOREM AllTimed == ASSUME ~Interrupts PROVE Spec => []EveryResponseTimed
<1>1. CountInv => EveryResponseTimed
  BY DEF CountInv, EveryResponseTimed, Behind
<1>2. TypesInv /\ CountInv /\ [Next]_vars => CountInv'
  BY CountKeeps
<1> QED BY InitialCount, Filled, <1>1, <1>2, PTL DEF Spec

(* The block of the array while the summary uses it, without CTRL+C.         *)
SummaryInv == /\ ~handler /\ pc # "undefined"
              /\ pc \in {"summary", "deviation", "sort", "median", "percent", "free"}
                   => data \in live

LEMMA SummaryKeeps ==
  ASSUME ~Interrupts, ArrayInv, SummaryInv, [Next]_vars PROVE SummaryInv'
<1> USE DEF SummaryInv, Goto, array, memory, time
<1>1. CASE Tick \/ Send \/ UNCHANGED vars
  BY <1>1 DEF Tick, Send, vars
<1>2. CASE TimerExpires
  BY <1>2 DEF TimerExpires, ArrayInv, BlockLive, Recording
<1>3. CASE Interrupt
  BY <1>3 DEF Interrupt
<1>4. CASE Record
  BY <1>4 DEF Record, CountStatus, CountResponse, TakeTime, Grow, Realloc, Assign, Clear, Write,
              Bump, UpdateMax, UpdateMin, UpdateAvg
<1>5. CASE Summarise
  BY <1>5 DEF Summarise, ShowCounts, ShowDeviation, Sort, ShowMedian, ShowPercentage, Free,
              Exit, Using, AfterLatencies
<1> QED BY <1>1, <1>2, <1>3, <1>4, <1>5 DEF Next

(* Without CTRL+C the summary of the timer uses an array that is allocated: *)
(* it is shown between two responses, and freed once, after its last use    *)
(* (caculate.c:342-383).                                                    *)
THEOREM DefinedWithoutInterrupt == ASSUME ~Interrupts PROVE Spec => []InterruptIsDefined
<1>1. Init => SummaryInv
  BY DEF Init, SummaryInv
<1>2. ArrayInv /\ SummaryInv /\ [Next]_vars => SummaryInv'
  BY SummaryKeeps
<1>3. SummaryInv => InterruptIsDefined
  BY DEF SummaryInv, InterruptIsDefined
<1> QED BY Invariance, <1>1, <1>2, <1>3, PTL DEF Spec

-----------------------------------------------------------------------------
(* Every response has a status and an interval.                            *)

(* The counters while the run is recorded, CTRL+C or not: a response is     *)
(* counted by status, then as a response, then gets its interval            *)
(* (networking.c:183-188).                                                  *)
Recorder == Recording \cup {"assign"}
TallyInv ==
  /\ net_record.codes \in [Code -> Int]
  /\ pc \in Recorder =>
       /\ net_record.total_responses = IF pc \in Behind THEN size + 1 ELSE size
       /\ SumOf(net_record.codes) = IF pc \in Behind \cup {"count"} THEN size + 1 ELSE size

(* The numbers by status are one more in all when one of them is.           *)
LEMMA OneMore ==
  ASSUME NEW f \in [Code -> Int], NEW c \in Code
  PROVE  SumOf([f EXCEPT ![c] = @ + 1]) = SumOf(f) + 1
<1> DEFINE g == [f EXCEPT ![c] = @ + 1]
           rest == Code \ {c}
<1>1. g \in [Code -> Int] /\ g[c] = f[c] + 1 /\ \A x \in rest : f[x] = g[x]
  OBVIOUS
<1> HIDE DEF g
<1>2. \A x \in Code : f[x] \in Int /\ g[x] \in Int
  BY <1>1
<1>3. PICK F : IsSum(F, f, Code)
  BY <1>2, CodeAssumption, SumExists
<1>4. PICK G : IsSum(G, g, Code)
  BY <1>2, CodeAssumption, SumExists
<1>5. SumOf(f) = F[Code] /\ SumOf(g) = G[Code]
  BY <1>1, <1>3, <1>4, CodeAssumption, SumOfIs
<1>6. F[Code] = F[rest] + f[c] /\ G[Code] = G[rest] + g[c] /\ F[rest] \in Int
  BY <1>3, <1>4 DEF IsSum
<1>7. rest \in SUBSET (Code \cap Code)
  OBVIOUS
<1> HIDE DEF rest
<1>8. F[rest] = G[rest]
  BY <1>1, <1>3, <1>4, <1>7, CodeAssumption, SumsAgree
<1> QED BY <1>1, <1>2, <1>5, <1>6, <1>8 DEF g

LEMMA NoneYet == SumOf([c \in Code |-> 0]) = 0
<1> DEFINE f == [c \in Code |-> 0]
           F == [s \in SUBSET Code |-> 0]
<1>1. f \in [Code -> Int] /\ IsSum(F, f, Code)
  BY DEF IsSum
<1> HIDE DEF f, F
<1>2. SumOf(f) = F[Code]
  BY <1>1, CodeAssumption, SumOfIs
<1> QED BY <1>2 DEF f, F

LEMMA TallyKeeps == ASSUME TypesInv, TallyInv, [Next]_vars PROVE TallyInv'
<1> USE DEF Goto, array, memory, time, Behind, Recorder, Recording
<1>1. size \in Nat
  BY DEF TypesInv, TypeOK
<1>2. CASE Tick \/ Send \/ TimerExpires \/ Interrupt \/ UNCHANGED vars
  BY <1>2 DEF Tick, Send, TimerExpires, Interrupt, vars, TallyInv
<1>3. CASE TakeTime \/ Grow \/ Realloc \/ Assign \/ Clear \/ Write \/ Bump
  BY <1>1, <1>3 DEF TakeTime, Grow, Realloc, Assign, Clear, Write, Bump, TallyInv
<1>4. CASE CountStatus
  <2>1. PICK c \in Code : net_record' = [net_record EXCEPT !.codes[c] = @ + 1]
    BY <1>4 DEF CountStatus
  <2>2. /\ net_record'.codes = [net_record.codes EXCEPT ![c] = @ + 1]
        /\ net_record'.total_responses = net_record.total_responses
    BY <2>1
  <2>3. net_record'.codes \in [Code -> Int]
    BY <2>2 DEF TallyInv
  <2>4. SumOf(net_record'.codes) = SumOf(net_record.codes) + 1
    BY <2>2, OneMore DEF TallyInv
  <2>5. pc = "idle" /\ pc' = "count" /\ size' = size
    BY <1>4 DEF CountStatus
  <2> QED BY <1>1, <2>2, <2>3, <2>4, <2>5 DEF TallyInv
<1>5. CASE CountResponse
  <2>1. /\ net_record'.codes = net_record.codes
        /\ net_record'.total_responses = net_record.total_responses + 1
    BY <1>5 DEF CountResponse
  <2>2. pc = "count" /\ pc' = "time" /\ size' = size
    BY <1>5 DEF CountResponse
  <2> QED BY <1>1, <2>1, <2>2 DEF TallyInv
<1>6. CASE UpdateMax \/ UpdateMin \/ UpdateAvg
  <2>1. net_record'.total_responses = net_record.total_responses /\ net_record'.codes = net_record.codes
    <3>1. CASE UpdateMax
      BY <3>1 DEF UpdateMax
    <3>2. CASE UpdateMin
      BY <3>2 DEF UpdateMin
    <3>3. CASE UpdateAvg
      BY <3>3 DEF UpdateAvg
    <3> QED BY <1>6, <3>1, <3>2, <3>3
  <2>2. size' = size /\ pc \in {"max", "min", "avg"} /\ pc' \in {"min", "avg", "idle"}
    BY <1>6 DEF UpdateMax, UpdateMin, UpdateAvg
  <2> QED BY <2>1, <2>2 DEF TallyInv
<1>7. CASE Summarise
  <2>1. net_record' = net_record /\ pc' \notin Recorder
    BY <1>7 DEF Summarise, ShowCounts, ShowDeviation, Sort, ShowMedian, ShowPercentage, Free,
                Exit, Using, AfterLatencies
  <2> QED BY <2>1 DEF TallyInv
<1> QED BY <1>2, <1>3, <1>4, <1>5, <1>6, <1>7 DEF Next, Record

LEMMA InitialTally == Init => TallyInv
<1> SUFFICES ASSUME Init PROVE TallyInv
  OBVIOUS
<1>1. net_record.codes = [c \in Code |-> 0] /\ net_record.total_responses = 0 /\ pc = "idle" /\ size = 0
  BY DEF Init
<1> QED BY <1>1, NoneYet DEF TallyInv, Behind

(* Between two responses every response has a status and an interval, also  *)
(* when CTRL+C may come anywhere (networking.c:183-188, caculate.c:124).    *)
THEOREM Tallied == Spec => []CountsAgree
<1>1. TallyInv => CountsAgree
  BY DEF TallyInv, CountsAgree, SumOf, Recorder, Recording, Behind
<1>2. TypesInv /\ TallyInv /\ [Next]_vars => TallyInv'
  BY TallyKeeps
<1> QED BY InitialTally, Filled, <1>1, <1>2, PTL DEF Spec

-----------------------------------------------------------------------------
(* The summary of a run that ends by itself.                               *)

(* A word keeps a number in its range; one below it gets Wrap more.         *)
LEMMA Words ==
  ASSUME NEW n \in Int
  PROVE  /\ 0 <= n /\ n < Wrap => n % Wrap = n
         /\ -Wrap <= n /\ n < 0 => n % Wrap = n + Wrap
<1>1. PICK w \in Nat : w = Wrap /\ w >= 4
  BY SizesAssumption
<1>2. 0 <= n /\ n < w => n % w = n
  BY <1>1
<1>3. -w <= n /\ n < 0 => n % w = n + w
  BY <1>1
<1> QED BY <1>1, <1>2, <1>3

LEMMA HalfWord == INT_MAX \in Nat /\ 2 * INT_MAX + 2 = Wrap
BY SizesAssumption DEF INT_MAX

(* An interval of less than half a word is what passed, and two of them are *)
(* compared as numbers (caculate.c:89, 104).                                *)
LEMMA Intervals ==
  ASSUME NEW m \in Nat, NEW n \in Nat, m <= n, n < INT_MAX
  PROVE  Interval(m, n) = n - m
BY Words, HalfWord DEF Interval

LEMMA Differences ==
  ASSUME NEW a \in Nat, NEW b \in Nat, a < INT_MAX, b < INT_MAX
  PROVE  Compare(a, b) = a - b
<1>1. Signed(a) = a /\ Signed(b) = b
  BY Words, HalfWord DEF Signed
<1>2. Signed(a - b) = a - b
  <2>1. CASE a >= b
    <3>1. (a - b) % Wrap = a - b
      BY <2>1, Words, HalfWord
    <3> QED BY <2>1, <3>1, HalfWord DEF Signed
  <2>2. CASE a < b
    <3>1. (a - b) % Wrap = a - b + Wrap
      BY <2>2, Words, HalfWord
    <3> QED BY <2>2, <3>1, HalfWord DEF Signed
  <2> QED BY <2>1, <2>2
<1> QED BY <1>1, <1>2 DEF Compare

(* A list cut after one element more.                                       *)
LEMMA LongerPrefix ==
  ASSUME NEW S, NEW s \in Seq(S), NEW n \in Nat, n < Len(s)
  PROVE  SubSeq(s, 1, n + 1) = Append(SubSeq(s, 1, n), s[n + 1])
OBVIOUS

LEMMA SamePrefix ==
  ASSUME NEW S, NEW s \in Seq(S), NEW t \in Seq(S), NEW n \in Nat, n <= Len(s), n <= Len(t),
         \A i \in 1 .. n : s[i] = t[i]
  PROVE  SubSeq(s, 1, n) = SubSeq(t, 1, n)
OBVIOUS

LEMMA Elements ==
  ASSUME NEW S, NEW s \in Seq(S), NEW n, Len(s) = n
  PROVE  ToSet(s) = {s[i] : i \in 1 .. n} /\ \A i \in 1 .. n : s[i] \in S
BY DEF ToSet

(* The intervals in use, and what the steps that change them leave.         *)
LEMMA RecordedIs ==
  ASSUME TypesInv
  PROVE  /\ Recorded \in Seq(0 .. Wrap - 1) /\ Recorded \in Seq(Int) /\ Len(Recorded) = size
         /\ \A i \in 1 .. size : Recorded[i] = cells[i]
         /\ ToSet(Recorded) = {cells[i] : i \in 1 .. size}
<1>1. Recorded \in Seq(0 .. Wrap - 1) /\ Len(Recorded) = size
  BY RecordedIsList
<1>2. cells \in Seq(0 .. Wrap - 1) /\ size \in Nat /\ size <= Len(cells)
  BY DEF TypesInv, TypeOK, FilledInv
<1>3. \A i \in 1 .. size : Recorded[i] = cells[i]
  BY <1>2 DEF Recorded
<1>4. ToSet(Recorded) = {Recorded[i] : i \in 1 .. size} /\ \A i \in 1 .. size : Recorded[i] \in 0 .. Wrap - 1
  <2> DEFINE W == 0 .. Wrap - 1
  <2>1. Recorded \in Seq(W) /\ Len(Recorded) = size
    BY <1>1
  <2> HIDE DEF W
  <2>2. ToSet(Recorded) = {Recorded[i] : i \in 1 .. size} /\ \A i \in 1 .. size : Recorded[i] \in W
    BY <2>1, Elements
  <2> QED BY <2>2 DEF W
<1>5. Recorded \in Seq(Int)
  <2>2. \A i \in 1 .. size : Recorded[i] \in Int
    BY <1>4, SizesAssumption
  <2>3. Recorded \in [1 .. size -> Int]
    BY <1>1, <2>2
  <2> QED BY <1>2, <2>3
<1> QED BY <1>1, <1>3, <1>4, <1>5

LEMMA WriteIs ==
  ASSUME TypesInv, Write
  PROVE  /\ Len(cells') = size + 1 /\ cells'[size + 1] = cost
         /\ \A i \in 1 .. size : cells'[i] = cells[i]
<1>1. cells' = Append(Recorded, cost)
  BY DEF Write
<1>2. Recorded \in Seq(Int) /\ Len(Recorded) = size /\ size \in Nat
      /\ \A i \in 1 .. size : Recorded[i] = cells[i]
  BY RecordedIs DEF TypesInv, TypeOK
<1> HIDE DEF Recorded
<1> QED BY <1>1, <1>2

LEMMA SortIs ==
  ASSUME TypesInv, TypesInv', Sort
  PROVE  /\ size' = size /\ Len(cells') = size
         /\ {cells'[i] : i \in 1 .. size} = {cells[i] : i \in 1 .. size}
         /\ Sum(Recorded') = Sum(Recorded)
         /\ OrderOf(ToSet(Recorded)) => Ordered(cells')
<1>1. cells' \in Rearranged(Recorded) /\ size' = size
      /\ (OrderOf(ToSet(Recorded)) => Ordered(cells'))
  BY DEF Sort
<1>2. Recorded \in Seq(Int) /\ Len(Recorded) = size /\ size \in Nat
      /\ ToSet(Recorded) = {cells[i] : i \in 1 .. size}
  BY RecordedIs DEF TypesInv, TypeOK
<1>3. cells' \in Seq(Int) /\ Len(cells') = size /\ ToSet(cells') = ToSet(Recorded)
  BY <1>1, <1>2, RearrangedAreLists
<1>4. ToSet(cells') = {cells'[i] : i \in 1 .. size}
  BY <1>3, Elements
<1>5. Recorded' = cells'
  BY <1>1, <1>2, <1>3 DEF Recorded
<1>6. PICK from \in Bijection(DOMAIN Recorded, DOMAIN Recorded) :
        cells' = [i \in DOMAIN Recorded |-> Recorded[from[i]]]
  BY <1>1 DEF Rearranged
<1>7. Total(cells') = Total(Recorded)
  BY <1>2, <1>6, TotalRearranged
<1>8. Sum(Recorded') = Sum(Recorded)
  BY <1>5, <1>7 DEF Sum, Total
<1> QED BY <1>1, <1>2, <1>3, <1>4, <1>8

(* No interval is longer than the run (networking.c:186).                   *)
ClockInv ==
  /\ sent <= now
  /\ pc \in {"count", "time"} => sent >= 0
  /\ cost <= MaxNow
  /\ \A i \in 1 .. Len(cells) : cells[i] <= MaxNow

LEMMA ClockKeeps ==
  ASSUME MaxNow < INT_MAX, TypesInv, TypesInv', ClockInv, [Next]_vars PROVE ClockInv'
<1> USE DEF Goto, array, memory, time
<1>1. /\ now \in Nat /\ sent \in Int /\ cost \in Int /\ MaxNow \in Nat /\ now <= MaxNow /\ size \in Nat
      /\ size <= Len(cells) /\ Len(cells) \in Nat
  BY SizesAssumption DEF TypesInv, TypeOK, FilledInv
<1>2. CASE Tick \/ Send \/ TimerExpires \/ Interrupt \/ UNCHANGED vars
  BY <1>1, <1>2 DEF Tick, Send, TimerExpires, Interrupt, vars, ClockInv
<1>3. CASE CountStatus \/ CountResponse \/ Grow \/ Realloc \/ Assign \/ Clear \/ Bump
           \/ UpdateMax \/ UpdateMin \/ UpdateAvg
  <2>1. UNCHANGED <<now, sent, cost, cells>> /\ (pc' \in {"count", "time"} => sent >= 0)
    <3>1. CASE CountStatus \/ CountResponse
      BY <1>1, <3>1 DEF CountStatus, CountResponse, ClockInv, TypesInv, TypeOK
    <3>2. CASE Grow \/ Realloc \/ Assign \/ Clear \/ Bump \/ UpdateMax \/ UpdateMin \/ UpdateAvg
      BY <3>2 DEF Grow, Realloc, Assign, Clear, Bump, UpdateMax, UpdateMin, UpdateAvg
    <3> QED BY <1>3, <3>1, <3>2
  <2> QED BY <2>1 DEF ClockInv
<1>4. CASE TakeTime
  <2>1. /\ cost' = Interval(sent, now) /\ sent' = -1 /\ pc = "time" /\ pc' \in {"grow", "write"}
        /\ UNCHANGED <<now, cells>>
    BY <1>4 DEF TakeTime
  <2>2. sent >= 0 /\ sent <= now
    BY <2>1 DEF ClockInv
  <2>3. cost' = now - sent
    BY <1>1, <2>1, <2>2, HalfWord, Intervals
  <2> QED BY <1>1, <2>1, <2>2, <2>3 DEF ClockInv
<1>5. CASE Write
  <2>1. /\ Len(cells') = size + 1 /\ cells'[size + 1] = cost
        /\ \A i \in 1 .. size : cells'[i] = cells[i]
    BY <1>5, WriteIs
  <2>2. \A i \in 1 .. Len(cells)' : cells'[i] <= MaxNow
    BY <1>1, <2>1 DEF ClockInv
  <2>3. UNCHANGED <<now, sent, cost>> /\ pc' = "bump"
    BY <1>5 DEF Write
  <2> QED BY <2>2, <2>3 DEF ClockInv
<1>6. CASE ShowCounts \/ ShowDeviation \/ ShowMedian \/ ShowPercentage \/ Free \/ Exit
  BY <1>6 DEF ShowCounts, ShowDeviation, ShowMedian, ShowPercentage, Free, Exit, Using,
              AfterLatencies, ClockInv
<1>7. CASE Sort
  <2>1. /\ size' = size /\ Len(cells') = size
        /\ {cells'[i] : i \in 1 .. size} = {cells[i] : i \in 1 .. size}
    BY <1>7, SortIs
  <2>2. \A i \in 1 .. Len(cells)' : cells'[i] <= MaxNow
    BY <1>1, <2>1 DEF ClockInv
  <2>3. UNCHANGED <<now, sent, cost>> /\ pc' \in {"median", "undefined"}
    BY <1>7 DEF Sort, Using
  <2> QED BY <2>2, <2>3 DEF ClockInv
<1> QED BY <1>2, <1>3, <1>4, <1>5, <1>6, <1>7 DEF Next, Record, Summarise

LEMMA InitialClock == Init => ClockInv
<1> SUFFICES ASSUME Init PROVE ClockInv
  OBVIOUS
<1>1. sent = -1 /\ now = 0 /\ cost = 0 /\ pc = "idle" /\ Len(cells) = 0
  BY DEF Init
<1> QED BY <1>1, SizesAssumption DEF ClockInv

(* The greatest, the least and the mean of the first k numbers of a list,   *)
(* with what stats_init puts where there is none.                           *)
Greatest(s, m, k) ==
  IF k = 0 THEN m = 0 ELSE (\E i \in 1 .. k : s[i] = m) /\ \A i \in 1 .. k : s[i] <= m
Least(s, m, k) ==
  IF k = 0 THEN m = INT_MAX - 1 ELSE (\E i \in 1 .. k : s[i] = m) /\ \A i \in 1 .. k : s[i] >= m
Mean(s, a, k) == a = IF k = 0 THEN <<0, 1>> ELSE <<Total(SubSeq(s, 1, k)), k>>

LEMMA GreatestMore ==
  ASSUME NEW s, NEW m \in Int, NEW k \in Nat, NEW c \in Nat, Greatest(s, m, k), s[k + 1] = c,
         \A i \in 1 .. k : s[i] \in Int
  PROVE  Greatest(s, IF m < c THEN c ELSE m, k + 1)
<1> DEFINE n == IF m < c THEN c ELSE m
<1>1. \A i \in 1 .. k + 1 : i \in 1 .. k \/ i = k + 1
  OBVIOUS
<1>2. \A i \in 1 .. k + 1 : s[i] <= n
  BY <1>1 DEF Greatest
<1>3. \E i \in 1 .. k + 1 : s[i] = n
  <2>1. CASE m < c \/ k = 0
    <3>1. s[k + 1] = n /\ k + 1 \in 1 .. k + 1
      BY <2>1 DEF Greatest
    <3> QED BY <3>1
  <2>2. CASE ~(m < c) /\ k # 0
    <3>1. PICK i \in 1 .. k : s[i] = m
      BY <2>2 DEF Greatest
    <3>2. s[i] = n /\ i \in 1 .. k + 1
      BY <2>2, <3>1
    <3> QED BY <3>2
  <2> QED BY <2>1, <2>2
<1> QED BY <1>2, <1>3 DEF Greatest

LEMMA LeastMore ==
  ASSUME NEW s, NEW m \in Int, NEW k \in Nat, NEW c \in Nat, Least(s, m, k), s[k + 1] = c,
         c < INT_MAX, \A i \in 1 .. k : s[i] \in Int
  PROVE  Least(s, IF m > c THEN c ELSE m, k + 1)
<1> DEFINE n == IF m > c THEN c ELSE m
<1>1. \A i \in 1 .. k + 1 : i \in 1 .. k \/ i = k + 1
  OBVIOUS
<1>2. \A i \in 1 .. k + 1 : s[i] >= n
  BY <1>1 DEF Least
<1>3. \E i \in 1 .. k + 1 : s[i] = n
  <2>1. CASE m > c \/ k = 0
    <3>1. s[k + 1] = n /\ k + 1 \in 1 .. k + 1
      BY <2>1, HalfWord DEF Least
    <3> QED BY <3>1
  <2>2. CASE ~(m > c) /\ k # 0
    <3>1. PICK i \in 1 .. k : s[i] = m
      BY <2>2 DEF Least
    <3>2. s[i] = n /\ i \in 1 .. k + 1
      BY <2>2, <3>1
    <3> QED BY <3>2
  <2> QED BY <2>1, <2>2
<1> QED BY <1>2, <1>3 DEF Least

LEMMA Exact == ASSUME NEW n \in Int, NEW k \in Nat \ {0} PROVE (n * k) \div k = n
OBVIOUS

LEMMA MeanMore ==
  ASSUME NEW s \in Seq(Int), NEW a, NEW k \in Nat, k < Len(s), Mean(s, a, k)
  PROVE  Mean(s, <<(a[1] * k) \div a[2] + s[k + 1], k + 1>>, k + 1)
<1> DEFINE p == SubSeq(s, 1, k)
           q == SubSeq(s, 1, k + 1)
<1>1. p \in Seq(Int) /\ Len(p) = k
  BY PrefixIs
<1>2. q = Append(p, s[k + 1]) /\ s[k + 1] \in Int
  BY LongerPrefix
<1> HIDE DEF p, q
<1>3. Total(q) = Total(p) + s[k + 1] /\ Total(p) \in Int
  BY <1>1, <1>2, TotalAppend, TotalExists
<1>4. (a[1] * k) \div a[2] = Total(p)
  <2>1. CASE k = 0
    <3>1. p = <<>> /\ a[1] = 0 /\ a[2] = 1
      BY <1>1, <2>1 DEF Mean
    <3> QED BY <2>1, <3>1, TotalEmpty
  <2>2. CASE k # 0
    <3>1. a[1] = Total(p) /\ a[2] = k
      BY <2>2 DEF Mean, p
    <3> QED BY <1>3, <2>2, <3>1, Exact
  <2> QED BY <2>1, <2>2
<1> QED BY <1>3, <1>4 DEF Mean, q

(* The figures of net_record are those of the intervals recorded; between   *)
(* the statements of stats_update some lack the last one (caculate.c:137).  *)
Updating == {"max", "min", "avg"}
Before(stages) == IF pc \in stages THEN size - 1 ELSE size
FigureInv ==
  /\ net_record.max \in Int /\ net_record.min \in Int
  /\ pc = "bump" => cells[size + 1] = cost
  /\ pc \in Updating => size >= 1 /\ cells[size] = cost
  /\ ~handler => /\ Greatest(cells, net_record.max, Before({"max"}))
                 /\ Least(cells, net_record.min, Before({"max", "min"}))
                 /\ Mean(cells, net_record.avg, Before(Updating))

LEMMA UpdateKeeps ==
  ASSUME MaxNow < INT_MAX, TypesInv, ClockInv, FigureInv, UpdateMax \/ UpdateMin \/ UpdateAvg
  PROVE  FigureInv'
<1> USE DEF Updating, Before, Goto, array, memory, time
<1>1. /\ size \in Nat \ {0} /\ size <= Len(cells) /\ cells \in Seq(Int) /\ cost \in Nat
      /\ cost < INT_MAX /\ cells[size] = cost /\ \A i \in 1 .. size : cells[i] \in Int
  <2>1. size \in Nat /\ size <= Len(cells) /\ cells \in Seq(Int) /\ cost \in Nat /\ cost <= MaxNow
    BY SizesAssumption DEF TypesInv, TypeOK, FilledInv, ClockInv
  <2>2. pc \in Updating
    BY DEF UpdateMax, UpdateMin, UpdateAvg
  <2>3. size >= 1 /\ cells[size] = cost
    BY <2>2 DEF FigureInv
  <2> QED BY <2>1, <2>3, SizesAssumption, HalfWord
<1> DEFINE k == size - 1
<1>2. k \in Nat /\ k + 1 = size /\ k < Len(cells) /\ \A i \in 1 .. k : cells[i] \in Int
  BY <1>1
<1>3. UNCHANGED <<cells, size, cost, handler>>
  BY DEF UpdateMax, UpdateMin, UpdateAvg
<1>4. CASE UpdateMax
  <2>1. /\ net_record'.max = IF net_record.max < cost THEN cost ELSE net_record.max
        /\ net_record'.min = net_record.min /\ net_record'.avg = net_record.avg
    BY <1>4 DEF UpdateMax, FigureInv
  <2>2. pc = "max" /\ pc' = "min"
    BY <1>4 DEF UpdateMax
  <2>3. ~handler => Greatest(cells, net_record'.max, size)
    BY <1>1, <1>2, <2>1, <2>2, GreatestMore DEF FigureInv
  <2> QED BY <1>1, <1>3, <2>1, <2>2, <2>3 DEF FigureInv
<1>5. CASE UpdateMin
  <2>1. /\ net_record'.min = IF net_record.min > cost THEN cost ELSE net_record.min
        /\ net_record'.max = net_record.max /\ net_record'.avg = net_record.avg
    BY <1>5 DEF UpdateMin, FigureInv
  <2>2. pc = "min" /\ pc' = "avg"
    BY <1>5 DEF UpdateMin
  <2>3. ~handler => Least(cells, net_record'.min, size)
    BY <1>1, <1>2, <2>1, <2>2, LeastMore DEF FigureInv
  <2> QED BY <1>1, <1>3, <2>1, <2>2, <2>3 DEF FigureInv
<1>6. CASE UpdateAvg
  <2>1. /\ net_record'.avg = <<(net_record.avg[1] * k) \div net_record.avg[2] + cost, size>>
        /\ net_record'.max = net_record.max /\ net_record'.min = net_record.min
    BY <1>6 DEF UpdateAvg, FigureInv
  <2>2. pc = "avg" /\ pc' = "idle"
    BY <1>6 DEF UpdateAvg
  <2>3. ~handler => Mean(cells, net_record'.avg, size)
    <3> SUFFICES ASSUME ~handler PROVE Mean(cells, net_record'.avg, size)
      OBVIOUS
    <3>1. Mean(cells, net_record.avg, k)
      BY <2>2 DEF FigureInv
    <3> HIDE DEF k
    <3>2. Mean(cells, <<(net_record.avg[1] * k) \div net_record.avg[2] + cells[k + 1], k + 1>>, k + 1)
      BY <1>1, <1>2, <3>1, MeanMore
    <3> QED BY <1>1, <1>2, <2>1, <3>2
  <2> QED BY <1>1, <1>3, <2>1, <2>2, <2>3 DEF FigureInv
<1> QED BY <1>4, <1>5, <1>6

LEMMA FiguresSame ==
  ASSUME NEW s \in Seq(Int), NEW t \in Seq(Int), NEW k \in Nat, k <= Len(s), k <= Len(t),
         \A i \in 1 .. k : s[i] = t[i],
         NEW m, NEW n, NEW a, Greatest(s, m, k), Least(s, n, k), Mean(s, a, k)
  PROVE  Greatest(t, m, k) /\ Least(t, n, k) /\ Mean(t, a, k)
<1>1. SubSeq(s, 1, k) = SubSeq(t, 1, k)
  BY SamePrefix
<1> QED BY <1>1 DEF Greatest, Least, Mean

LEMMA FiguresSorted ==
  ASSUME NEW s \in Seq(Int), NEW t \in Seq(Int), NEW k \in Nat,
         {s[i] : i \in 1 .. k} = {t[i] : i \in 1 .. k},
         Total(SubSeq(s, 1, k)) = Total(SubSeq(t, 1, k)),
         NEW m, NEW n, NEW a, Greatest(s, m, k), Least(s, n, k), Mean(s, a, k)
  PROVE  Greatest(t, m, k) /\ Least(t, n, k) /\ Mean(t, a, k)
<1>1. \A i \in 1 .. k : \E j \in 1 .. k : t[i] = s[j]
  OBVIOUS
<1>2. \A i \in 1 .. k : \E j \in 1 .. k : s[i] = t[j]
  OBVIOUS
<1>3. Greatest(t, m, k)
  BY <1>1, <1>2 DEF Greatest
<1>4. Least(t, n, k)
  BY <1>1, <1>2 DEF Least
<1> QED BY <1>3, <1>4 DEF Mean

LEMMA WordsAreNumbers == ASSUME NEW s \in Seq(0 .. Wrap - 1) PROVE s \in Seq(Int)
<1>1. \A i \in 1 .. Len(s) : s[i] \in Int
  BY SizesAssumption
<1> QED BY <1>1

LEMMA FigureKeeps ==
  ASSUME MaxNow < INT_MAX, TypesInv, TypesInv', ClockInv, FigureInv, [Next]_vars
  PROVE  FigureInv'
<1> USE DEF Updating, Before, Goto, array, memory, time
<1>1. /\ size \in Nat /\ size <= Len(cells) /\ cells \in Seq(Int) /\ cells' \in Seq(Int)
      /\ Len(cells) \in Nat
  <2>1. cells \in Seq(0 .. Wrap - 1) /\ cells' \in Seq(0 .. Wrap - 1)
    BY DEF TypesInv, TypeOK
  <2>2. cells \in Seq(Int) /\ cells' \in Seq(Int)
    BY <2>1, WordsAreNumbers
  <2> QED BY <2>1, <2>2 DEF TypesInv, TypeOK, FilledInv
<1>2. CASE Tick \/ Send \/ TimerExpires \/ UNCHANGED vars
  BY <1>2 DEF Tick, Send, TimerExpires, vars, FigureInv
<1>3. CASE Interrupt
  BY <1>3 DEF Interrupt, FigureInv
<1>4. CASE CountStatus \/ CountResponse
  <2>1. /\ net_record'.max = net_record.max /\ net_record'.min = net_record.min
        /\ net_record'.avg = net_record.avg
    <3>1. CASE CountStatus
      BY <3>1 DEF CountStatus
    <3>2. CASE CountResponse
      BY <3>2 DEF CountResponse
    <3> QED BY <1>4, <3>1, <3>2
  <2> QED BY <1>4, <2>1 DEF CountStatus, CountResponse, FigureInv
<1>5. CASE TakeTime \/ Grow \/ Realloc \/ Assign \/ Clear
  BY <1>5 DEF TakeTime, Grow, Realloc, Assign, Clear, FigureInv
<1>6. CASE Write
  <2>1. /\ Len(cells') = size + 1 /\ cells'[size + 1] = cost
        /\ \A i \in 1 .. size : cells'[i] = cells[i]
    BY <1>6, WriteIs
  <2>2. UNCHANGED <<size, cost, handler, net_record>> /\ pc = "write" /\ pc' = "bump"
    BY <1>6 DEF Write
  <2>3. ~handler => /\ Greatest(cells', net_record.max, size) /\ Least(cells', net_record.min, size)
                    /\ Mean(cells', net_record.avg, size)
    <3> SUFFICES ASSUME ~handler
                 PROVE  /\ Greatest(cells', net_record.max, size) /\ Least(cells', net_record.min, size)
                        /\ Mean(cells', net_record.avg, size)
      OBVIOUS
    <3>1. /\ Greatest(cells, net_record.max, size) /\ Least(cells, net_record.min, size)
          /\ Mean(cells, net_record.avg, size)
      BY <2>2 DEF FigureInv
    <3>2. size <= Len(cells') /\ \A i \in 1 .. size : cells[i] = cells'[i]
      BY <1>1, <2>1
    <3> QED BY <1>1, <3>1, <3>2, FiguresSame
  <2> QED BY <2>1, <2>2, <2>3 DEF FigureInv
<1>7. CASE Bump
  BY <1>1, <1>7 DEF Bump, FigureInv
<1>8. CASE UpdateMax \/ UpdateMin \/ UpdateAvg
  BY <1>8, UpdateKeeps
<1>9. CASE ShowCounts \/ ShowDeviation \/ ShowMedian \/ ShowPercentage \/ Free \/ Exit
  BY <1>9 DEF ShowCounts, ShowDeviation, ShowMedian, ShowPercentage, Free, Exit, Using,
              AfterLatencies, FigureInv
<1>10. CASE Sort
  <2>1. /\ size' = size /\ Len(cells') = size
        /\ {cells'[i] : i \in 1 .. size} = {cells[i] : i \in 1 .. size}
        /\ Sum(Recorded') = Sum(Recorded)
    BY <1>10, SortIs
  <2>2. UNCHANGED <<size, cost, handler, net_record>> /\ pc = "sort" /\ pc' \in {"median", "undefined"}
    BY <1>10 DEF Sort, Using
  <2>3. Total(SubSeq(cells, 1, size)) = Total(SubSeq(cells', 1, size))
    BY <2>1 DEF Recorded, Sum, Total
  <2>4. ~handler => /\ Greatest(cells', net_record.max, size) /\ Least(cells', net_record.min, size)
                    /\ Mean(cells', net_record.avg, size)
    BY <1>1, <2>1, <2>2, <2>3, FiguresSorted DEF FigureInv
  <2> QED BY <2>2, <2>4 DEF FigureInv
<1> QED BY <1>2, <1>3, <1>4, <1>5, <1>6, <1>7, <1>8, <1>9, <1>10 DEF Next, Record, Summarise

LEMMA InitialFigures == Init => FigureInv
<1> SUFFICES ASSUME Init PROVE FigureInv
  OBVIOUS
<1>1. /\ net_record.max = 0 /\ net_record.min = INT_MAX - 1 /\ net_record.avg = <<0, 1>>
      /\ pc = "idle" /\ size = 0
  BY DEF Init
<1> QED BY <1>1, HalfWord DEF FigureInv, Updating, Before, Greatest, Least, Mean

(* What a printed line adds to the report, and leaves of it.                *)
LEMMA Lines ==
  ASSUME NEW f, Shown(f)
  PROVE  /\ DOMAIN report' = DOMAIN f \cup DOMAIN report
         /\ \A x \in DOMAIN f : report'[x] = f[x]
         /\ \A x \in DOMAIN report : x \notin DOMAIN f => report'[x] = report[x]
BY DEF Shown

(* What the report says while it is shown: the duration first, then the     *)
(* figures of net_record, then, of the sorted array, the median             *)
(* (caculate.c:352-377).                                                    *)
Shown1 == {"deviation", "sort", "median", "percent", "free", "exit", "exited"}
Figures == /\ {"avg", "max", "min"} \subseteq DOMAIN report
           /\ report.avg = net_record.avg
           /\ report.max = net_record.max
           /\ report.min = net_record.min
MedianIs == \E m \in Int : /\ 1 <= m /\ m <= size /\ report.median = cells[m]
                           /\ 2 * m <= size + 2 /\ size <= 2 * m
                           /\ \A i, j \in 1 .. size : i < j => cells[i] <= cells[j]
ReportInv == ~handler =>
  /\ pc \in Recorder \cup {"summary"} => DOMAIN report = {}
  /\ pc = "summary" => net_record.total_responses = size
  /\ pc \in Shown1 => "duration" \in DOMAIN report /\ report.duration = now
  /\ pc \in {"deviation", "sort", "median"} => size >= 1 /\ "median" \notin DOMAIN report
  /\ pc \in {"sort", "median"} => Figures
  /\ pc = "median" => \A i, j \in 1 .. size : i < j => cells[i] <= cells[j]
  /\ pc \in {"percent", "free", "exit", "exited"} /\ "median" \in DOMAIN report
       => size >= 1 /\ Figures /\ MedianIs

(* Intervals of less than half a word are ordered as numbers, so the sort   *)
(* puts them in their order (caculate.c:89).                                *)
LEMMA InOrder ==
  ASSUME MaxNow < INT_MAX, TypesInv, TypesInv', ClockInv, Sort
  PROVE  \A i, j \in 1 .. size : i < j => cells'[i] <= cells'[j]
<1>1. /\ size' = size /\ Len(cells') = size
      /\ {cells'[i] : i \in 1 .. size} = {cells[i] : i \in 1 .. size}
      /\ OrderOf(ToSet(Recorded)) => Ordered(cells')
  BY SortIs
<1>2. ToSet(Recorded) = {cells[i] : i \in 1 .. size}
  BY RecordedIs
<1>3. \A i \in 1 .. size : cells[i] \in Nat /\ cells[i] < INT_MAX
  <2>1. cells \in Seq(0 .. Wrap - 1) /\ size <= Len(cells) /\ size \in Nat
    BY DEF TypesInv, TypeOK, FilledInv
  <2>2. \A i \in 1 .. Len(cells) : cells[i] \in Nat /\ cells[i] <= MaxNow
    BY <2>1, SizesAssumption DEF ClockInv
  <2> QED BY <2>1, <2>2, SizesAssumption, HalfWord
<1> DEFINE S == {cells[i] : i \in 1 .. size}
<1>4. \A a \in S : a \in Nat /\ a < INT_MAX
  BY <1>3
<1>5. \A i \in 1 .. size : cells'[i] \in S
  BY <1>1
<1> HIDE DEF S
<1>6. \A a, b \in S : Compare(a, b) = a - b
  BY <1>4, Differences
<1>7. OrderOf(S)
  <2> SUFFICES ASSUME NEW a \in S, NEW b \in S, NEW c \in S
               PROVE  /\ Compare(a, b) < 0 <=> Compare(b, a) > 0
                      /\ Compare(a, b) <= 0 /\ Compare(b, c) <= 0 => Compare(a, c) <= 0
    BY DEF OrderOf
  <2>1. a \in Nat /\ b \in Nat /\ c \in Nat
    BY <1>4
  <2>2. Compare(a, b) = a - b /\ Compare(b, a) = b - a /\ Compare(b, c) = b - c /\ Compare(a, c) = a - c
    BY <1>6
  <2> QED BY <2>1, <2>2
<1>8. Ordered(cells') /\ DOMAIN cells' = 1 .. size
  <2>1. cells' \in Seq(0 .. Wrap - 1)
    BY DEF TypesInv, TypeOK
  <2> QED BY <1>1, <1>2, <1>7, <2>1 DEF S
<1> SUFFICES ASSUME NEW i \in 1 .. size, NEW j \in 1 .. size, i < j PROVE cells'[i] <= cells'[j]
  OBVIOUS
<1>9. cells'[i] \in S /\ cells'[j] \in S
  BY <1>5
<1>10. Compare(cells'[i], cells'[j]) <= 0
  BY <1>8 DEF Ordered
<1>11. cells'[i] - cells'[j] <= 0 /\ cells'[i] \in Nat /\ cells'[j] \in Nat
  BY <1>4, <1>6, <1>9, <1>10
<1> QED BY <1>11

LEMMA ReportKeeps ==
  ASSUME MaxNow < INT_MAX, TypesInv, TypesInv', ClockInv, TallyInv, ReportInv, [Next]_vars
  PROVE  ReportInv'
<1> USE DEF Goto, array, memory, time, Recorder, Recording, Shown1, Figures
<1>0. size \in Nat /\ now \in Nat /\ now <= MaxNow
  BY SizesAssumption DEF TypesInv, TypeOK
<1>1. CASE UNCHANGED vars
  BY <1>1 DEF vars, ReportInv, MedianIs
<1>2. CASE Tick
  BY <1>2 DEF Tick, ReportInv, MedianIs, Ended, Summarising
<1>3. CASE Send
  BY <1>3 DEF Send, ReportInv, MedianIs
<1>4. CASE TimerExpires
  BY <1>4 DEF TimerExpires, ReportInv, TallyInv, Behind
<1>5. CASE Interrupt
  BY <1>5 DEF Interrupt, ReportInv
<1>6. CASE Record
  <2>1. pc \in Recorder /\ pc' \in Recorder /\ UNCHANGED <<handler, report>>
    BY <1>6 DEF Record, CountStatus, CountResponse, TakeTime, Grow, Realloc, Assign, Clear, Write,
                Bump, UpdateMax, UpdateMin, UpdateAvg
  <2> QED BY <2>1 DEF ReportInv
<1>7. CASE ShowCounts
  <2> DEFINE f == [duration |-> Interval(0, now), responses |-> net_record.total_responses,
                   codes |-> net_record.codes]
  <2>1. /\ Shown(f) /\ pc = "summary" /\ UNCHANGED <<handler, size>> /\ now' = now
        /\ pc' = IF net_record.total_responses > 0 THEN "deviation" ELSE AfterLatencies
    BY <1>7 DEF ShowCounts
  <2>2. DOMAIN f = {"duration", "responses", "codes"} /\ f["duration"] = Interval(0, now)
    OBVIOUS
  <2> HIDE DEF f
  <2>3. ~handler => /\ DOMAIN report' = {"duration", "responses", "codes"}
                    /\ report'.duration = Interval(0, now)
    BY <2>1, <2>2, Lines DEF ReportInv
  <2>4. Interval(0, now) = now
    BY <1>0, HalfWord, SizesAssumption, Intervals
  <2>5. pc' \in {"deviation", "percent", "free"}
    BY <2>1 DEF AfterLatencies
  <2>6. ~handler /\ pc' = "deviation" => size >= 1
    BY <1>0, <2>1 DEF ReportInv, AfterLatencies
  <2> QED BY <2>1, <2>3, <2>4, <2>5, <2>6 DEF ReportInv
<1>8. CASE ShowDeviation
  <2> DEFINE f == [avg |-> net_record.avg, max |-> net_record.max, min |-> net_record.min,
                   spread |-> Spread(Recorded)]
  <2>1. /\ Shown(f) /\ pc = "deviation" /\ pc' \in {"sort", "undefined"}
        /\ UNCHANGED <<handler, size, now, net_record>>
    BY <1>8 DEF ShowDeviation, Using
  <2>2. /\ DOMAIN f = {"avg", "max", "min", "spread"} /\ f["avg"] = net_record.avg
        /\ f["max"] = net_record.max /\ f["min"] = net_record.min
    OBVIOUS
  <2> HIDE DEF f
  <2>3. ~handler => /\ "duration" \in DOMAIN report /\ report.duration = now
                    /\ size >= 1 /\ "median" \notin DOMAIN report
    BY <2>1 DEF ReportInv
  <2>4. ~handler => /\ "duration" \in DOMAIN report' /\ report'.duration = now
                    /\ "median" \notin DOMAIN report'
    BY <2>1, <2>2, <2>3, Lines
  <2>5. Figures'
    BY <2>1, <2>2, Lines
  <2> QED BY <2>1, <2>3, <2>4, <2>5 DEF ReportInv
<1>9. CASE Sort
  <2>1. /\ pc = "sort" /\ pc' \in {"median", "undefined"}
        /\ UNCHANGED <<handler, size, now, net_record, report>>
    BY <1>9 DEF Sort, Using
  <2>2. \A i, j \in 1 .. size : i < j => cells'[i] <= cells'[j]
    BY <1>9, InOrder
  <2> QED BY <2>1, <2>2 DEF ReportInv
<1>10. CASE ShowMedian
  <2> DEFINE f == [median |-> IF size = 0 THEN 0 ELSE cells[size \div 2 + 1]]
  <2>1. /\ Shown(f) /\ pc = "median" /\ pc' \in {"percent", "free", "undefined"}
        /\ UNCHANGED <<handler, size, now, net_record, cells>>
    BY <1>10 DEF ShowMedian, Using, AfterLatencies
  <2>2. DOMAIN f = {"median"} /\ f["median"] = IF size = 0 THEN 0 ELSE cells[size \div 2 + 1]
    OBVIOUS
  <2> HIDE DEF f
  <2>3. ~handler => /\ "duration" \in DOMAIN report /\ report.duration = now
                    /\ size >= 1 /\ Figures /\ \A i, j \in 1 .. size : i < j => cells[i] <= cells[j]
    BY <2>1 DEF ReportInv
  <2>4. ~handler => /\ "duration" \in DOMAIN report' /\ report'.duration = now
                    /\ report'.avg = net_record.avg /\ report'.max = net_record.max
                    /\ report'.min = net_record.min
                    /\ {"avg", "max", "min"} \subseteq DOMAIN report'
    BY <2>1, <2>2, <2>3, Lines
  <2>5. report'.median = f["median"]
    BY <2>1, <2>2, Lines
  <2>6. ~handler => MedianIs'
    <3> SUFFICES ASSUME ~handler PROVE MedianIs'
      OBVIOUS
    <3> DEFINE m == size \div 2 + 1
    <3>1. m \in Int /\ 1 <= m /\ m <= size /\ 2 * m <= size + 2 /\ size <= 2 * m
      BY <1>0, <2>3, Halving
    <3>2. report'.median = cells[m]
      BY <2>2, <2>3, <2>5
    <3> HIDE DEF m
    <3> QED BY <2>1, <2>3, <3>1, <3>2 DEF MedianIs
  <2> QED BY <2>1, <2>3, <2>4, <2>6 DEF ReportInv
<1>11. CASE ShowPercentage
  <2>1. PICK p : Shown([parts |-> p])
    BY <1>11 DEF ShowPercentage
  <2>2. /\ pc = "percent" /\ pc' \in {"free", "undefined"}
        /\ UNCHANGED <<handler, size, now, net_record, cells>>
    BY <1>11 DEF ShowPercentage, Using
  <2>3. DOMAIN [parts |-> p] = {"parts"}
    OBVIOUS
  <2>4. /\ DOMAIN report' = {"parts"} \cup DOMAIN report
        /\ \A x \in DOMAIN report : x # "parts" => report'[x] = report[x]
    BY <2>1, <2>3, Lines
  <2>5. /\ "median" \in DOMAIN report' => "median" \in DOMAIN report /\ report'.median = report.median
        /\ "duration" \in DOMAIN report => "duration" \in DOMAIN report' /\ report'.duration = report.duration
        /\ Figures => Figures'
    BY <2>2, <2>4
  <2> QED BY <2>2, <2>5 DEF ReportInv, MedianIs
<1>12. CASE Free \/ Exit
  BY <1>12 DEF Free, Exit, Using, ReportInv, MedianIs
<1> QED BY <1>1, <1>2, <1>3, <1>4, <1>5, <1>6, <1>7, <1>8, <1>9, <1>10, <1>11, <1>12
        DEF Next, Summarise

LEMMA InitialReport == Init => ReportInv
<1> SUFFICES ASSUME Init PROVE ReportInv
  OBVIOUS
<1>1. pc = "idle" /\ report = [line \in {} |-> 0]
  BY DEF Init
<1>2. DOMAIN report = {}
  BY <1>1
<1> QED BY <1>1, <1>2 DEF ReportInv, Shown1

(* The greatest and the least number of a set are what Max and Min give.    *)
LEMMA Extremes ==
  ASSUME NEW S \in SUBSET Int, NEW m \in S
  PROVE  /\ (\A x \in S : x <= m) => Max(S) = m
         /\ (\A x \in S : x >= m) => Min(S) = m
<1>1. ASSUME \A x \in S : x <= m PROVE Max(S) = m
  <2>1. \A y \in S : (\A x \in S : y >= x) <=> y = m
    BY <1>1
  <2> QED BY <2>1 DEF Max
<1>2. ASSUME \A x \in S : x >= m PROVE Min(S) = m
  <2>1. \A y \in S : (\A x \in S : y <= x) <=> y = m
    BY <1>2
  <2> QED BY <2>1 DEF Min
<1> QED BY <1>1, <1>2

(* No more than a half of a sorted list is below its middle, or above it.   *)
LEMMA Halves ==
  ASSUME NEW n \in Nat, NEW s, \A i \in 1 .. n : s[i] \in Int,
         \A i, j \in 1 .. n : i < j => s[i] <= s[j],
         NEW m \in 1 .. n, 2 * m <= n + 2, n <= 2 * m
  PROVE  /\ 2 * Cardinality({i \in 1 .. n : s[i] < s[m]}) <= n
         /\ 2 * Cardinality({i \in 1 .. n : s[i] > s[m]}) <= n
<1>1. {i \in 1 .. n : s[i] < s[m]} \subseteq 1 .. m - 1
  <2> SUFFICES ASSUME NEW i \in 1 .. n, s[i] < s[m] PROVE i < m
    OBVIOUS
  <2>1. ~(m < i) /\ i # m
    OBVIOUS
  <2> QED BY <2>1
<1>2. {i \in 1 .. n : s[i] > s[m]} \subseteq m + 1 .. n
  <2> SUFFICES ASSUME NEW i \in 1 .. n, s[i] > s[m] PROVE i > m
    OBVIOUS
  <2>1. ~(i < m) /\ i # m
    OBVIOUS
  <2> QED BY <2>1
<1>3. /\ IsFiniteSet(1 .. m - 1) /\ Cardinality(1 .. m - 1) = m - 1
      /\ IsFiniteSet(m + 1 .. n) /\ Cardinality(m + 1 .. n) = n - m
  <2>1. m \in Int /\ n \in Int /\ 1 <= m /\ m <= n
    OBVIOUS
  <2>2. /\ IsFiniteSet(1 .. m - 1)
        /\ Cardinality(1 .. m - 1) = IF 1 > m - 1 THEN 0 ELSE (m - 1) - 1 + 1
    BY <2>1, FS_Interval
  <2>3. /\ IsFiniteSet(m + 1 .. n)
        /\ Cardinality(m + 1 .. n) = IF m + 1 > n THEN 0 ELSE n - (m + 1) + 1
    BY <2>1, FS_Interval
  <2> QED BY <2>1, <2>2, <2>3
<1> DEFINE low == {i \in 1 .. n : s[i] < s[m]}
           high == {i \in 1 .. n : s[i] > s[m]}
<1>4. /\ IsFiniteSet(low) /\ Cardinality(low) <= m - 1
      /\ IsFiniteSet(high) /\ Cardinality(high) <= n - m
  BY <1>1, <1>2, <1>3, FS_Subset
<1>5. Cardinality(low) \in Nat /\ Cardinality(high) \in Nat
  BY <1>4, FS_CardinalityType
<1> HIDE DEF low, high
<1>6. 2 * Cardinality(low) <= n /\ 2 * Cardinality(high) <= n
  BY <1>4, <1>5
<1> QED BY <1>6 DEF low, high

LEMMA TrueReport == ASSUME TypesInv, FigureInv, ReportInv PROVE SummaryIsTrue
<1> SUFFICES ASSUME pc = "exited", "median" \in DOMAIN report, ~handler
             PROVE  /\ report.duration = now
                    /\ report.max = Max(ToSet(Recorded)) /\ report.min = Min(ToSet(Recorded))
                    /\ report.avg = <<Sum(Recorded), size>>
                    /\ report.median \in ToSet(Recorded)
                    /\ 2 * Cardinality({i \in 1 .. size : cells[i] < report.median}) <= size
                    /\ 2 * Cardinality({i \in 1 .. size : cells[i] > report.median}) <= size
  BY DEF SummaryIsTrue, HasLatencies, Reported
<1>1. report.duration = now /\ size >= 1 /\ Figures /\ MedianIs
  BY DEF ReportInv, Shown1
<1>2. /\ Greatest(cells, net_record.max, size) /\ Least(cells, net_record.min, size)
      /\ Mean(cells, net_record.avg, size)
  BY DEF FigureInv, Before, Updating
<1> DEFINE S == ToSet(Recorded)
<1>3. S = {cells[i] : i \in 1 .. size} /\ size \in Nat
  BY RecordedIs DEF TypesInv, TypeOK
<1>4. \A i \in 1 .. size : cells[i] \in Int
  <2>1. cells \in Seq(0 .. Wrap - 1) /\ size <= Len(cells) /\ size \in Nat
    BY DEF TypesInv, TypeOK, FilledInv
  <2>2. cells \in Seq(Int)
    BY <2>1, WordsAreNumbers
  <2> QED BY <2>1, <2>2
<1> HIDE DEF S
<1>5. S \in SUBSET Int
  BY <1>3, <1>4
<1>6. report.max = Max(S)
  <2>1. report.max \in S /\ \A x \in S : x <= report.max
    BY <1>1, <1>2, <1>3 DEF Greatest, Figures
  <2> QED BY <1>5, <2>1, Extremes
<1>7. report.min = Min(S)
  <2>1. report.min \in S /\ \A x \in S : x >= report.min
    BY <1>1, <1>2, <1>3 DEF Least, Figures
  <2> QED BY <1>5, <2>1, Extremes
<1>8. report.avg = <<Sum(Recorded), size>>
  <2>1. report.avg = <<Total(Recorded), size>>
    BY <1>1, <1>2, <1>3 DEF Mean, Figures, Recorded
  <2>2. Total(Recorded) = Sum(Recorded)
    BY DEF Total, Sum
  <2> QED BY <2>1, <2>2
<1>9. PICK m \in Int : /\ 1 <= m /\ m <= size /\ report.median = cells[m]
                       /\ 2 * m <= size + 2 /\ size <= 2 * m
                       /\ \A i, j \in 1 .. size : i < j => cells[i] <= cells[j]
  BY <1>1 DEF MedianIs
<1>10. m \in 1 .. size /\ report.median \in S
  BY <1>3, <1>9
<1>11. /\ 2 * Cardinality({i \in 1 .. size : cells[i] < cells[m]}) <= size
       /\ 2 * Cardinality({i \in 1 .. size : cells[i] > cells[m]}) <= size
  BY <1>3, <1>4, <1>9, <1>10, Halves
<1> QED BY <1>1, <1>6, <1>7, <1>8, <1>9, <1>10, <1>11 DEF S

(* If the run is shorter than half a word of microseconds, 36 minutes, the  *)
(* summary of a run that ended by itself is true: duration, greatest, least *)
(* and mean are those of the intervals recorded and the median is in their  *)
(* middle, for any number of responses (caculate.c:87-106, 137-149, 342).   *)
THEOREM TrueSummary == ASSUME MaxNow < INT_MAX PROVE Spec => []SummaryIsTrue
<1>1. TypesInv /\ TypesInv' /\ ClockInv /\ [Next]_vars => ClockInv'
  BY ClockKeeps
<1>2. TypesInv /\ TypesInv' /\ ClockInv /\ FigureInv /\ [Next]_vars => FigureInv'
  BY FigureKeeps
<1>3. TypesInv /\ TypesInv' /\ ClockInv /\ TallyInv /\ ReportInv /\ [Next]_vars => ReportInv'
  BY ReportKeeps
<1>4. TypesInv /\ TallyInv /\ [Next]_vars => TallyInv'
  BY TallyKeeps
<1>5. TypesInv /\ FigureInv /\ ReportInv => SummaryIsTrue
  BY TrueReport
<1> QED BY InitialClock, InitialFigures, InitialReport, InitialTally, Filled, <1>1, <1>2, <1>3, <1>4, <1>5, PTL
        DEF Spec
===============================================================================
