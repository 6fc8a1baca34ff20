-------------------------------- MODULE Stats --------------------------------
(***************************************************************************)
(* The record of the run: what response_complete (networking.c) adds to    *)
(* net_record statement by statement, the growing array of intervals       *)
(* (stats_add, stats_resize), and the summary (caculate.c) that the timer  *)
(* of -t or SIGINT shows.  SIGINT may come between any two statements,     *)
(* also while the summary of the timer is being shown; the handler is not  *)
(* interrupted itself and exits.  A statement is one step; qsort(3), the   *)
(* printing and the inside of realloc(3) are taken as one.  Connections    *)
(* share the record and are not told apart: one is enough.                 *)
(***************************************************************************)
EXTENDS Integers, SequencesExt

CONSTANTS INIT_SIZE,     \* STATS_INIT_SIZE, cells of the first array
          Code,          \* status codes of the responses
          MaxResponses,  \* bound: responses of a run
          MaxNow,        \* bound: ticks of the clock, microseconds in the code
          Wrap,          \* a uint32_t counts modulo Wrap, 2^32 in the code
          Show,          \* intervals from which the distribution is shown, 100
          Cuts,          \* the cuts of the distribution, <<100, 200, .., 900, 950, 1000>>
          Fine,          \* intervals from which there is one cut more, 1000
          FineCuts,      \* those cuts, <<100, 200, .., 900, 950, 999, 1000>>
          Whole,         \* what the cuts are parts of, 1000
          Interrupts     \* whether the user may press CTRL+C

ASSUME SizesAssumption ==
  /\ INIT_SIZE \in Nat /\ INIT_SIZE >= 2
  /\ MaxResponses \in Nat /\ MaxNow \in Nat
  /\ Wrap \in Nat /\ Wrap >= 4 /\ Wrap % 2 = 0
  /\ Show \in Nat \ {0} /\ Fine \in Nat \ {0} /\ Whole \in Nat \ {0}
  /\ Cuts \in Seq(1 .. Whole) /\ FineCuts \in Seq(1 .. Whole)
  /\ Interrupts \in BOOLEAN
ASSUME CodeAssumption == IsFiniteSet(Code)  \* g_status_code_map has 1024 cells

VARIABLES pc,              \* the next statement of the thread
          handler,         \* the thread is in the handler of SIGINT
          now, sent, cost, \* the clock; latest_snd_time, or -1; the interval recorded
          size, capacity,  \* of net_record's array
          data, live, new, \* block it points to; blocks allocated; realloc's result
          cells,           \* the intervals written so far
          net_record,      \* the other counters
          report           \* what the summary has shown

time == <<now, sent, cost>>
memory == <<data, live, new>>
array == <<size, capacity, memory, cells>>
vars == <<pc, handler, time, array, net_record, report>>

INT_MAX == Wrap \div 2 - 1
Block == {1, 2}
Recorded == SubSeq(cells, 1, size)
Sum(s) == FoldLeft(LAMBDA a, b : a + b, 0, s)

\* stats_get_interval: a difference of times, truncated to uint32_t.
Interval(from, to) == (to - from) % Wrap

\* stats_init.
Init ==
  /\ pc = "idle" /\ handler = FALSE
  /\ now = 0 /\ sent = -1 /\ cost = 0
  /\ size = 0 /\ capacity = INIT_SIZE
  /\ data = 1 /\ live = {1} /\ new = 1
  /\ cells = <<>>
  /\ net_record = [total_responses |-> 0, max |-> 0, min |-> INT_MAX - 1,
                   avg |-> <<0, 1>>, codes |-> [c \in Code |-> 0]]
  /\ report = [line \in {} |-> 0]

Goto(next) == pc' = next
Ended == pc \in {"exited", "undefined"}
Summarising == pc \in {"summary", "deviation", "sort", "median", "percent", "free", "exit"}

\* The clock runs until the summary reads it.
Tick ==
  /\ ~Ended /\ ~Summarising
  /\ now < MaxNow
  /\ now' = now + 1
  /\ UNCHANGED <<pc, handler, sent, cost, array, net_record, report>>

\* send_request is done: latest_snd_time.
Send ==
  /\ pc = "idle" /\ sent = -1
  /\ net_record.total_responses < MaxResponses
  /\ sent' = now
  /\ UNCHANGED <<pc, handler, now, cost, array, net_record, report>>

-----------------------------------------------------------------------------
(* response_complete, then stats_add, stats_resize and stats_update.       *)

CountStatus ==
  /\ pc = "idle" /\ sent # -1
  /\ \E c \in Code : net_record' = [net_record EXCEPT !.codes[c] = @ + 1]
  /\ Goto("count")
  /\ UNCHANGED <<handler, time, array, report>>

CountResponse ==
  /\ pc = "count"
  /\ net_record' = [net_record EXCEPT !.total_responses = @ + 1]
  /\ Goto("time")
  /\ UNCHANGED <<handler, time, array, report>>

\* Mutants: the array is grown when there is no cell left; every time; an
\* interval of zero is left out.
TakeTime_full ==
  /\ pc = "time"
  /\ cost' = Interval(sent, now)
  /\ sent' = -1
  /\ Goto(IF size > capacity THEN "grow" ELSE "write")
  /\ UNCHANGED <<handler, now, array, net_record, report>>
TakeTime_always ==
  /\ pc = "time"
  /\ cost' = Interval(sent, now)
  /\ sent' = -1
  /\ Goto("grow")
  /\ UNCHANGED <<handler, now, array, net_record, report>>

TakeTime_skips ==
  /\ pc = "time"
  /\ cost' = Interval(sent, now)
  /\ sent' = -1
  /\ Goto(IF cost' = 0 THEN "idle" ELSE IF size >= capacity \div 2 THEN "grow" ELSE "write")
  /\ UNCHANGED <<handler, now, array, net_record, report>>

\* The interval is taken; stats_add grows an array that is half full.
TakeTime ==
  /\ pc = "time"
  /\ cost' = Interval(sent, now)
  /\ sent' = -1
  /\ Goto(IF size >= capacity \div 2 THEN "grow" ELSE "write")
  /\ UNCHANGED <<handler, now, array, net_record, report>>

Grow ==
  /\ pc = "grow"
  /\ capacity' = capacity * 2
  /\ Goto("realloc")
  /\ UNCHANGED <<handler, time, size, memory, cells, net_record, report>>

\* realloc(3) grows the block in place, or moves it and frees the old one.
Realloc ==
  /\ pc = "realloc"
  /\ new' \in Block
  /\ live' = {new'}
  /\ Goto("assign")
  /\ UNCHANGED <<handler, time, size, capacity, data, cells, net_record, report>>

Assign ==
  /\ pc = "assign"
  /\ data' = new
  /\ Goto("clear")
  /\ UNCHANGED <<handler, time, size, capacity, live, new, cells, net_record, report>>

\* memset of capacity - size bytes behind cell size.
Clear ==
  /\ pc = "clear"
  /\ Goto("write")
  /\ UNCHANGED <<handler, time, array, net_record, report>>

Write ==
  /\ pc = "write"
  /\ cells' = Append(Recorded, cost)
  /\ Goto("bump")
  /\ UNCHANGED <<handler, time, size, capacity, memory, net_record, report>>

Bump ==
  /\ pc = "bump"
  /\ size' = size + 1
  /\ Goto("max")
  /\ UNCHANGED <<handler, time, capacity, memory, cells, net_record, report>>

UpdateMax ==
  /\ pc = "max"
  /\ net_record' = [net_record EXCEPT !.max = IF @ < cost THEN cost ELSE @]
  /\ Goto("min")
  /\ UNCHANGED <<handler, time, array, report>>

UpdateMin ==
  /\ pc = "min"
  /\ net_record' = [net_record EXCEPT !.min = IF @ > cost THEN cost ELSE @]
  /\ Goto("avg")
  /\ UNCHANGED <<handler, time, array, report>>

\* Mutants: the sum is divided by size - 1; the weight of the old average is size.
UpdateAvg_divisor ==
  /\ pc = "avg"
  /\ net_record' = [net_record EXCEPT !.avg = <<(@[1] * (size - 1)) \div @[2] + cost, size - 1>>]
  /\ Goto("idle")
  /\ UNCHANGED <<handler, time, array, report>>

UpdateAvg_weights ==
  /\ pc = "avg"
  /\ net_record' = [net_record EXCEPT !.avg = <<(@[1] * size) \div @[2] + cost, size>>]
  /\ Goto("idle")
  /\ UNCHANGED <<handler, time, array, report>>

\* avg = (avg * (size - 1) + cost) / size; avg is a fraction here.
UpdateAvg ==
  /\ pc = "avg"
  /\ net_record' = [net_record EXCEPT !.avg = <<(@[1] * (size - 1)) \div @[2] + cost, size>>]
  /\ Goto("idle")
  /\ UNCHANGED <<handler, time, array, report>>

-----------------------------------------------------------------------------
(* stats_summary.  Reading a freed block is undefined: the model stops.    *)

\* The timer of -t: finally_summary, called from the event loop.
TimerExpires ==
  /\ pc = "idle"
  /\ Goto("summary")
  /\ UNCHANGED <<handler, time, array, net_record, report>>

\* SIGINT: interupt_summary, on top of whatever the thread was doing.
Interrupt ==
  /\ Interrupts /\ ~handler /\ ~Ended
  /\ handler' = TRUE
  /\ Goto("summary")
  /\ UNCHANGED <<time, array, net_record, report>>

\* A statement that uses net_record.data.
Using(next) == Goto(IF data \in live THEN next ELSE "undefined")
Shown(fields) ==
  report' = [line \in DOMAIN fields \cup DOMAIN report |->
               IF line \in DOMAIN fields THEN fields[line] ELSE report[line]]
AfterLatencies == IF size >= Show THEN "percent" ELSE "free"

\* The duration, the counts and the status codes.
ShowCounts ==
  /\ pc = "summary"
  /\ Shown([duration |-> Interval(0, now), responses |-> net_record.total_responses,
            codes |-> net_record.codes])
  /\ Goto(IF net_record.total_responses > 0 THEN "deviation" ELSE AfterLatencies)
  /\ UNCHANGED <<handler, time, array, net_record>>

\* Numerator of the variance over size^3: the last interval's distance only.
Spread(s) == IF s = <<>> THEN 0 ELSE (Len(s) * Last(s) - Sum(s)) ^ 2

ShowDeviation ==
  /\ pc = "deviation"
  /\ Shown([avg |-> net_record.avg, max |-> net_record.max, min |-> net_record.min,
            spread |-> Spread(Recorded)])
  /\ Using("sort")
  /\ UNCHANGED <<handler, time, array, net_record>>

\* Two's complement of a word.
Signed(x) == LET w == x % Wrap IN IF w > INT_MAX THEN w - Wrap ELSE w

\* compare of qsort(3): a difference of int.
Compare(a, b) == Signed(Signed(a) - Signed(b))

\* The comparison is an order, as qsort(3) asks: of two values one comes
\* first, and so on from one to the next.
OrderOf(S) ==
  \A a, b, c \in S : /\ Compare(a, b) < 0 <=> Compare(b, a) > 0
                     /\ Compare(a, b) <= 0 /\ Compare(b, c) <= 0 => Compare(a, c) <= 0

Ordered(s) == \A i, j \in DOMAIN s : i < j => Compare(s[i], s[j]) <= 0
Rearranged(s) == { [i \in DOMAIN s |-> s[from[i]]] : from \in Bijection(DOMAIN s, DOMAIN s) }

\* What qsort(3) makes of an order that is none is anybody's guess.
Sort ==
  /\ pc = "sort"
  /\ \E t \in Rearranged(Recorded) : (OrderOf(ToSet(Recorded)) => Ordered(t)) /\ cells' = t
  /\ Using("median")
  /\ UNCHANGED <<handler, time, size, capacity, memory, net_record, report>>

\* data[size / 2]; an array with nothing in it starts with a zero.
ShowMedian ==
  /\ pc = "median"
  /\ Shown([median |-> IF size = 0 THEN 0 ELSE cells[size \div 2 + 1]])
  /\ Using(AfterLatencies)
  /\ UNCHANGED <<handler, time, array, net_record>>

\* stats_navg2 of data[m .. n-1], as a fraction.
Navg2(m, n) ==
  IF m = n THEN <<cells[m + 1], 1>>
  ELSE <<Sum(SubSeq(cells, m + 1, n)), n - m + 1>>

\* stats_show_percentage: the average of each part of the intervals.
ShowPercentage ==
  /\ pc = "percent"
  /\ LET cuts == IF size >= Fine THEN FineCuts ELSE Cuts
         Top(i) == IF i = 0 THEN 0 ELSE (size * cuts[i]) \div Whole
     IN  Shown([parts |-> [i \in DOMAIN cuts |-> Navg2(Top(i - 1), Top(i))]])
  /\ Using("free")
  /\ UNCHANGED <<handler, time, array, net_record>>

\* stats_free leaves data as it is.
Free ==
  /\ pc = "free"
  /\ live' = live \ {data}
  /\ Using("exit")
  /\ UNCHANGED <<handler, time, size, capacity, data, new, cells, net_record, report>>

Exit ==
  /\ pc = "exit"
  /\ Goto("exited")
  /\ UNCHANGED <<handler, time, array, net_record, report>>

Record == CountStatus \/ CountResponse \/ TakeTime \/ Grow \/ Realloc \/ Assign \/ Clear
          \/ Write \/ Bump \/ UpdateMax \/ UpdateMin \/ UpdateAvg
Summarise == ShowCounts \/ ShowDeviation \/ Sort \/ ShowMedian \/ ShowPercentage \/ Free \/ Exit
Next == Tick \/ Send \/ Record \/ TimerExpires \/ Interrupt \/ Summarise
Spec == Init /\ [][Next]_vars

-----------------------------------------------------------------------------
NetRecord == [total_responses : Nat, max : 0 .. Wrap - 1, min : 0 .. Wrap - 1,
              avg : Nat \X (Nat \ {0}), codes : [Code -> Nat]]

(* Every variable has its type, and an average is one of some intervals,    *)
(* from the first response on (caculate.c:145).                             *)
TypeOK ==
  /\ pc \in {"idle", "count", "time", "grow", "realloc", "assign", "clear", "write", "bump",
             "max", "min", "avg", "summary", "deviation", "sort", "median", "percent",
             "free", "exit", "exited", "undefined"}
  /\ handler \in BOOLEAN
  /\ now \in 0 .. MaxNow /\ sent \in -1 .. MaxNow /\ cost \in 0 .. Wrap - 1
  /\ size \in Nat /\ capacity \in Nat
  /\ data \in Block /\ live \subseteq Block /\ new \in Block
  /\ cells \in Seq(0 .. Wrap - 1)
  /\ net_record \in NetRecord

(* What is written behind the last interval lies inside the array: the     *)
(* interval (caculate.c:132), and the capacity - size bytes, a quarter of  *)
(* as many cells, that stats_resize clears from cell size + 1 (157).       *)
WritesInBounds ==
  /\ pc = "write" => size < capacity /\ data \in live
  /\ pc = "clear" => /\ data \in live
                     /\ 4 * (size + 1) + (capacity - size) <= 4 * capacity

(* The array is never more than four times what it holds (caculate.c:128). *)
SpaceBounded == capacity <= INIT_SIZE \/ capacity <= 4 * (size + 1)

(* Between two responses every response has a status and an interval.      *)
CountsAgree ==
  pc = "idle" => /\ net_record.total_responses = size
                 /\ FoldFunction(+, 0, net_record.codes) = size

(* The array while an interval is recorded: less than half of it is used   *)
(* where a cell is written, and its block is allocated.  The inductive     *)
(* invariant.                                                              *)
Recording == {"idle", "count", "time", "grow", "realloc", "clear", "write", "bump",
              "max", "min", "avg"}
HalfFree == /\ 2 * size <= capacity
            /\ pc \in {"realloc", "assign", "clear", "write", "bump"} => 2 * (size + 1) <= capacity
            /\ pc = "grow" => capacity <= 2 * size + 1
BlockLive == /\ pc \in Recording => data \in live
             /\ pc = "assign" => new \in live
ArrayInv == /\ size \in Nat /\ capacity \in Nat /\ capacity >= 2
            /\ HalfFree /\ BlockLive /\ SpaceBounded

Reported == pc = "exited"
HasLatencies == Reported /\ "median" \in DOMAIN report

(* The summary of a run that ended by itself is true: duration, greatest,  *)
(* least and mean interval are those of the recorded ones, and no more     *)
(* than half of them are below, or above, the median.                      *)
SummaryIsTrue ==
  HasLatencies /\ ~handler =>
    /\ report.duration = now
    /\ report.max = Max(ToSet(Recorded)) /\ report.min = Min(ToSet(Recorded))
    /\ report.avg = <<Sum(Recorded), size>>
    /\ report.median \in ToSet(Recorded)
    /\ 2 * Cardinality({i \in 1 .. size : cells[i] < report.median}) <= size
    /\ 2 * Cardinality({i \in 1 .. size : cells[i] > report.median}) <= size

(* CTRL+C ends the run with the summary of what is recorded (main.c:31):   *)
(* the handler never uses an array that is not allocated.                  *)
InterruptIsDefined == pc # "undefined"

(* The record the summary shows has the interval of every response it      *)
(* counts (caculate.h:21).                                                 *)
EveryResponseTimed == pc = "deviation" => net_record.total_responses = size

(* The standard deviation shown (caculate.c:375) is that of all intervals. *)
DeviationOfAll ==
  HasLatencies => report.spread = Sum([i \in 1 .. size |-> (size * cells[i] - Sum(Recorded)) ^ 2])

(* An average of the intervals of a part (caculate.c:379) is not below all *)
(* of the intervals.                                                       *)
PartsAreAverages ==
  Reported /\ "parts" \in DOMAIN report =>
    \A i \in DOMAIN report.parts : LET p == report.parts[i] IN p[1] >= p[2] * Min(ToSet(Recorded))

(* "Before call stats_show_percentage(), make sure your record is sorted"  *)
(* (caculate.h:65).                                                        *)
PercentageOfSorted ==
  pc = "percent" => \A i, j \in 1 .. size : i < j => cells[i] <= cells[j]

(* The duration shown (caculate.c:352) is the time since the start.        *)
DurationIsElapsed == Reported => report.duration = now
===============================================================================
